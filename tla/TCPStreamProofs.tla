--------------------------- MODULE TCPStreamProofs ---------------------------
(***************************************************************************)
(* Proofs about module TCP, for any table of connections, range of ports,  *)
(* timeouts, server and network that loses, duplicates and reorders: the   *)
(* types; that the two ends of a connection agree on how far they are; and *)
(* that TCP implements ReliableStream.                                     *)
(***************************************************************************)
EXTENDS TCP, TLAPS, SequenceTheorems

----------------------------------------------------------------------------
(* The shape of the state *)

Open(conn)   == conn.tcpstate # "CLOSED"
Joined(conn) == conn.tcpstate \in {"ESTABLISHED", "LAST_ACK"}

\* The application never closes: uIP's other states are not reached
Reached == {"CLOSED", "SYN_SENT", "ESTABLISHED", "LAST_ACK"}

\* What is true of an entry of the table whatever the rest of the world does
Sound(conn) ==
  /\ conn \in Connection
  /\ conn.tcpstate \in Reached
  /\ conn.len \in {0, 1}
  /\ Open(conn) => conn.lport \in Ports
  /\ ~Open(conn) => conn.len = 0
  /\ conn.tcpstate = "SYN_SENT" => conn.len = 1 /\ conn.snd_nxt[2] = 0
  /\ conn.tcpstate = "LAST_ACK" => conn.len = 1
  /\ Joined(conn) => conn.snd_nxt[2] >= 1 /\ conn.rcv_nxt[1] \in 1..MaxAccepts

\* In the middle of a handler
Proper(s) ==
  /\ s \in UipState
  /\ \A c \in Slots : Sound(s.conns[c])

\* At its end
Left(s) == s.uip_flags = {} /\ s.uip_slen = 0

\* A segment that the other end looks at further
Ordinary(p) == "RST" \notin p.flags

\* What tcp_send makes of a connection
Segment(conn, flags, len) ==
  [port |-> conn.lport, flags |-> flags, seq |-> conn.snd_nxt, ack |-> conn.rcv_nxt,
   len |-> len, urgp |-> 0]

\* What a segment takes of sequence space
Size(p) == p.len + (IF p.flags \cap {"SYN", "FIN"} # {} THEN 1 ELSE 0)

\* The segments in out are of connection conn as it is
Says(conn, out) ==
  \A p \in out :
    Ordinary(p) =>
      /\ Open(conn) /\ p.seq = conn.snd_nxt
      /\ Size(p) <= conn.len
      /\ "SYN" \in p.flags => p.flags = {"SYN"} /\ conn.tcpstate = "SYN_SENT"
      /\ "SYN" \notin p.flags => "ACK" \in p.flags /\ p.ack = conn.rcv_nxt

\* Nothing but RSTs
OnlyResets(out) == \A p \in out : ~Ordinary(p)

\* What no handler but the callback touches
SameHistory(s, t) == t.received = s.received /\ t.ended = s.ended
SameTable(s, t) == t.conns = s.conns /\ t.iss = s.iss

----------------------------------------------------------------------------
(* Sequences and types *)

\* A port is a number, and never the 0 of a connection that is closed.
LEMMA PortsAreNumbers == Ports \subseteq Nat /\ 0 \notin Ports
BY ConstantsAssumption DEF Ports

\* A sequence has a length.
LEMMA LengthType ==
  ASSUME NEW data \in Seq(Nat \X Nat)
  PROVE  Len(data) \in Nat
OBVIOUS

\* The data of a segment, less what is urgent.
LEMMA DataType ==
  ASSUME NEW p \in Segments
  PROVE  /\ DataOf(p) \in Seq(Nat \X Nat) /\ Len(DataOf(p)) = p.len
         /\ UrgentLength(p) \in 0..p.len
         /\ AppData(p) \in Seq(Nat \X Nat) /\ Len(AppData(p)) = p.len - UrgentLength(p)
<1>1. p.len \in Nat /\ p.seq \in Nat \X Nat /\ p.urgp \in Nat
  BY DEF Segments, Seqs
<1>2. DataOf(p) \in [1..p.len -> Nat \X Nat]
  BY <1>1 DEF DataOf
<1>3. DataOf(p) \in Seq(Nat \X Nat) /\ Len(DataOf(p)) = p.len
  BY <1>1, <1>2 DEF DataOf
<1>4. UrgentLength(p) \in 0..p.len
  BY <1>1 DEF UrgentLength
<1>5. AppData(p) \in Seq(Nat \X Nat) /\ Len(AppData(p)) = p.len - UrgentLength(p)
  <2> DEFINE u == UrgentLength(p)
             d == DataOf(p)
  <2>1. u + 1 \in Int /\ p.len \in Int /\ u \in 0..p.len
    BY <1>1, <1>4
  <2>2. \A j \in (u + 1)..p.len : d[j] \in Nat \X Nat
    BY <1>2, <2>1
  <2> HIDE DEF u, d
  <2>3. /\ SubSeq(d, u + 1, p.len) \in Seq(Nat \X Nat)
        /\ Len(SubSeq(d, u + 1, p.len)) = IF u + 1 <= p.len THEN p.len - (u + 1) + 1 ELSE 0
    BY <2>1, <2>2, SubSeqProperties
  <2> QED
    BY <1>1, <2>1, <2>3 DEF AppData, u, d
<1> QED
  BY <1>3, <1>4, <1>5

----------------------------------------------------------------------------
(* Leaving uip_process *)

\* Drop leaves all but the buffers alone.
LEMMA DropEffect ==
  ASSUME NEW s \in UipState
  PROVE  /\ Drop(s) \in UipState /\ Left(Drop(s)) /\ Drop(s).out = {}
         /\ SameTable(s, Drop(s)) /\ SameHistory(s, Drop(s))
BY DEF Drop, UipState, Left, SameTable, SameHistory

\* tcp_send leaves a segment of the connection.
LEMMA SendEffect ==
  ASSUME NEW s \in UipState, NEW c \in Slots, s.conns[c] \in Connection,
         s.conns[c].lport \in Ports, NEW flags \in SUBSET Flags, NEW len \in Nat
  PROVE  LET t == tcp_send(s, c, flags, len)
         IN  /\ t \in UipState /\ Left(t)
             /\ t.out = {Segment(s.conns[c], flags, len)}
             /\ SameTable(s, t) /\ SameHistory(s, t)
<1> DEFINE p == Segment(s.conns[c], flags, len)
<1>1. p \in Segments
  BY DEF Segments, Segment, Connection
<1> HIDE DEF p
<1>2. tcp_send(s, c, flags, len) = [s EXCEPT !.out = {p}, !.uip_flags = {}, !.uip_slen = 0]
  BY DEF tcp_send, Segment, p
<1>3. LET t == [s EXCEPT !.out = {p}, !.uip_flags = {}, !.uip_slen = 0]
      IN  /\ t \in UipState /\ Left(t) /\ t.out = {p}
          /\ SameTable(s, t) /\ SameHistory(s, t)
  BY <1>1 DEF UipState, Left, SameTable, SameHistory
<1> QED
  BY <1>2, <1>3 DEF p

\* The label reset answers with a RST, if at all.
LEMMA ResetEffect ==
  ASSUME NEW s \in UipState, NEW p \in Segments
  PROVE  LET t == reset(s, p)
         IN  /\ t \in UipState /\ Left(t) /\ OnlyResets(t.out)
             /\ SameTable(s, t) /\ SameHistory(s, t)
<1>1. /\ Drop(s) \in UipState /\ Left(Drop(s)) /\ Drop(s).out = {}
      /\ SameTable(s, Drop(s)) /\ SameHistory(s, Drop(s))
  BY DropEffect
<1> DEFINE q == [port |-> p.port, flags |-> {"RST", "ACK"}, seq |-> p.ack,
                 ack |-> uip_add32(p.seq, 1), len |-> 0, urgp |-> 0]
           t == [Drop(s) EXCEPT !.out = {q}]
<1>2. q \in Segments /\ ~Ordinary(q)
  BY DEF Segments, Seqs, Flags, uip_add32, Ordinary
<1> HIDE DEF q
<1>3. /\ t \in UipState /\ Left(t) /\ OnlyResets(t.out)
      /\ SameTable(s, t) /\ SameHistory(s, t)
  BY <1>1, <1>2 DEF UipState, Left, OnlyResets, SameTable, SameHistory
<1>4. reset(s, p) = IF "RST" \in p.flags THEN Drop(s) ELSE t
  BY DEF reset, q
<1>5. OnlyResets({})
  BY DEF OnlyResets
<1> QED
  BY <1>1, <1>3, <1>4, <1>5

----------------------------------------------------------------------------
(* The callback *)

\* The clock and the count of the periods that are due stay in their ranges.
LEMMA LaterType ==
  ASSUME NEW ticks \in Nat, NEW n \in Nat
  PROVE  Later(ticks, n) \in 0..MaxTicks /\ Later(ticks, n) \in Nat
BY ConstantsAssumption DEF Later, MaxTicks

\* A step inside the callback, but for what it hands over and reports
Within(s, t) ==
  /\ t \in UipState /\ SameTable(s, t) /\ t.out = s.out

\* Reconnecting changes neither the table nor what the application has been told.
LEMMA ReconnectEffect ==
  ASSUME NEW s \in UipState
  PROVE  Within(s, Reconnect(s)) /\ SameHistory(s, Reconnect(s))
         /\ Reconnect(s).uip_flags = s.uip_flags
<1>1. s.SystemTicks \in Nat /\ s.late \in Nat
  BY DEF UipState
<1>2. /\ Later(s.SystemTicks, CALLBACK_DELAY) \in 0..MaxTicks
      /\ Later(s.late, CALLBACK_DELAY) \in Nat
  <2>1. CALLBACK_DELAY \in Nat
    BY ConstantsAssumption
  <2> QED
    BY <1>1, <2>1, LaterType
<1> DEFINE n == Later(s.SystemTicks, CALLBACK_DELAY)
           m == Later(s.late, CALLBACK_DELAY)
<1> HIDE DEF n, m
<1>3. Reconnect(s) = [s EXCEPT !.SystemTicks = n, !.late = m,
                              !.ConnectedState = "ConnectToRemoteHost"]
  BY DEF Reconnect, n, m
<1>4. n \in 0..MaxTicks /\ m \in Nat
  BY <1>2 DEF n, m
<1> QED
  BY <1>3, <1>4 DEF UipState, Within, SameTable, SameHistory

\* received with more data on connection k, and after the callback
Appended(s, k, data) == [s.received EXCEPT ![k] = @ \o data]
HandedOver(s, k, flags, data) ==
  IF "NEWDATA" \in flags /\ data # <<>> THEN Appended(s, k, data)
  ELSE s.received

\* t is what the callback makes of s
Told(s, c, flags, data, t) ==
  LET k == s.conns[c].rcv_nxt[1]
  IN  /\ Within(s, t)
      /\ t.received = HandedOver(s, k, flags, data)
      /\ t.ended = IF "CLOSE" \in flags THEN s.ended \cup {k} ELSE s.ended
      /\ t.uip_flags = IF "TIMEDOUT" \in flags THEN {"ABORT"} ELSE flags

\* What the callback is told by the flags UIP_NEWDATA, UIP_CLOSE and UIP_TIMEDOUT.
LEMMA CallbackEffect ==
  ASSUME NEW s \in UipState, NEW c \in Slots, NEW flags \in SUBSET UipFlags,
         NEW data \in Seq(Nat \X Nat), s.conns[c].rcv_nxt \in Nat \X Nat,
         "CLOSE" \in flags => s.conns[c].rcv_nxt[1] \in 1..MaxAccepts
  PROVE  Told(s, c, flags, data, UIP_APPCALL(s, c, flags, data))
<1> DEFINE k == s.conns[c].rcv_nxt[1]
           s0 == [s EXCEPT !.uip_flags = flags]
           queued == IF "NEWDATA" \in s0.uip_flags THEN TCPIP_QueueData(s0, c, data) ELSE s0
           told == [queued EXCEPT !.ended = @ \cup {s0.conns[c].rcv_nxt[1]}]
           closed == IF "CLOSE" \in s0.uip_flags THEN Reconnect(told) ELSE queued
           aborted == IF "ABORT" \in s0.uip_flags THEN Reconnect(closed) ELSE closed
           late == [aborted EXCEPT !.uip_flags = {"ABORT"}]
           timedout == IF "TIMEDOUT" \in s0.uip_flags THEN Reconnect(late) ELSE aborted
           asked == [timedout EXCEPT !.SystemTicks = 0]
           polled == IF TimeToGet(timedout, c) THEN TCPIP_SendGET(asked) ELSE timedout
           done == IF "REXMIT" \in s0.uip_flags THEN TCPIP_SendGET(polled) ELSE polled
           Received == HandedOver(s, k, flags, data)
           Ended == IF "CLOSE" \in flags THEN s.ended \cup {k} ELSE s.ended
           Flagged == IF "TIMEDOUT" \in flags THEN {"ABORT"} ELSE flags
<1>1. Within(s, s0) /\ SameHistory(s, s0) /\ s0.uip_flags = flags /\ s0.conns = s.conns
  BY DEF UipState, Within, SameTable, SameHistory
<1>2. Within(s, queued) /\ queued.received = Received /\ queued.ended = s.ended
        /\ queued.uip_flags = flags
  <2>1. Received \in [1..MaxAccepts -> Seq(Nat \X Nat)]
    <3>1. s.received \in [1..MaxAccepts -> Seq(Nat \X Nat)]
      BY DEF UipState
    <3>2. \A j \in 1..MaxAccepts : s.received[j] \o data \in Seq(Nat \X Nat)
      BY <3>1, ConcatProperties
    <3> QED
      BY <3>1, <3>2 DEF HandedOver, Appended
  <2>2. queued = IF "NEWDATA" \in flags /\ data # <<>> THEN [s0 EXCEPT !.received = Received]
                 ELSE s0
    BY <1>1 DEF TCPIP_QueueData, SameHistory, UipState, Within, HandedOver, Appended
  <2> HIDE DEF Received, queued
  <2>3. Received = s.received \/ ("NEWDATA" \in flags /\ data # <<>>)
    BY DEF Received, HandedOver
  <2> HIDE DEF s0
  <2> QED
    BY <1>1, <2>1, <2>2, <2>3 DEF Within, SameTable, SameHistory, UipState
<1> HIDE DEF queued, Received
<1>3. "CLOSE" \in flags => /\ Within(s, told) /\ told.received = Received
                           /\ told.ended = s.ended \cup {k} /\ told.uip_flags = flags
  <2>1. s0.conns[c].rcv_nxt[1] = k
    BY <1>1
  <2> HIDE DEF s0
  <2> QED
    BY <1>2, <2>1 DEF Within, SameTable, UipState
<1> HIDE DEF told
<1>4. Within(s, closed) /\ closed.received = Received /\ closed.ended = Ended
        /\ closed.uip_flags = flags
  <2>1. CASE "CLOSE" \in flags
    BY <1>1, <1>3, <2>1, ReconnectEffect DEF Within, SameTable, SameHistory
  <2>2. CASE "CLOSE" \notin flags
    BY <1>1, <1>2, <2>2
  <2> QED
    BY <2>1, <2>2
<1> HIDE DEF closed, Ended
<1>5. Within(s, aborted) /\ aborted.received = Received /\ aborted.ended = Ended
        /\ aborted.uip_flags = flags
  BY <1>1, <1>4, ReconnectEffect DEF Within, SameTable, SameHistory
<1> HIDE DEF aborted
<1>6. Within(s, late) /\ late.received = Received /\ late.ended = Ended
        /\ late.uip_flags = {"ABORT"}
  BY <1>5 DEF Within, SameTable, UipState, UipFlags
<1> HIDE DEF late
<1>7. Within(s, timedout) /\ timedout.received = Received /\ timedout.ended = Ended
        /\ timedout.uip_flags = Flagged
  BY <1>1, <1>5, <1>6, ReconnectEffect DEF Within, SameTable, SameHistory
<1> HIDE DEF timedout, Flagged
<1>8. ASSUME NEW t, Within(s, t)
      PROVE  /\ Within(s, TCPIP_SendGET(t)) /\ SameHistory(t, TCPIP_SendGET(t))
             /\ TCPIP_SendGET(t).uip_flags = t.uip_flags
  BY <1>8 DEF Within, SameTable, SameHistory, UipState, TCPIP_SendGET
<1>9. Within(s, asked) /\ asked.received = Received /\ asked.ended = Ended
        /\ asked.uip_flags = Flagged
  <2>1. 0 \in 0..MaxTicks
    BY ConstantsAssumption DEF MaxTicks
  <2> QED
    BY <1>7, <2>1 DEF Within, SameTable, UipState
<1> HIDE DEF asked
<1>10. Within(s, polled) /\ polled.received = Received /\ polled.ended = Ended
         /\ polled.uip_flags = Flagged
  BY <1>7, <1>8, <1>9 DEF SameHistory
<1> HIDE DEF polled
<1>11. Within(s, done) /\ done.received = Received /\ done.ended = Ended
         /\ done.uip_flags = Flagged
  BY <1>8, <1>10 DEF SameHistory
<1>12. UIP_APPCALL(s, c, flags, data) = done
  BY DEF UIP_APPCALL, TCPIP_TCPCallback, done, polled, asked, timedout, late, aborted, closed,
         told, queued
<1> QED
  BY <1>11, <1>12 DEF Told, Received, Ended, Flagged

----------------------------------------------------------------------------
(* What a handler does to its connection *)

Closes(conn, conn2) == ~Open(conn2) /\ conn2.rcv_nxt = conn.rcv_nxt

Stays(conn, conn2) ==
  /\ conn2.tcpstate = conn.tcpstate
  /\ conn2.snd_nxt = conn.snd_nxt /\ conn2.rcv_nxt = conn.rcv_nxt
  /\ conn2.len >= conn.len

\* From s, the handler of the connection in slot c leaves with t: the connection is closed,
\* or as it was, perhaps with more outstanding, and what is sent is about it
Quiet(s, t, c) ==
  /\ t \in UipState /\ Left(t)
  /\ SameHistory(s, t) /\ t.iss = s.iss
  /\ \E conn : /\ Sound(conn) /\ t.conns = [s.conns EXCEPT ![c] = conn]
               /\ \/ Closes(s.conns[c], conn) /\ OnlyResets(t.out)
                  \/ Stays(s.conns[c], conn) /\ Says(conn, t.out)

\* An assignment to an entry of the table touches nothing else.
LEMMA EntryEffect ==
  ASSUME NEW s \in UipState, NEW c \in Slots, NEW conn \in Connection
  PROVE  LET t == [s EXCEPT !.conns[c] = conn]
         IN  /\ t \in UipState /\ t.conns = [s.conns EXCEPT ![c] = conn]
             /\ t.conns[c] = conn
             /\ SameHistory(s, t) /\ t.iss = s.iss
             /\ t.uip_flags = s.uip_flags /\ t.uip_slen = s.uip_slen /\ t.out = s.out
BY DEF UipState, SameHistory

\* A closed entry is sound.
LEMMA ClosedSound ==
  ASSUME NEW conn \in Connection
  PROVE  Sound(Closed(conn)) /\ Closes(conn, Closed(conn))
BY DEF Sound, Closed, Closes, Connection, Open, Joined, Reached, TcpStates, Seqs

\* Leaving with the connection untouched is quiet.
LEMMA DropQuiet ==
  ASSUME NEW s \in UipState, NEW c \in Slots, Sound(s.conns[c])
  PROVE  Quiet(s, Drop(s), c)
<1>1. s.conns = [s.conns EXCEPT ![c] = s.conns[c]] /\ Stays(s.conns[c], s.conns[c])
  BY DEF UipState, Stays, Sound
<1>2. Says(s.conns[c], {})
  BY DEF Says
<1> QED
  BY <1>1, <1>2, DropEffect DEF Quiet, SameTable

\* An entry with other counters
Counted(conn, len, timer, nrtx) == [conn EXCEPT !.len = len, !.timer = timer, !.nrtx = nrtx]

\* What may be outstanding next
Grows(conn, len) == len \in {0, 1} /\ conn.len <= len /\ (Open(conn) \/ len = 0)

\* A connection is as it was when at most its timer and its count of retransmissions
\* change, and more becomes outstanding.
LEMMA CountedStays ==
  ASSUME NEW conn, Sound(conn), NEW len \in Nat, Grows(conn, len), NEW timer \in Nat,
         NEW nrtx \in Nat
  PROVE  LET new == Counted(conn, len, timer, nrtx)
         IN  Sound(new) /\ Stays(conn, new) /\ new \in Connection
<1> DEFINE new == Counted(conn, len, timer, nrtx)
<1>1. conn \in Connection
  BY DEF Sound
<1>2. /\ new \in Connection /\ new.tcpstate = conn.tcpstate /\ new.lport = conn.lport
      /\ new.snd_nxt = conn.snd_nxt /\ new.rcv_nxt = conn.rcv_nxt /\ new.len = len
  BY <1>1 DEF Connection, Counted
<1> HIDE DEF new
<1>3. Sound(new) /\ Stays(conn, new)
  BY <1>2 DEF Sound, Stays, Grows, Open, Joined
<1> QED
  BY <1>2, <1>3 DEF new

\* So is leaving with an acknowledgement, or with a segment that fits what is outstanding.
LEMMA SendQuiet ==
  ASSUME NEW s \in UipState, NEW c \in Slots, Sound(s.conns[c]), Open(s.conns[c])
  PROVE  /\ Quiet(s, tcp_send_ack(s, c), c)
         /\ s.conns[c].tcpstate = "SYN_SENT" => Quiet(s, tcp_send_syn(s, c), c)
         /\ s.conns[c].len = 1 => Quiet(s, tcp_send_finack(s, c), c)
         /\ s.conns[c].len = 1 => Quiet(s, tcp_send(s, c, {"ACK", "PSH"}, s.conns[c].len), c)
<1> DEFINE conn == s.conns[c]
<1>1. s.conns = [s.conns EXCEPT ![c] = conn] /\ Stays(conn, conn)
  BY DEF UipState, Stays, Sound
<1>2. conn \in Connection /\ conn.lport \in Ports /\ conn.len \in {0, 1}
  BY DEF Sound
<1>3. ASSUME NEW flags \in SUBSET Flags, NEW len \in Nat,
             Size(Segment(conn, flags, len)) <= conn.len,
             "SYN" \in flags => flags = {"SYN"} /\ conn.tcpstate = "SYN_SENT",
             "SYN" \notin flags => "ACK" \in flags
      PROVE  Quiet(s, tcp_send(s, c, flags, len), c)
  <2> DEFINE t == tcp_send(s, c, flags, len)
             q == Segment(conn, flags, len)
  <2>1. t \in UipState /\ Left(t) /\ t.out = {q} /\ SameTable(s, t) /\ SameHistory(s, t)
    BY <1>2, <1>3, SendEffect
  <2>2. Says(conn, {q})
    BY <1>3 DEF Says, Segment
  <2> HIDE DEF t, q
  <2>3. Quiet(s, t, c)
    BY <1>1, <2>1, <2>2 DEF Quiet, SameTable
  <2> QED
    BY <2>3 DEF t
<1>4. Quiet(s, tcp_send_ack(s, c), c)
  <2>1. {"ACK"} \in SUBSET Flags /\ "SYN" \notin {"ACK"} /\ "ACK" \in {"ACK"}
        /\ {"ACK"} \cap {"SYN", "FIN"} = {}
    BY DEF Flags
  <2> QED
    BY <1>2, <1>3, <2>1 DEF tcp_send_ack, Size, Segment
<1>5. ASSUME conn.tcpstate = "SYN_SENT" PROVE Quiet(s, tcp_send_syn(s, c), c)
  <2>1. conn.len = 1
    BY <1>5 DEF Sound
  <2> QED
    BY <1>3, <1>5, <2>1 DEF tcp_send_syn, Size, Segment, Flags
<1>6. ASSUME conn.len = 1 PROVE Quiet(s, tcp_send_finack(s, c), c)
  BY <1>3, <1>6 DEF tcp_send_finack, Size, Segment, Flags
<1>7. ASSUME conn.len = 1 PROVE Quiet(s, tcp_send(s, c, {"ACK", "PSH"}, conn.len), c)
  BY <1>3, <1>7 DEF Size, Segment, Flags
<1> QED
  BY <1>4, <1>5, <1>6, <1>7

\* Closing empties the entry and touches nothing else.
LEMMA CloseQuiet ==
  ASSUME NEW s \in UipState, NEW c \in Slots, s.conns[c] \in Connection
  PROVE  LET t == Close(s, c)
         IN  /\ t \in UipState /\ SameHistory(s, t) /\ t.iss = s.iss
             /\ t.conns = [s.conns EXCEPT ![c] = Closed(s.conns[c])]
             /\ t.uip_flags = s.uip_flags /\ t.uip_slen = s.uip_slen /\ t.out = s.out
<1>1. Closed(s.conns[c]) \in Connection
  BY ClosedSound DEF Sound
<1> QED
  BY <1>1, EntryEffect DEF Close

\* What is quiet after a step that leaves table and history alone is quiet from before.
LEMMA QuietFrom ==
  ASSUME NEW s, NEW u, NEW t, NEW c, SameTable(s, u), SameHistory(s, u), Quiet(u, t, c)
  PROVE  Quiet(s, t, c)
BY DEF Quiet, SameTable, SameHistory

\* What is quiet after a change that stays is quiet from before.
LEMMA QuietAfter ==
  ASSUME NEW s \in UipState, NEW c \in Slots, Sound(s.conns[c]), NEW conn, Sound(conn),
         Stays(s.conns[c], conn), NEW u, u.conns = [s.conns EXCEPT ![c] = conn],
         SameHistory(s, u), u.iss = s.iss, NEW t, Quiet(u, t, c)
  PROVE  Quiet(s, t, c)
<1>1. u.conns[c] = conn
  BY DEF UipState
<1>2. PICK last : /\ Sound(last) /\ t.conns = [u.conns EXCEPT ![c] = last]
                  /\ \/ Closes(conn, last) /\ OnlyResets(t.out)
                     \/ Stays(conn, last) /\ Says(last, t.out)
  BY <1>1 DEF Quiet
<1>3. t.conns = [s.conns EXCEPT ![c] = last]
  BY <1>2 DEF UipState
<1>4. Closes(conn, last) => Closes(s.conns[c], last)
  BY DEF Closes, Stays
<1>5. Stays(conn, last) => Stays(s.conns[c], last)
  BY <1>2 DEF Stays, Sound
<1> QED
  BY <1>2, <1>3, <1>4, <1>5 DEF Quiet, SameHistory

\* The callback, told of no data and of no end, hands over and reports nothing.
LEMMA PlainCallback ==
  ASSUME NEW s \in UipState, NEW c \in Slots, NEW flags \in SUBSET UipFlags, "CLOSE" \notin flags
  PROVE  LET t == UIP_APPCALL(s, c, flags, <<>>)
         IN  /\ t \in UipState /\ SameTable(s, t) /\ SameHistory(s, t) /\ t.out = s.out
             /\ "TIMEDOUT" \notin flags => t.uip_flags = flags
<1>1. s.conns[c].rcv_nxt \in Nat \X Nat
  BY DEF UipState, Connection, Seqs
<1>2. ASSUME NEW nothing \in Seq(Nat \X Nat), nothing = <<>>, NEW t,
             t = UIP_APPCALL(s, c, flags, nothing)
      PROVE  /\ t \in UipState /\ SameTable(s, t) /\ SameHistory(s, t) /\ t.out = s.out
             /\ "TIMEDOUT" \notin flags => t.uip_flags = flags
  <2>1. Told(s, c, flags, nothing, t)
    BY <1>1, <1>2, CallbackEffect
  <2> QED
    BY <1>2, <2>1 DEF Told, Within, SameHistory, HandedOver
<1>3. <<>> \in Seq(Nat \X Nat)
  OBVIOUS
<1> QED
  BY <1>2, <1>3

\* Sending what is outstanding again is quiet.
LEMMA RexmitQuiet ==
  ASSUME NEW s \in UipState, NEW c \in Slots, Sound(s.conns[c]), Open(s.conns[c])
  PROVE  Quiet(s, apprexmit(s, c), c)
<1>1. uip_outstanding(s.conns[c]) => s.conns[c].len = 1
  BY DEF Sound, uip_outstanding
<1> QED
  BY <1>1, DropQuiet, SendQuiet DEF apprexmit

\* What the application sends is quiet: it becomes outstanding before it is sent.
LEMMA AppsendQuiet ==
  ASSUME NEW s \in UipState, NEW c \in Slots, Sound(s.conns[c]),
         s.conns[c].tcpstate = "ESTABLISHED", s.uip_flags \cap {"ABORT", "CLOSE"} = {}
  PROVE  Quiet(s, appsend(s, c), c)
<1> DEFINE conn == s.conns[c]
           u == [Queued(s, c) EXCEPT !.conns[c].nrtx = 0]
           Entry(len) == Counted(conn, len, conn.timer, 0)
           After(len) == [s EXCEPT !.conns[c] = Entry(len)]
<1>1. conn.len \in {0, 1} /\ s.uip_slen \in {0, 1} /\ conn \in Connection /\ Open(conn)
  BY DEF Sound, UipState, Open
<1>2. ASSUME NEW len \in Nat, Grows(conn, len)
      PROVE  Quiet(s, apprexmit(After(len), c), c)
  <2>1. Sound(Entry(len)) /\ Stays(conn, Entry(len)) /\ Entry(len) \in Connection
    <3>1. conn.timer \in Nat /\ 0 \in Nat
      BY <1>1 DEF Connection
    <3> QED
      BY <1>1, <1>2, <3>1, CountedStays
  <2>2. Open(Entry(len))
    BY <1>1, <2>1 DEF Stays, Open
  <2> HIDE DEF Entry
  <2>3. /\ After(len) \in UipState /\ After(len).conns = [s.conns EXCEPT ![c] = Entry(len)]
        /\ After(len).conns[c] = Entry(len)
        /\ SameHistory(s, After(len)) /\ After(len).iss = s.iss
    BY <2>1, EntryEffect
  <2> HIDE DEF After
  <2>4. Quiet(After(len), apprexmit(After(len), c), c)
    BY <2>1, <2>2, <2>3, RexmitQuiet
  <2> QED
    BY <2>1, <2>3, <2>4, QuietAfter
<1>3. appsend(s, c) = apprexmit(u, c)
  BY DEF appsend
<1>4. CASE s.uip_slen > 0 /\ ("ACKDATA" \in s.uip_flags \/ ~uip_outstanding(s.conns[c]))
  <2>1. u = After(s.uip_slen)
    <3>1. u = [[s EXCEPT !.conns[c].len = s.uip_slen] EXCEPT !.conns[c].nrtx = 0]
      BY <1>4 DEF Queued
    <3> HIDE DEF u
    <3>2. ASSUME NEW n \in Nat
          PROVE  [[s EXCEPT !.conns[c].len = n] EXCEPT !.conns[c].nrtx = 0] = After(n)
      BY ZenonT(30) DEF UipState, Connection, Counted
    <3> QED
      BY <1>1, <3>1, <3>2
  <2>2. s.uip_slen \in Nat /\ Grows(conn, s.uip_slen)
    BY <1>1, <1>4 DEF Grows
  <2> QED
    BY <1>2, <1>3, <2>1, <2>2
<1>5. CASE ~(s.uip_slen > 0 /\ ("ACKDATA" \in s.uip_flags \/ ~uip_outstanding(s.conns[c])))
  <2>1. u = After(conn.len)
    BY <1>1, <1>5 DEF Queued, UipState, Connection, Counted
  <2>2. conn.len \in Nat /\ Grows(conn, conn.len)
    BY <1>1 DEF Grows
  <2> QED
    BY <1>2, <1>3, <2>1, <2>2
<1> QED
  BY <1>4, <1>5

----------------------------------------------------------------------------
(* The periodic timer *)

\* Counting a retransmission, and the timer, leaves the connection what it was.
LEMMA TimerStays ==
  ASSUME NEW conn, Sound(conn)
  PROVE  /\ Sound(BackedOff(conn)) /\ Stays(conn, BackedOff(conn))
         /\ conn.timer > 0 => /\ Sound([conn EXCEPT !.timer = @ - 1])
                              /\ Stays(conn, [conn EXCEPT !.timer = @ - 1])
<1>1. conn \in Connection /\ UIP_RTO \in Nat
  BY ConstantsAssumption DEF Sound
<1> DEFINE factor == IF conn.nrtx >= 4 THEN 16 ELSE <<1, 2, 4, 8>>[conn.nrtx + 1]
<1>2. factor \in Nat
  <2>1. conn.nrtx \in Nat
    BY <1>1 DEF Connection
  <2>2. conn.nrtx >= 4 \/ conn.nrtx = 0 \/ conn.nrtx = 1 \/ conn.nrtx = 2 \/ conn.nrtx = 3
    BY <2>1
  <2> QED
    BY <2>1, <2>2
<1> HIDE DEF factor
<1>3. UIP_RTO * factor \in Nat
  BY <1>1, <1>2
<1>4. conn.len \in Nat /\ Grows(conn, conn.len) /\ conn.timer \in Nat /\ conn.nrtx \in Nat
  BY <1>1 DEF Sound, Connection, Grows
<1>5. BackedOff(conn) = Counted(conn, conn.len, UIP_RTO * factor, conn.nrtx + 1)
  BY <1>1 DEF BackedOff, Connection, Counted, factor
<1>6. conn.nrtx + 1 \in Nat
  BY <1>1 DEF Connection
<1>7. Sound(BackedOff(conn)) /\ Stays(conn, BackedOff(conn))
  <2> DEFINE timer == UIP_RTO * factor
             nrtx == conn.nrtx + 1
  <2>1. timer \in Nat /\ nrtx \in Nat
    BY <1>3, <1>6
  <2>2. BackedOff(conn) = Counted(conn, conn.len, timer, nrtx)
    BY <1>5
  <2> HIDE DEF timer, nrtx
  <2> QED
    BY <1>1, <1>4, <2>1, <2>2, CountedStays
<1>8. ASSUME conn.timer > 0
      PROVE  /\ Sound([conn EXCEPT !.timer = @ - 1])
             /\ Stays(conn, [conn EXCEPT !.timer = @ - 1])
  <2> DEFINE timer == conn.timer - 1
             nrtx == conn.nrtx
  <2>1. timer \in Nat /\ nrtx \in Nat
    BY <1>4, <1>8
  <2>2. [conn EXCEPT !.timer = @ - 1] = Counted(conn, conn.len, timer, nrtx)
    BY <1>1 DEF Connection, Counted
  <2> HIDE DEF timer, nrtx
  <2> QED
    BY <1>1, <1>4, <2>1, <2>2, CountedStays
<1> QED
  BY <1>7, <1>8

\* A retransmission is quiet.
LEMMA RetransmitQuiet ==
  ASSUME NEW s \in UipState, NEW c \in Slots, Sound(s.conns[c]), s.conns[c].len = 1
  PROVE  Quiet(s, Retransmit(s, c), c)
<1> DEFINE conn == s.conns[c]
           new == BackedOff(conn)
           u == [s EXCEPT !.conns[c] = new]
<1>1. Sound(new) /\ Stays(conn, new) /\ new \in Connection
  BY TimerStays DEF Sound
<1>2. Open(conn) /\ conn.tcpstate \in {"SYN_SENT", "ESTABLISHED", "LAST_ACK"}
  BY DEF Sound, Open, Reached
<1>3. Open(new) /\ new.len = 1 /\ new.tcpstate = conn.tcpstate
  BY <1>1, <1>2 DEF Sound, Stays, Open
<1> HIDE DEF new
<1>4. /\ u \in UipState /\ u.conns = [s.conns EXCEPT ![c] = new] /\ u.conns[c] = new
      /\ SameHistory(s, u) /\ u.iss = s.iss
  BY <1>1, EntryEffect
<1>5. Retransmit(s, c) = CASE conn.tcpstate = "SYN_SENT"    -> tcp_send_syn(u, c)
                           [] conn.tcpstate = "ESTABLISHED" ->
                                apprexmit(UIP_APPCALL(u, c, {"REXMIT"}, <<>>), c)
                           [] OTHER                         -> tcp_send_finack(u, c)
  BY DEF Retransmit, new
<1> HIDE DEF u
<1>6. Quiet(u, Retransmit(s, c), c)
  <2>1. CASE conn.tcpstate = "SYN_SENT"
    BY <1>1, <1>3, <1>4, <1>5, <2>1, SendQuiet
  <2>2. CASE conn.tcpstate = "ESTABLISHED"
    <3> DEFINE called == UIP_APPCALL(u, c, {"REXMIT"}, <<>>)
    <3>1. called \in UipState /\ SameTable(u, called) /\ SameHistory(u, called)
      <4>1. {"REXMIT"} \in SUBSET UipFlags /\ "CLOSE" \notin {"REXMIT"}
        BY DEF UipFlags
      <4> QED
        BY <1>4, <4>1, PlainCallback
    <3> HIDE DEF called
    <3>2. Quiet(called, apprexmit(called, c), c)
      BY <1>1, <1>3, <1>4, <3>1, RexmitQuiet DEF SameTable
    <3>3. Quiet(u, apprexmit(called, c), c)
      BY <3>1, <3>2, QuietFrom
    <3> QED
      BY <1>5, <2>2, <3>3 DEF called
  <2>3. CASE conn.tcpstate = "LAST_ACK"
    BY <1>1, <1>3, <1>4, <1>5, <2>3, SendQuiet
  <2> QED
    BY <1>2, <2>1, <2>2, <2>3
<1> QED
  BY <1>1, <1>4, <1>6, QuietAfter

\* Giving up is quiet.
LEMMA TimeOutQuiet ==
  ASSUME NEW s \in UipState, NEW c \in Slots, Sound(s.conns[c]), Open(s.conns[c])
  PROVE  Quiet(s, TimeOut(s, c), c)
<1> DEFINE called == UIP_APPCALL(s, c, {"TIMEDOUT"}, <<>>)
           sent == tcp_send_rst(called, c)
<1>1. called \in UipState /\ SameTable(s, called) /\ SameHistory(s, called)
  <2>1. {"TIMEDOUT"} \in SUBSET UipFlags /\ "CLOSE" \notin {"TIMEDOUT"}
    BY DEF UipFlags
  <2> QED
    BY <2>1, PlainCallback
<1> HIDE DEF called
<1>2. called.conns[c] \in Connection /\ called.conns[c].lport \in Ports
  BY <1>1 DEF SameTable, Sound
<1>3. /\ sent \in UipState /\ Left(sent) /\ OnlyResets(sent.out)
      /\ SameTable(called, sent) /\ SameHistory(called, sent)
  <2> DEFINE flags == {"RST", "ACK"}
             p == Segment(called.conns[c], flags, 0)
  <2>1. flags \in SUBSET Flags /\ 0 \in Nat
    BY DEF Flags
  <2>2. ~Ordinary(p) /\ sent = tcp_send(called, c, flags, 0)
    BY DEF Ordinary, Segment, tcp_send_rst
  <2> HIDE DEF called, flags, sent
  <2>3. LET t == tcp_send(called, c, flags, 0)
        IN  /\ t \in UipState /\ Left(t) /\ t.out = {p}
            /\ SameTable(called, t) /\ SameHistory(called, t)
    BY <1>1, <1>2, <2>1, SendEffect
  <2> HIDE DEF p
  <2> QED
    BY <2>2, <2>3 DEF OnlyResets
<1> HIDE DEF sent
<1>4. sent.conns = s.conns /\ sent.iss = s.iss /\ SameHistory(s, sent)
  BY <1>1, <1>3 DEF SameTable, SameHistory
<1>5. s.conns[c] \in Connection
  BY DEF Sound
<1>6. LET t == Close(sent, c)
      IN  /\ t \in UipState /\ SameHistory(sent, t) /\ t.iss = sent.iss
          /\ t.conns = [s.conns EXCEPT ![c] = Closed(s.conns[c])]
          /\ t.uip_flags = sent.uip_flags /\ t.uip_slen = sent.uip_slen /\ t.out = sent.out
  BY <1>3, <1>4, <1>5, CloseQuiet
<1>7. Sound(Closed(s.conns[c])) /\ Closes(s.conns[c], Closed(s.conns[c]))
  BY <1>5, ClosedSound
<1>8. Quiet(s, Close(sent, c), c)
  BY <1>3, <1>4, <1>6, <1>7 DEF Quiet, Left, SameHistory
<1> QED
  BY <1>8 DEF TimeOut, sent, called

\* The periodic timer is quiet.
LEMMA PeriodicQuiet ==
  ASSUME NEW s \in UipState, NEW c \in Slots, Sound(s.conns[c])
  PROVE  Quiet(s, uip_periodic(s, c), c)
<1> DEFINE conn == s.conns[c]
           due == uip_outstanding(conn)
<1>1. conn.tcpstate \notin {"TIME_WAIT", "FIN_WAIT_2"}
  BY DEF Sound, Reached
<1>2. uip_periodic(s, c) =
        IF due THEN IF conn.timer > 0 THEN Drop([s EXCEPT !.conns[c].timer = @ - 1])
                    ELSE IF GivenUp(conn) THEN TimeOut(s, c) ELSE Retransmit(s, c)
        ELSE IF conn.tcpstate = "ESTABLISHED"
             THEN appsend(UIP_APPCALL(s, c, {"POLL"}, <<>>), c)
             ELSE Drop(s)
  BY <1>1 DEF uip_periodic
<1>3. CASE due
  <2>1. conn.len = 1 /\ Open(conn)
    BY <1>3 DEF Sound, uip_outstanding
  <2>2. CASE conn.timer > 0
    <3> DEFINE new == [conn EXCEPT !.timer = @ - 1]
               u == [s EXCEPT !.conns[c] = new]
    <3>1. Sound(new) /\ Stays(conn, new) /\ new \in Connection
      BY <2>2, TimerStays DEF Sound
    <3>2. [s EXCEPT !.conns[c].timer = @ - 1] = u
      BY DEF UipState, Connection
    <3> HIDE DEF new
    <3>3. /\ u \in UipState /\ u.conns = [s.conns EXCEPT ![c] = new] /\ u.conns[c] = new
          /\ SameHistory(s, u) /\ u.iss = s.iss
      BY <3>1, EntryEffect
    <3> HIDE DEF u
    <3>4. Quiet(u, Drop(u), c)
      BY <3>1, <3>3, DropQuiet
    <3>5. Quiet(s, Drop(u), c)
      BY <3>1, <3>3, <3>4, QuietAfter
    <3> QED
      BY <1>2, <1>3, <2>2, <3>2, <3>5
  <2>3. CASE ~(conn.timer > 0)
    BY <1>2, <1>3, <2>1, <2>3, TimeOutQuiet, RetransmitQuiet
  <2> QED
    BY <2>2, <2>3
<1>4. CASE ~due /\ conn.tcpstate = "ESTABLISHED"
  <2> DEFINE called == UIP_APPCALL(s, c, {"POLL"}, <<>>)
  <2>1. called \in UipState /\ SameTable(s, called) /\ SameHistory(s, called)
        /\ called.uip_flags = {"POLL"}
    <3>1. /\ {"POLL"} \in SUBSET UipFlags /\ "CLOSE" \notin {"POLL"}
          /\ "TIMEDOUT" \notin {"POLL"}
      BY DEF UipFlags
    <3> QED
      BY <3>1, PlainCallback
  <2> HIDE DEF called
  <2>2. called.uip_flags \cap {"ABORT", "CLOSE"} = {}
    BY <2>1
  <2>3. Quiet(called, appsend(called, c), c)
    BY <1>4, <2>1, <2>2, AppsendQuiet DEF SameTable
  <2>4. Quiet(s, appsend(called, c), c)
    BY <2>1, <2>3, QuietFrom
  <2> QED
    BY <1>2, <1>4, <2>4 DEF called
<1>5. CASE ~due /\ conn.tcpstate # "ESTABLISHED"
  BY <1>2, <1>5, DropQuiet
<1> QED
  BY <1>3, <1>4, <1>5

----------------------------------------------------------------------------
(* Input *)

\* u has conn in slot c, and the rest of the table and the attempts of s
Entered(s, u, c, conn) ==
  /\ u \in UipState /\ u.iss = s.iss
  /\ u.conns = [s.conns EXCEPT ![c] = conn]

\* conn2 is conn when p, if it does, has acknowledged what is outstanding
Acked(conn, conn2, p) ==
  /\ conn2 \in Connection
  /\ conn2.tcpstate = conn.tcpstate /\ conn2.lport = conn.lport /\ conn2.rcv_nxt = conn.rcv_nxt
  /\ \/ ~Acknowledges(conn, p) /\ conn2.snd_nxt = conn.snd_nxt /\ conn2.len = conn.len
     \/ Acknowledges(conn, p) /\ conn2.snd_nxt = p.ack /\ conn2.len = 0

\* The label found, after the acknowledgement
Considered(s, t, c, p, conn) ==
  /\ Entered(s, t, c, conn) /\ Acked(s.conns[c], conn, p) /\ SameHistory(s, t)
  /\ t.uip_slen = 0
  /\ t.uip_flags = IF Acknowledges(s.conns[c], p) THEN {"ACKDATA"} ELSE {}

\* An acknowledgement of what is outstanding moves snd_nxt.
LEMMA AcknowledgedEffect ==
  ASSUME NEW s \in UipState, Left(s), NEW c \in Slots, NEW p \in Segments, NEW rtt \in Nat
  PROVE  \E conn : Considered(s, acknowledged(s, c, p, rtt), c, p, conn)
<1> DEFINE conn == s.conns[c]
           t == acknowledged(s, c, p, rtt)
<1>1. conn \in Connection /\ s.conns = [s.conns EXCEPT ![c] = conn]
  BY DEF UipState
<1>2. CASE ~Acknowledges(conn, p)
  <2>1. t = s
    BY <1>2 DEF acknowledged
  <2> HIDE DEF t
  <2>2. Acked(conn, conn, p)
    BY <1>1, <1>2 DEF Acked
  <2>3. Considered(s, t, c, p, conn)
    BY <1>1, <1>2, <2>1, <2>2 DEF Considered, Entered, SameHistory, Left
  <2> QED
    BY <2>3 DEF t
<1>3. CASE Acknowledges(conn, p)
  <2> DEFINE rto == IF conn.nrtx = 0 THEN rtt ELSE conn.rto
  <2>1. rto \in Nat /\ p.ack \in Seqs
    BY <1>1 DEF Connection, Segments
  <2> HIDE DEF rto
  <2> DEFINE new == [conn EXCEPT !.snd_nxt = p.ack, !.rto = rto, !.timer = rto, !.len = 0]
             called == [s EXCEPT !.uip_flags = {"ACKDATA"}]
  <2>2. /\ new \in Connection /\ new.tcpstate = conn.tcpstate /\ new.lport = conn.lport
        /\ new.rcv_nxt = conn.rcv_nxt /\ new.snd_nxt = p.ack /\ new.len = 0
    BY <1>1, <2>1 DEF Connection
  <2>3. t = [called EXCEPT !.conns[c] = new]
    BY <1>3 DEF acknowledged, rto
  <2>4. /\ called \in UipState /\ SameTable(s, called) /\ SameHistory(s, called)
        /\ called.uip_slen = s.uip_slen /\ called.uip_flags = {"ACKDATA"}
    BY DEF UipState, UipFlags, SameTable, SameHistory
  <2> HIDE DEF new, called
  <2>5. Acked(conn, new, p)
    BY <1>3, <2>2 DEF Acked
  <2>6. /\ t \in UipState /\ t.iss = s.iss /\ t.conns = [s.conns EXCEPT ![c] = new]
        /\ SameHistory(s, t) /\ t.uip_slen = s.uip_slen /\ t.uip_flags = {"ACKDATA"}
    BY <2>2, <2>3, <2>4, EntryEffect DEF SameTable, SameHistory
  <2> HIDE DEF t
  <2>7. Considered(s, t, c, p, new)
    BY <1>3, <2>5, <2>6 DEF Considered, Entered, Left
  <2> QED
    BY <2>7 DEF t
<1> QED
  BY <1>2, <1>3

\* The steps that change more than what is outstanding: a connection is established,
Joins(s, u, c, p) ==
  LET conn == s.conns[c]
  IN  /\ conn.tcpstate = "SYN_SENT" /\ p.flags = {"SYN", "ACK"} /\ Acknowledges(conn, p)
      /\ SameHistory(s, u)
      /\ \E conn2 : /\ Sound(conn2) /\ Entered(s, u, c, conn2)
                    /\ conn2.tcpstate = "ESTABLISHED" /\ conn2.snd_nxt = p.ack
                    /\ conn2.len = 0 /\ conn2.rcv_nxt = uip_add32(p.seq, 1)

\* it receives something, or is acknowledged,
Moves(s, u, c, p) ==
  LET conn == s.conns[c]
      k == conn.rcv_nxt[1]
  IN  /\ conn.tcpstate = "ESTABLISHED" /\ ~OutOfOrder(conn, p) /\ u.ended = s.ended
      /\ \E conn2 :
           /\ Sound(conn2) /\ Entered(s, u, c, conn2)
           /\ conn2.tcpstate = "ESTABLISHED"
           /\ \/ conn2.snd_nxt = conn.snd_nxt /\ conn2.len = conn.len
              \/ Acknowledges(conn, p) /\ conn2.snd_nxt = p.ack /\ conn2.len = 0
           /\ \/ conn2.rcv_nxt = conn.rcv_nxt /\ u.received = s.received
              \/ /\ p.seq = conn.rcv_nxt
                 /\ conn2.rcv_nxt = uip_add32(conn.rcv_nxt, Len(AppData(p)))
                 /\ u.received = Appended(s, k, AppData(p))

\* the server closes it,
Ends(s, u, c, p) ==
  LET conn == s.conns[c]
      k == conn.rcv_nxt[1]
  IN  /\ conn.tcpstate = "ESTABLISHED" /\ "FIN" \in p.flags /\ ~OutOfOrder(conn, p)
      /\ p.seq = conn.rcv_nxt
      /\ u.ended = s.ended \cup {k}
      /\ u.received = Appended(s, k, DataOf(p))
      /\ \E conn2 :
           /\ Sound(conn2) /\ Entered(s, u, c, conn2)
           /\ conn2.tcpstate = "LAST_ACK" /\ conn2.len = 1
           /\ \/ conn.len = 0 /\ conn2.snd_nxt = conn.snd_nxt
              \/ Acknowledges(conn, p) /\ conn2.snd_nxt = p.ack
           /\ conn2.rcv_nxt = uip_add32(conn.rcv_nxt, p.len + 1)

\* or our end of it is acknowledged
Reports(s, t, c) ==
  LET conn == s.conns[c]
  IN  /\ conn.tcpstate = "LAST_ACK"
      /\ Left(t) /\ t.out = {}
      /\ t.received = s.received /\ t.ended = s.ended \cup {conn.rcv_nxt[1]}
      /\ \E conn2 : Sound(conn2) /\ Closes(conn, conn2) /\ Entered(s, t, c, conn2)

\* The handler of a segment
Handles(s, t, c, p) ==
  \/ Quiet(s, t, c)
  \/ Reports(s, t, c)
  \/ \E u : (Joins(s, u, c, p) \/ Moves(s, u, c, p) \/ Ends(s, u, c, p)) /\ Quiet(u, t, c)

\* What follows quietly on a step of those is handled.
LEMMA HandledBy ==
  ASSUME NEW s, NEW u, NEW t, NEW c, NEW p, Quiet(u, t, c),
         Joins(s, u, c, p) \/ Moves(s, u, c, p) \/ Ends(s, u, c, p)
  PROVE  Handles(s, t, c, p)
BY DEF Handles

\* A connection that ends without the callback being told of an end is handled quietly.
LEMMA ClosedQuiet ==
  ASSUME NEW s \in UipState, NEW c \in Slots, NEW v \in UipState, NEW conn \in Connection,
         Entered(s, v, c, conn), conn.rcv_nxt = s.conns[c].rcv_nxt, SameHistory(s, v),
         NEW t, t \in UipState, Left(t), OnlyResets(t.out), SameHistory(v, t), t.iss = v.iss,
         t.conns = [v.conns EXCEPT ![c] = Closed(conn)]
  PROVE  Quiet(s, t, c)
<1>1. Sound(Closed(conn)) /\ Closes(s.conns[c], Closed(conn))
  BY ClosedSound DEF Closes
<1>2. t.conns = [s.conns EXCEPT ![c] = Closed(conn)]
  BY DEF Entered, UipState
<1>3. SameHistory(s, t) /\ t.iss = s.iss
  BY DEF SameHistory, Entered
<1> QED
  BY <1>1, <1>2, <1>3 DEF Quiet

\* The label TCP SYN_SENT: the connection is established, or closed.
LEMMA SYN_SENTHandles ==
  ASSUME NEW s \in UipState, NEW c \in Slots, Sound(s.conns[c]),
         s.conns[c].tcpstate = "SYN_SENT", NEW p \in Segments, p.seq[1] \in 1..MaxAccepts,
         NEW v, NEW conn, Considered(s, v, c, p, conn)
  PROVE  Handles(s, SYN_SENT(v, c, p), c, p)
<1>1. /\ v \in UipState /\ conn \in Connection /\ v.conns[c] = conn
      /\ conn.lport = s.conns[c].lport /\ conn.rcv_nxt = s.conns[c].rcv_nxt
  BY DEF Considered, Entered, Acked, UipState
<1>2. CASE "ACKDATA" \in v.uip_flags /\ p.flags = {"SYN", "ACK"}
  <2> DEFINE seq == uip_add32(p.seq, 1)
             new == [conn EXCEPT !.tcpstate = "ESTABLISHED", !.rcv_nxt = seq]
             u == [v EXCEPT !.conns[c] = new]
             called == UIP_APPCALL(u, c, {"CONNECTED", "NEWDATA"}, <<>>)
  <2>1. Acknowledges(s.conns[c], p)
    BY <1>2 DEF Considered
  <2>2. /\ conn.snd_nxt = p.ack /\ conn.len = 0 /\ p.ack[2] >= 1
        /\ s.conns[c].lport \in Ports
    <3>1. s.conns[c].snd_nxt[2] = 0 /\ s.conns[c].len = 1 /\ s.conns[c].lport \in Ports
      BY DEF Sound, Open
    <3> QED
      BY <2>1, <3>1 DEF Considered, Acked, Acknowledges, uip_add32
  <2>3. seq \in Seqs /\ seq[1] \in 1..MaxAccepts
    BY DEF Segments, Seqs, uip_add32
  <2> HIDE DEF seq
  <2>4. /\ new \in Connection /\ new.tcpstate = "ESTABLISHED" /\ new.rcv_nxt = seq
        /\ new.snd_nxt = conn.snd_nxt /\ new.len = conn.len /\ new.lport = conn.lport
    BY <1>1, <2>3 DEF Connection, TcpStates
  <2> HIDE DEF new
  <2>5. Sound(new)
    BY <1>1, <2>2, <2>3, <2>4 DEF Sound, Reached, Open, Joined
  <2>6. /\ u \in UipState /\ u.conns = [v.conns EXCEPT ![c] = new] /\ u.conns[c] = new
        /\ SameHistory(v, u) /\ u.iss = v.iss
    BY <1>1, <2>4, EntryEffect
  <2>7. SYN_SENT(v, c, p) = appsend(called, c)
    <3>1. u = [v EXCEPT !.conns[c].tcpstate = "ESTABLISHED", !.conns[c].rcv_nxt = seq]
      BY <1>1 DEF UipState, Connection, new
    <3> HIDE DEF u
    <3> QED
      BY <1>2, <3>1 DEF SYN_SENT, seq
  <2> HIDE DEF u
  <2>8. /\ called \in UipState /\ SameTable(u, called) /\ SameHistory(u, called)
        /\ called.uip_flags = {"CONNECTED", "NEWDATA"}
    <3> DEFINE flags == {"CONNECTED", "NEWDATA"}
    <3>1. flags \in SUBSET UipFlags /\ "CLOSE" \notin flags /\ "TIMEDOUT" \notin flags
      BY DEF UipFlags
    <3> HIDE DEF flags
    <3>2. LET t == UIP_APPCALL(u, c, flags, <<>>)
          IN  /\ t \in UipState /\ SameTable(u, t) /\ SameHistory(u, t) /\ t.out = u.out
              /\ t.uip_flags = flags
      BY <2>6, <3>1, PlainCallback
    <3> QED
      BY <3>2 DEF flags
  <2> HIDE DEF called
  <2>9. Quiet(called, appsend(called, c), c)
    <3>1. called.uip_flags \cap {"ABORT", "CLOSE"} = {}
      BY <2>8
    <3>2. Sound(called.conns[c]) /\ called.conns[c].tcpstate = "ESTABLISHED"
      BY <2>4, <2>5, <2>6, <2>8 DEF SameTable
    <3> QED
      BY <2>8, <3>1, <3>2, AppsendQuiet
  <2>10. Quiet(u, appsend(called, c), c)
    BY <2>8, <2>9, QuietFrom
  <2>11. Entered(s, u, c, new) /\ SameHistory(s, u)
    BY <1>1, <2>6 DEF Entered, Considered, SameHistory, UipState
  <2>12. Joins(s, u, c, p)
    BY <1>2, <2>1, <2>2, <2>4, <2>5, <2>11 DEF Joins, seq
  <2> QED
    BY <2>7, <2>10, <2>12, HandledBy
<1>3. CASE ~("ACKDATA" \in v.uip_flags /\ p.flags = {"SYN", "ACK"})
  <2> DEFINE called == UIP_APPCALL(v, c, {"ABORT"}, <<>>)
             closed == Close(called, c)
             t == reset(closed, p)
  <2>1. called \in UipState /\ SameTable(v, called) /\ SameHistory(v, called)
    <3> DEFINE flags == {"ABORT"}
    <3>1. flags \in SUBSET UipFlags /\ "CLOSE" \notin flags
      BY DEF UipFlags
    <3> HIDE DEF flags
    <3>2. LET r == UIP_APPCALL(v, c, flags, <<>>)
          IN  r \in UipState /\ SameTable(v, r) /\ SameHistory(v, r)
      BY <1>1, <3>1, PlainCallback
    <3> QED
      BY <3>2 DEF flags
  <2> HIDE DEF called
  <2>2. called.conns = v.conns /\ called.conns[c] = conn
    BY <1>1, <2>1 DEF SameTable
  <2>3. /\ closed \in UipState /\ SameHistory(called, closed) /\ closed.iss = called.iss
        /\ closed.conns = [called.conns EXCEPT ![c] = Closed(called.conns[c])]
    BY <1>1, <2>1, <2>2, CloseQuiet
  <2> HIDE DEF closed
  <2>4. /\ t \in UipState /\ Left(t) /\ OnlyResets(t.out)
        /\ SameTable(closed, t) /\ SameHistory(closed, t)
    BY <2>3, ResetEffect
  <2> HIDE DEF t
  <2>5. /\ SameHistory(v, t) /\ t.iss = v.iss
        /\ t.conns = [v.conns EXCEPT ![c] = Closed(conn)]
    BY <2>1, <2>2, <2>3, <2>4 DEF SameHistory, SameTable
  <2>6. Entered(s, v, c, conn) /\ SameHistory(s, v)
    BY DEF Considered
  <2>7. Quiet(s, t, c)
    BY <1>1, <2>4, <2>5, <2>6, ClosedQuiet
  <2>8. SYN_SENT(v, c, p) = t
    BY <1>3 DEF SYN_SENT, t, closed, called
  <2> QED
    BY <2>7, <2>8 DEF Handles
<1> QED
  BY <1>2, <1>3

\* The label TCP LAST_ACK: the connection is closed once our FIN is acknowledged.
LEMMA LAST_ACKHandles ==
  ASSUME NEW s \in UipState, NEW c \in Slots, Sound(s.conns[c]),
         s.conns[c].tcpstate = "LAST_ACK", NEW p \in Segments,
         NEW v, NEW conn, Considered(s, v, c, p, conn)
  PROVE  Handles(s, LAST_ACK(v, c), c, p)
<1>1. /\ v \in UipState /\ conn \in Connection /\ v.conns[c] = conn
      /\ conn.rcv_nxt = s.conns[c].rcv_nxt
  BY DEF Considered, Entered, Acked, UipState
<1>2. CASE "ACKDATA" \notin v.uip_flags
  <2>1. Quiet(s, Drop(v), c)
    <3>1. ~Acknowledges(s.conns[c], p)
      BY <1>2 DEF Considered
    <3>2. Sound(conn) /\ Stays(s.conns[c], conn)
      BY <1>1, <3>1 DEF Considered, Acked, Sound, Stays, Open, Joined
    <3>3. Quiet(v, Drop(v), c)
      BY <1>1, <3>2, DropQuiet
    <3> QED
      BY <1>1, <3>2, <3>3, QuietAfter DEF Considered, Entered
  <2> QED
    BY <1>2, <2>1 DEF LAST_ACK, Handles
<1>3. CASE "ACKDATA" \in v.uip_flags
  <2> DEFINE called == UIP_APPCALL(v, c, {"CLOSE"}, <<>>)
             closed == Close(called, c)
             t == Drop(closed)
             k == s.conns[c].rcv_nxt[1]
  <2>1. called \in UipState /\ SameTable(v, called)
        /\ called.received = v.received /\ called.ended = v.ended \cup {k}
    <3>1. v.conns[c].rcv_nxt \in Nat \X Nat /\ v.conns[c].rcv_nxt[1] = k /\ k \in 1..MaxAccepts
      BY <1>1 DEF Connection, Seqs, Sound, Joined
    <3>2. ASSUME NEW flags \in SUBSET UipFlags, flags = {"CLOSE"},
                 NEW nothing \in Seq(Nat \X Nat), nothing = <<>>
          PROVE  Told(v, c, flags, nothing, UIP_APPCALL(v, c, flags, nothing))
      BY <1>1, <3>1, <3>2, CallbackEffect
    <3>3. {"CLOSE"} \in SUBSET UipFlags /\ <<>> \in Seq(Nat \X Nat)
      BY DEF UipFlags
    <3>4. Told(v, c, {"CLOSE"}, <<>>, called)
      BY <3>2, <3>3
    <3> HIDE DEF called
    <3> QED
      BY <3>1, <3>4 DEF Told, Within, HandedOver
  <2> HIDE DEF called
  <2>2. called.conns = v.conns /\ called.conns[c] = conn /\ called.iss = v.iss
    BY <1>1, <2>1 DEF SameTable
  <2>3. /\ closed \in UipState /\ SameHistory(called, closed) /\ closed.iss = called.iss
        /\ closed.conns = [called.conns EXCEPT ![c] = Closed(called.conns[c])]
    BY SMTT(30), <1>1, <2>1, <2>2, CloseQuiet
  <2> HIDE DEF closed
  <2>4. /\ t \in UipState /\ Left(t) /\ t.out = {}
        /\ SameTable(closed, t) /\ SameHistory(closed, t)
    BY <2>3, DropEffect
  <2> HIDE DEF t
  <2>5. Sound(Closed(conn)) /\ Closes(s.conns[c], Closed(conn))
    BY <1>1, ClosedSound DEF Closes
  <2>6. Entered(s, t, c, Closed(conn))
    <3>1. t.conns = [v.conns EXCEPT ![c] = Closed(conn)] /\ t.iss = v.iss
      BY <2>2, <2>3, <2>4 DEF SameTable
    <3>2. v.conns = [s.conns EXCEPT ![c] = conn] /\ v.iss = s.iss
      BY DEF Considered, Entered
    <3>3. t.conns = [s.conns EXCEPT ![c] = Closed(conn)]
      BY <3>1, <3>2 DEF UipState
    <3> QED
      BY <2>4, <3>1, <3>2, <3>3 DEF Entered
  <2>7. t.received = s.received /\ t.ended = s.ended \cup {k}
    BY <2>1, <2>3, <2>4 DEF SameHistory, Considered
  <2>8. Reports(s, t, c)
    BY <2>4, <2>5, <2>6, <2>7 DEF Reports
  <2>9. LAST_ACK(v, c) = t
    BY <1>3 DEF LAST_ACK, t, closed, called
  <2> QED
    BY <2>8, <2>9 DEF Handles
<1> QED
  BY <1>2, <1>3

\* The second of two changes to an entry is what stays.
LEMMA EnteredTwice ==
  ASSUME NEW s \in UipState, NEW c \in Slots, NEW v, NEW conn, Entered(s, v, c, conn),
         NEW w, NEW conn2, Entered(v, w, c, conn2)
  PROVE  Entered(s, w, c, conn2)
<1>1. [[s.conns EXCEPT ![c] = conn] EXCEPT ![c] = conn2] = [s.conns EXCEPT ![c] = conn2]
  BY DEF UipState
<1> QED
  BY <1>1 DEF Entered

\* Handing over the units of a segment, whether it has any or not.
LEMMA HandedOverData ==
  ASSUME NEW s \in UipState, NEW k \in 1..MaxAccepts, NEW flags,
         NEW data \in Seq(Nat \X Nat), data # <<>> => "NEWDATA" \in flags
  PROVE  HandedOver(s, k, flags, data) = Appended(s, k, data)
<1>1. s.received \in [1..MaxAccepts -> Seq(Nat \X Nat)]
  BY DEF UipState
<1>2. CASE data # <<>>
  BY <1>2 DEF HandedOver
<1>3. CASE data = <<>>
  <2>1. s.received[k] \o data = s.received[k]
    BY <1>1, <1>3, ConcatEmptySeq
  <2>2. Appended(s, k, data) = s.received
    BY <1>1, <2>1 DEF Appended
  <2> QED
    BY <1>3, <2>2 DEF HandedOver
<1> QED
  BY <1>2, <1>3

\* rcv_nxt of one entry advances.
LEMMA AddRcvNxtEffect ==
  ASSUME NEW v \in UipState, NEW c \in Slots, Sound(v.conns[c]), Joined(v.conns[c]), NEW n \in Nat
  PROVE  LET w == uip_add_rcv_nxt(v, c, n)
         IN  \E conn : /\ Sound(conn) /\ Entered(v, w, c, conn) /\ SameHistory(v, w)
                       /\ w.uip_flags = v.uip_flags /\ w.uip_slen = v.uip_slen
                       /\ conn.tcpstate = v.conns[c].tcpstate /\ conn.lport = v.conns[c].lport
                       /\ conn.snd_nxt = v.conns[c].snd_nxt /\ conn.len = v.conns[c].len
                       /\ conn.rcv_nxt = uip_add32(v.conns[c].rcv_nxt, n)
<1> DEFINE conn == v.conns[c]
           seq == uip_add32(conn.rcv_nxt, n)
           new == [conn EXCEPT !.rcv_nxt = seq]
           w == [v EXCEPT !.conns[c] = new]
<1>1. conn \in Connection /\ conn.rcv_nxt \in Seqs /\ conn.rcv_nxt[1] \in 1..MaxAccepts
  BY DEF Sound, Connection, Joined
<1>2. seq \in Seqs /\ seq[1] = conn.rcv_nxt[1]
  BY <1>1 DEF Seqs, uip_add32
<1>3. uip_add_rcv_nxt(v, c, n) = w
  BY <1>1 DEF uip_add_rcv_nxt, UipState, Connection
<1> HIDE DEF seq
<1>4. /\ new \in Connection /\ new.tcpstate = conn.tcpstate /\ new.rcv_nxt = seq
      /\ new.snd_nxt = conn.snd_nxt /\ new.len = conn.len /\ new.lport = conn.lport
  BY <1>1, <1>2 DEF Connection
<1> HIDE DEF new
<1>5. Sound(new)
  BY <1>1, <1>2, <1>4 DEF Sound, Open, Joined
<1>6. /\ w \in UipState /\ w.conns = [v.conns EXCEPT ![c] = new] /\ w.conns[c] = new
      /\ SameHistory(v, w) /\ w.iss = v.iss
      /\ w.uip_flags = v.uip_flags /\ w.uip_slen = v.uip_slen
  BY <1>4, EntryEffect
<1> HIDE DEF w
<1>7. Entered(v, w, c, new)
  BY <1>6 DEF Entered
<1> QED
  BY <1>3, <1>4, <1>5, <1>6, <1>7 DEF seq

\* In the state ESTABLISHED the entry after an acknowledgement is sound.
LEMMA ConsideredSound ==
  ASSUME NEW s \in UipState, NEW c \in Slots, Sound(s.conns[c]),
         s.conns[c].tcpstate = "ESTABLISHED", NEW p, NEW v, NEW conn,
         Considered(s, v, c, p, conn)
  PROVE  /\ v \in UipState /\ v.conns[c] = conn /\ Sound(conn)
         /\ conn.tcpstate = "ESTABLISHED" /\ conn.rcv_nxt = s.conns[c].rcv_nxt
         /\ conn.rcv_nxt[1] \in 1..MaxAccepts /\ conn.rcv_nxt \in Seqs
         /\ \/ conn.snd_nxt = s.conns[c].snd_nxt /\ conn.len = s.conns[c].len
            \/ Acknowledges(s.conns[c], p) /\ conn.snd_nxt = p.ack /\ conn.len = 0
<1>1. /\ v \in UipState /\ v.conns[c] = conn /\ conn \in Connection
      /\ conn.tcpstate = "ESTABLISHED" /\ conn.rcv_nxt = s.conns[c].rcv_nxt
      /\ conn.lport = s.conns[c].lport
  BY DEF Considered, Entered, Acked, UipState
<1>2. /\ s.conns[c] \in Connection /\ s.conns[c].len \in {0, 1}
      /\ s.conns[c].snd_nxt[2] >= 1 /\ s.conns[c].rcv_nxt[1] \in 1..MaxAccepts
      /\ s.conns[c].lport \in Ports /\ s.conns[c].rcv_nxt \in Seqs
      /\ s.conns[c].snd_nxt[2] \in Nat
  BY DEF Sound, Joined, Open, Connection, Seqs
<1>3. CASE conn.snd_nxt = s.conns[c].snd_nxt /\ conn.len = s.conns[c].len
  BY <1>1, <1>2, <1>3 DEF Sound, Joined, Open, Reached
<1>4. CASE Acknowledges(s.conns[c], p) /\ conn.snd_nxt = p.ack /\ conn.len = 0
  <2>1. conn.snd_nxt[2] >= 1
    BY <1>2, <1>4 DEF Acknowledges, uip_add32
  <2> QED
    BY <1>1, <1>2, <1>4, <2>1 DEF Sound, Joined, Open, Reached
<1> QED
  BY <1>3, <1>4 DEF Considered, Acked

\* The peer's FIN: what comes with it is handed over, the end is reported, ours is sent.
LEMMA PeerClosesHandles ==
  ASSUME NEW s \in UipState, NEW c \in Slots, Sound(s.conns[c]),
         s.conns[c].tcpstate = "ESTABLISHED", NEW p \in Segments, "FIN" \in p.flags,
         ~OutOfOrder(s.conns[c], p), NEW v, NEW conn, Considered(s, v, c, p, conn),
         conn.len = 0
  PROVE  Handles(s, PeerCloses(v, c, p), c, p)
<1> DEFINE k == s.conns[c].rcv_nxt[1]
           n == p.len + 1
           w == uip_add_rcv_nxt(v, c, n)
           flags == v.uip_flags \cup {"CLOSE"} \cup (IF p.len > 0 THEN {"NEWDATA"} ELSE {})
           called == UIP_APPCALL(w, c, flags, DataOf(p))
           x == [called EXCEPT !.conns[c].len = 1, !.conns[c].tcpstate = "LAST_ACK",
                               !.conns[c].nrtx = 0]
<1>1. /\ v \in UipState /\ v.conns[c] = conn /\ Sound(conn)
      /\ conn.tcpstate = "ESTABLISHED" /\ conn.rcv_nxt = s.conns[c].rcv_nxt
      /\ k \in 1..MaxAccepts /\ conn.rcv_nxt \in Seqs
      /\ \/ conn.snd_nxt = s.conns[c].snd_nxt /\ conn.len = s.conns[c].len
         \/ Acknowledges(s.conns[c], p) /\ conn.snd_nxt = p.ack /\ conn.len = 0
  BY ConsideredSound
<1>2. p.len \in Nat /\ p.seq = s.conns[c].rcv_nxt
  BY DEF OutOfOrder, Segments
<1>3. n \in Nat
  BY <1>2
<1> HIDE DEF n
<1>4. PICK wconn : /\ Sound(wconn) /\ Entered(v, w, c, wconn) /\ SameHistory(v, w)
                   /\ wconn.tcpstate = conn.tcpstate /\ wconn.lport = conn.lport
                   /\ wconn.snd_nxt = conn.snd_nxt /\ wconn.len = conn.len
                   /\ wconn.rcv_nxt = uip_add32(conn.rcv_nxt, n)
  BY <1>1, <1>3, AddRcvNxtEffect DEF Joined
<1> HIDE DEF w
<1>5. w \in UipState /\ w.conns[c] = wconn
  BY <1>1, <1>4 DEF Entered, UipState
<1>6. wconn \in Connection /\ wconn.rcv_nxt \in Nat \X Nat /\ wconn.rcv_nxt[1] = k
  BY <1>1, <1>4 DEF Sound, Connection, Seqs, uip_add32
<1>7. flags \in SUBSET UipFlags /\ "CLOSE" \in flags /\ "TIMEDOUT" \notin flags
      /\ (p.len > 0 => "NEWDATA" \in flags)
  BY DEF Considered, UipFlags
<1> HIDE DEF flags
<1>8. DataOf(p) \in Seq(Nat \X Nat) /\ Len(DataOf(p)) = p.len
  BY DataType
<1>9. Told(w, c, flags, DataOf(p), called)
  BY <1>1, <1>5, <1>6, <1>7, <1>8, CallbackEffect
<1> HIDE DEF called
<1>10. /\ called \in UipState /\ called.conns = w.conns /\ called.conns[c] = wconn
       /\ called.iss = w.iss /\ called.ended = s.ended \cup {k}
  BY <1>4, <1>5, <1>6, <1>7, <1>9 DEF Told, Within, SameTable, SameHistory, Considered
<1>11. called.received = Appended(s, k, DataOf(p))
  <2>1. DataOf(p) # <<>> => "NEWDATA" \in flags
    BY <1>2, <1>7, <1>8, EmptySeq
  <2>2. called.received = Appended(w, k, DataOf(p))
    BY <1>1, <1>5, <1>6, <1>8, <1>9, <2>1, HandedOverData DEF Told
  <2> QED
    BY <1>4, <2>2 DEF SameHistory, Considered, Appended
<1> DEFINE new == [wconn EXCEPT !.len = 1, !.tcpstate = "LAST_ACK", !.nrtx = 0]
<1>12. /\ new \in Connection /\ new.tcpstate = "LAST_ACK" /\ new.rcv_nxt = wconn.rcv_nxt
       /\ new.snd_nxt = wconn.snd_nxt /\ new.len = 1 /\ new.lport = wconn.lport
  BY <1>6 DEF Connection, TcpStates
<1>13. x = [called EXCEPT !.conns[c] = new]
  BY ZenonT(30), <1>10 DEF UipState, Connection
<1> HIDE DEF new, x
<1>14. Sound(new)
  BY <1>1, <1>4, <1>6, <1>12 DEF Sound, Reached, Open, Joined
<1>15. /\ x \in UipState /\ x.conns = [called.conns EXCEPT ![c] = new] /\ x.conns[c] = new
       /\ SameHistory(called, x) /\ x.iss = called.iss
  BY <1>10, <1>12, <1>13, EntryEffect
<1>16. Quiet(x, tcp_send_finack(x, c), c)
  <2>1. Sound(x.conns[c]) /\ Open(x.conns[c]) /\ x.conns[c].len = 1
    BY <1>12, <1>14, <1>15 DEF Open
  <2> QED
    BY <1>15, <2>1, SendQuiet
<1>17. Entered(s, x, c, new)
  <2>1. Entered(w, x, c, new) /\ Entered(s, v, c, conn)
    BY <1>10, <1>15 DEF Entered, Considered
  <2> QED
    BY <1>1, <1>4, <2>1, EnteredTwice
<1>18. Ends(s, x, c, p)
  <2>1. x.ended = s.ended \cup {k} /\ x.received = Appended(s, k, DataOf(p))
    BY <1>10, <1>11, <1>15 DEF SameHistory
  <2>2. \/ s.conns[c].len = 0 /\ new.snd_nxt = s.conns[c].snd_nxt
        \/ Acknowledges(s.conns[c], p) /\ new.snd_nxt = p.ack
    BY <1>1, <1>4, <1>12
  <2>3. new.rcv_nxt = uip_add32(s.conns[c].rcv_nxt, p.len + 1)
    BY <1>1, <1>4, <1>12 DEF n
  <2> QED
    BY <1>2, <1>12, <1>14, <1>17, <2>1, <2>2, <2>3 DEF Ends
<1>19. PeerCloses(v, c, p) = tcp_send_finack(x, c)
  BY DEF PeerCloses, x, called, flags, w, n
<1> QED
  BY <1>16, <1>18, <1>19, HandledBy

\* The label TCP ESTABLISHED: what is in order is handed over, up to the FIN.
LEMMA ESTABLISHEDHandles ==
  ASSUME NEW s \in UipState, NEW c \in Slots, Sound(s.conns[c]),
         s.conns[c].tcpstate = "ESTABLISHED", NEW p \in Segments,
         ~OutOfOrder(s.conns[c], p), NEW v, NEW conn, Considered(s, v, c, p, conn)
  PROVE  Handles(s, ESTABLISHED(v, c, p), c, p)
<1> DEFINE k == s.conns[c].rcv_nxt[1]
           n == p.len - UrgentLength(p)
           flagged == [v EXCEPT !.uip_flags = @ \cup {"NEWDATA"}]
           w == IF n > 0 THEN uip_add_rcv_nxt(flagged, c, n) ELSE v
           called == UIP_APPCALL(w, c, w.uip_flags, AppData(p))
<1>1. /\ v \in UipState /\ v.conns[c] = conn /\ Sound(conn)
      /\ conn.tcpstate = "ESTABLISHED" /\ conn.rcv_nxt = s.conns[c].rcv_nxt
      /\ k \in 1..MaxAccepts /\ conn.rcv_nxt \in Seqs
      /\ \/ conn.snd_nxt = s.conns[c].snd_nxt /\ conn.len = s.conns[c].len
         \/ Acknowledges(s.conns[c], p) /\ conn.snd_nxt = p.ack /\ conn.len = 0
  BY ConsideredSound
<1>2. Entered(s, v, c, conn) /\ SameHistory(s, v) /\ v.uip_slen = 0
      /\ v.uip_flags \in SUBSET {"ACKDATA"}
  BY DEF Considered
<1>3. Moves(s, v, c, p)
  BY <1>1, <1>2 DEF Moves, SameHistory
<1>4. AppData(p) \in Seq(Nat \X Nat) /\ Len(AppData(p)) = n /\ n \in 0..p.len /\ p.len \in Nat
  BY DataType DEF Segments
<1>5. ESTABLISHED(v, c, p) = IF "FIN" \in p.flags
                             THEN IF uip_outstanding(conn) THEN Drop(v) ELSE PeerCloses(v, c, p)
                             ELSE IF w.uip_flags # {} THEN appsend(called, c) ELSE Drop(w)
  BY <1>1 DEF ESTABLISHED
<1>6. Quiet(v, Drop(v), c)
  BY <1>1, DropQuiet
<1>7. CASE "FIN" \in p.flags /\ uip_outstanding(conn)
  BY <1>3, <1>5, <1>6, <1>7, HandledBy
<1>8. CASE "FIN" \in p.flags /\ ~uip_outstanding(conn)
  <2>1. conn.len = 0
    BY <1>1, <1>8 DEF uip_outstanding, Sound
  <2> QED
    BY <1>5, <1>8, <2>1, PeerClosesHandles
<1>9. CASE "FIN" \notin p.flags /\ n = 0 /\ v.uip_flags = {}
  <2>1. w = v
    BY <1>9
  <2> QED
    BY <1>3, <1>5, <1>6, <1>9, <2>1, HandledBy
<1>10. CASE "FIN" \notin p.flags /\ ~(n = 0 /\ v.uip_flags = {})
  <2> DEFINE Advanced(wconn) ==
               /\ Sound(wconn) /\ Entered(v, w, c, wconn) /\ SameHistory(v, w)
               /\ w.uip_flags = IF n > 0 THEN v.uip_flags \cup {"NEWDATA"} ELSE v.uip_flags
               /\ wconn.tcpstate = "ESTABLISHED"
               /\ wconn.snd_nxt = conn.snd_nxt /\ wconn.len = conn.len
               /\ wconn.rcv_nxt = uip_add32(conn.rcv_nxt, n)
  <2>1. PICK wconn : Advanced(wconn)
    <3>1. CASE n > 0
      <4>1. /\ flagged \in UipState /\ SameTable(v, flagged) /\ SameHistory(v, flagged)
            /\ flagged.uip_flags = v.uip_flags \cup {"NEWDATA"}
        BY <1>1 DEF UipState, UipFlags, SameTable, SameHistory
      <4> HIDE DEF flagged
      <4>2. n \in Nat /\ w = uip_add_rcv_nxt(flagged, c, n)
        BY <1>4, <3>1
      <4> HIDE DEF n, w
      <4>3. flagged.conns[c] = conn /\ Joined(conn)
        BY <1>1, <4>1 DEF SameTable, Joined
      <4>4. PICK wconn : /\ Sound(wconn) /\ Entered(flagged, w, c, wconn)
                         /\ SameHistory(flagged, w)
                         /\ w.uip_flags = flagged.uip_flags
                         /\ wconn.tcpstate = conn.tcpstate
                         /\ wconn.snd_nxt = conn.snd_nxt /\ wconn.len = conn.len
                         /\ wconn.rcv_nxt = uip_add32(conn.rcv_nxt, n)
        BY <1>1, <4>1, <4>2, <4>3, AddRcvNxtEffect
      <4>5. Entered(v, w, c, wconn) /\ SameHistory(v, w)
        BY <4>1, <4>4 DEF Entered, SameTable, SameHistory
      <4>6. Advanced(wconn)
        BY <1>1, <3>1, <4>1, <4>4, <4>5
      <4> HIDE DEF Advanced
      <4> QED
        BY <4>6
    <3>2. CASE n = 0
      <4>1. w = v /\ v.conns = [v.conns EXCEPT ![c] = conn]
        BY <1>1, <3>2 DEF UipState
      <4>2. conn.rcv_nxt = uip_add32(conn.rcv_nxt, n)
        BY <1>1, <3>2 DEF uip_add32, Seqs
      <4>3. ~(n > 0)
        BY <3>2
      <4> HIDE DEF w, n
      <4>4. Entered(v, w, c, conn) /\ SameHistory(v, w)
        BY <1>1, <4>1 DEF Entered, SameHistory
      <4>5. w.uip_flags = IF n > 0 THEN v.uip_flags \cup {"NEWDATA"} ELSE v.uip_flags
        BY <4>1, <4>3
      <4>6. /\ Sound(conn) /\ conn.tcpstate = "ESTABLISHED"
            /\ conn.rcv_nxt = uip_add32(conn.rcv_nxt, n)
        BY <1>1, <4>2
      <4>7. Advanced(conn)
        BY <4>4, <4>5, <4>6
      <4> HIDE DEF Advanced
      <4> QED
        BY <4>7
    <3>3. n > 0 \/ n = 0
      BY <1>4
    <3> HIDE DEF n, w, Advanced
    <3> QED
      BY <3>1, <3>2, <3>3
  <2> HIDE DEF w, n
  <2>2. /\ w \in UipState /\ w.conns[c] = wconn
        /\ wconn.rcv_nxt \in Nat \X Nat /\ wconn.rcv_nxt[1] = k
    <3>1. w \in UipState /\ w.conns[c] = wconn
      BY <1>1, <2>1 DEF Entered, UipState
    <3>2. wconn.rcv_nxt \in Nat \X Nat
      BY <2>1 DEF Sound, Connection, Seqs
    <3>3. wconn.rcv_nxt[1] = k
      BY <1>1, <2>1 DEF uip_add32
    <3> QED
      BY <3>1, <3>2, <3>3
  <2>3. /\ w.uip_flags \in SUBSET UipFlags /\ w.uip_flags # {}
        /\ "CLOSE" \notin w.uip_flags /\ "ABORT" \notin w.uip_flags
        /\ "TIMEDOUT" \notin w.uip_flags /\ (n > 0 => "NEWDATA" \in w.uip_flags)
    <3>1. CASE n > 0
      BY <1>2, <2>1, <3>1 DEF UipFlags
    <3>2. CASE ~(n > 0)
      <4>1. n = 0
        BY <1>4, <3>2
      <4> QED
        BY <1>2, <1>10, <2>1, <3>2, <4>1 DEF UipFlags
    <3> QED
      BY <3>1, <3>2
  <2>4. Told(w, c, w.uip_flags, AppData(p), called)
    BY <1>4, <2>2, <2>3, CallbackEffect
  <2> HIDE DEF called
  <2>5. /\ called \in UipState /\ called.conns = w.conns /\ called.iss = w.iss
        /\ called.conns[c] = wconn /\ called.ended = w.ended /\ called.uip_flags = w.uip_flags
    BY <2>2, <2>3, <2>4 DEF Told, Within, SameTable
  <2>6. called.received = Appended(s, k, AppData(p))
    <3>1. AppData(p) # <<>> => "NEWDATA" \in w.uip_flags
      BY <1>4, <2>3, EmptySeq
    <3>2. called.received = Appended(w, k, AppData(p))
      BY <1>1, <1>4, <2>2, <2>4, <3>1, HandedOverData DEF Told
    <3> QED
      BY <1>2, <2>1, <3>2 DEF SameHistory, Appended
  <2>7. Entered(s, called, c, wconn)
    <3>1. Entered(v, called, c, wconn)
      BY <2>1, <2>5 DEF Entered
    <3> QED
      BY <1>2, <3>1, EnteredTwice
  <2>8. called.ended = s.ended
    BY <1>2, <2>1, <2>5 DEF SameHistory
  <2>9. wconn.rcv_nxt = uip_add32(s.conns[c].rcv_nxt, Len(AppData(p)))
    BY <1>1, <1>4, <2>1
  <2>10. p.seq = s.conns[c].rcv_nxt \/ n = 0
    BY <1>4 DEF OutOfOrder
  <2>11. Moves(s, called, c, p)
    <3>1. CASE p.seq = s.conns[c].rcv_nxt
      BY <1>1, <2>1, <2>6, <2>7, <2>8, <2>9, <3>1 DEF Moves
    <3>2. CASE n = 0
      <4>1. AppData(p) = <<>>
        BY <1>4, <3>2, EmptySeq
      <4>2. called.received = s.received
        <5>1. s.received \in [1..MaxAccepts -> Seq(Nat \X Nat)]
          BY DEF UipState
        <5>2. s.received[k] \o AppData(p) = s.received[k]
          BY <1>1, <4>1, <5>1, ConcatEmptySeq
        <5> QED
          BY <1>1, <2>6, <5>1, <5>2 DEF Appended
      <4>3. wconn.rcv_nxt = s.conns[c].rcv_nxt
        BY <1>1, <2>1, <3>2 DEF uip_add32, Seqs
      <4> QED
        BY <1>1, <2>1, <2>7, <2>8, <4>2, <4>3 DEF Moves
    <3> QED
      BY <2>10, <3>1, <3>2
  <2>12. Quiet(called, appsend(called, c), c)
    <3>1. called.uip_flags \cap {"ABORT", "CLOSE"} = {}
      BY <2>3, <2>5
    <3> QED
      BY <2>1, <2>5, <3>1, AppsendQuiet
  <2>13. ESTABLISHED(v, c, p) = appsend(called, c)
    BY <1>5, <1>10, <2>3
  <2> QED
    BY <2>11, <2>12, <2>13, HandledBy
<1> QED
  BY <1>4, <1>7, <1>8, <1>9, <1>10

\* The label found.
LEMMA FoundHandles ==
  ASSUME NEW s \in UipState, Left(s), NEW c \in Slots, Sound(s.conns[c]), Open(s.conns[c]),
         NEW p \in Segments, NEW rtt \in Nat, Ordinary(p) => p.seq[1] \in 1..MaxAccepts
  PROVE  /\ Handles(s, found(s, c, p, rtt), c, p)
         /\ ~Ordinary(p) => Quiet(s, found(s, c, p, rtt), c)
<1> DEFINE conn == s.conns[c]
<1>1. conn \in Connection /\ conn.tcpstate \in {"SYN_SENT", "ESTABLISHED", "LAST_ACK"}
  BY DEF Sound, Open, Reached
<1>2. CASE ~Ordinary(p)
  <2> DEFINE closed == Close(s, c)
             called == UIP_APPCALL(closed, c, {"ABORT"}, <<>>)
             t == Drop(called)
  <2>1. /\ closed \in UipState /\ SameHistory(s, closed) /\ closed.iss = s.iss
        /\ closed.conns = [s.conns EXCEPT ![c] = Closed(conn)]
    BY <1>1, CloseQuiet
  <2> HIDE DEF closed
  <2>2. called \in UipState /\ SameTable(closed, called) /\ SameHistory(closed, called)
    <3> DEFINE flags == {"ABORT"}
    <3>1. flags \in SUBSET UipFlags /\ "CLOSE" \notin flags
      BY DEF UipFlags
    <3> HIDE DEF flags
    <3>2. LET r == UIP_APPCALL(closed, c, flags, <<>>)
          IN  r \in UipState /\ SameTable(closed, r) /\ SameHistory(closed, r)
      BY <2>1, <3>1, PlainCallback
    <3> QED
      BY <3>2 DEF flags
  <2> HIDE DEF called
  <2>3. /\ t \in UipState /\ Left(t) /\ t.out = {}
        /\ SameTable(called, t) /\ SameHistory(called, t)
    BY <2>2, DropEffect
  <2> HIDE DEF t
  <2>4. Sound(Closed(conn)) /\ Closes(conn, Closed(conn)) /\ OnlyResets({})
    BY <1>1, ClosedSound DEF OnlyResets
  <2>5. Quiet(s, t, c)
    BY <2>1, <2>2, <2>3, <2>4 DEF Quiet, SameTable, SameHistory
  <2>6. found(s, c, p, rtt) = t
    BY <1>2 DEF found, Ordinary, t, called, closed
  <2> QED
    BY <2>5, <2>6 DEF Handles
<1>3. CASE Ordinary(p) /\ OutOfOrder(conn, p)
  <2>1. found(s, c, p, rtt) = tcp_send_ack(s, c)
    BY <1>3 DEF found, Ordinary
  <2>2. Quiet(s, tcp_send_ack(s, c), c)
    BY SendQuiet
  <2> QED
    BY <1>3, <2>1, <2>2 DEF Handles
<1>4. CASE Ordinary(p) /\ ~OutOfOrder(conn, p)
  <2> DEFINE v == acknowledged(s, c, p, rtt)
  <2>1. found(s, c, p, rtt) = ByState(v, c, p)
    BY <1>4 DEF found, Ordinary
  <2>2. PICK after : Considered(s, v, c, p, after)
    BY AcknowledgedEffect
  <2> HIDE DEF v
  <2>3. v.conns[c].tcpstate = conn.tcpstate
    BY <2>2 DEF Considered, Entered, Acked, UipState
  <2>4. CASE conn.tcpstate = "SYN_SENT"
    BY <1>4, <2>1, <2>2, <2>3, <2>4, SYN_SENTHandles DEF ByState
  <2>5. CASE conn.tcpstate = "ESTABLISHED"
    BY <1>4, <2>1, <2>2, <2>3, <2>5, ESTABLISHEDHandles DEF ByState
  <2>6. CASE conn.tcpstate = "LAST_ACK"
    BY <1>4, <2>1, <2>2, <2>3, <2>6, LAST_ACKHandles DEF ByState
  <2> QED
    BY <1>1, <1>4, <2>4, <2>5, <2>6
<1> QED
  BY <1>2, <1>3, <1>4

----------------------------------------------------------------------------
(* Types *)

\* What TypeOK needs to be kept: the states of the table that are reached, and initial
\* numbers that belong to a connection the server has accepted
TypeInv ==
  /\ TypeOK
  /\ \A c \in Slots : Sound(uip.conns[c])
  /\ \A port \in Ports : server[port].state # "LISTEN" => server[port].isn \in 1..MaxAccepts
  /\ \A p \in toClient : Ordinary(p) => p.seq[1] \in 1..MaxAccepts

\* A handler that is quiet leaves a proper state.
LEMMA QuietProper ==
  ASSUME NEW s, NEW t, NEW c \in Slots, s \in UipState, \A d \in Slots : Sound(s.conns[d]),
         Quiet(s, t, c)
  PROVE  Proper(t) /\ Left(t)
<1>1. PICK conn : Sound(conn) /\ t.conns = [s.conns EXCEPT ![c] = conn]
  BY DEF Quiet
<1>2. \A d \in Slots : t.conns[d] = IF d = c THEN conn ELSE s.conns[d]
  BY <1>1 DEF UipState
<1> QED
  BY <1>1, <1>2 DEF Quiet, Proper

\* Entering a sound connection keeps a state proper.
LEMMA EnteredProper ==
  ASSUME NEW s, NEW t, NEW c \in Slots, s \in UipState, \A d \in Slots : Sound(s.conns[d]),
         NEW conn, Sound(conn), Entered(s, t, c, conn)
  PROVE  Proper(t)
<1>1. \A d \in Slots : t.conns[d] = IF d = c THEN conn ELSE s.conns[d]
  BY DEF UipState, Entered
<1> QED
  BY <1>1 DEF Entered, Proper

\* So does every handler of a segment.
LEMMA HandlesProper ==
  ASSUME NEW s, NEW t, NEW c \in Slots, NEW p, s \in UipState, \A d \in Slots : Sound(s.conns[d]),
         Handles(s, t, c, p)
  PROVE  Proper(t) /\ Left(t)
<1>1. CASE Quiet(s, t, c)
  BY <1>1, QuietProper
<1>2. CASE Reports(s, t, c)
  BY <1>2, EnteredProper DEF Reports
<1>3. CASE \E u : (Joins(s, u, c, p) \/ Moves(s, u, c, p) \/ Ends(s, u, c, p)) /\ Quiet(u, t, c)
  <2>1. PICK u : (Joins(s, u, c, p) \/ Moves(s, u, c, p) \/ Ends(s, u, c, p)) /\ Quiet(u, t, c)
    BY <1>3
  <2>2. \E conn : Sound(conn) /\ Entered(s, u, c, conn)
    BY <2>1 DEF Joins, Moves, Ends
  <2>3. Proper(u)
    BY <2>2, EnteredProper
  <2> QED
    BY <2>1, <2>3, QuietProper DEF Proper
<1> QED
  BY <1>1, <1>2, <1>3 DEF Handles

\* The network takes a segment or not.
LEMMA PutEffect ==
  ASSUME NEW network, NEW segments
  PROVE  network \subseteq Put(network, segments) /\ Put(network, segments) \subseteq network \cup segments
BY DEF Put

\* A handler has run and left t, and what it sent is under way
Leaves(t) ==
  /\ t \in UipState
  /\ uip' \in UipState /\ Left(uip') /\ uip'.out = {}
  /\ SameTable(t, uip') /\ SameHistory(t, uip')
  /\ toServer' = Put(toServer, t.out)
  /\ toClient' \subseteq toClient
  /\ UNCHANGED <<ServerVars, restarts>>

\* What the main loop makes of what a handler leaves.
LEMMA LeavesEffect ==
  ASSUME NEW t \in UipState, Left(t), NEW i \in 0..UIP_CONNS,
         uip' = [t EXCEPT !.out = {}, !.i = i], toServer' = Put(toServer, t.out),
         toClient' \subseteq toClient, UNCHANGED <<ServerVars, restarts>>
  PROVE  Leaves(t)
<1>1. /\ uip' \in UipState /\ uip'.uip_flags = {} /\ uip'.uip_slen = 0 /\ uip'.out = {}
      /\ SameTable(t, uip') /\ SameHistory(t, uip')
  BY DEF Left, UipState, SameTable, SameHistory
<1> QED
  BY <1>1 DEF Leaves, Left

\* The types of what a handler leaves.
LEMMA LeavesType ==
  ASSUME TypeInv, NEW t, Leaves(t), \A c \in Slots : Sound(t.conns[c])
  PROVE  TypeInv'
<1>1. toServer' \subseteq Segments
  BY PutEffect DEF TypeInv, TypeOK, Leaves, UipState
<1> QED
  BY <1>1 DEF TypeInv, TypeOK, Leaves, ServerVars, Left, SameTable

\* The periodic timer leaves something quiet.
LEMMA PeriodicLeaves ==
  ASSUME TypeInv, NEW c \in Slots, Periodic(c)
  PROVE  \E t : Leaves(t) /\ Quiet(uip, t, c)
<1> DEFINE t == uip_periodic(uip, c)
<1>1. Quiet(uip, t, c)
  BY PeriodicQuiet DEF TypeInv, TypeOK
<1>2. t \in UipState /\ Left(t) /\ t \in UipState
  BY <1>1 DEF Quiet
<1>3. c + 1 \in 0..UIP_CONNS
  BY ConstantsAssumption DEF Slots
<1>4. /\ uip' = [[t EXCEPT !.i = c + 1] EXCEPT !.out = {}]
      /\ toServer' = Put(toServer, [t EXCEPT !.i = c + 1].out)
      /\ UNCHANGED <<ServerVars, toClient, restarts>>
  BY DEF Periodic, Handled
<1> HIDE DEF t
<1>5. uip' = [t EXCEPT !.out = {}, !.i = c + 1] /\ toServer' = Put(toServer, t.out)
  BY <1>2, <1>4 DEF UipState
<1>6. Leaves(t)
  BY <1>2, <1>3, <1>4, <1>5, LeavesEffect
<1> QED
  BY <1>1, <1>6

\* A segment for a connection is handled.
LEMMA ReceiveFoundLeaves ==
  ASSUME TypeInv, NEW p \in toClient, NEW c \in Slots, NEW rtt \in Rtos, ReceiveFound(p, c, rtt)
  PROVE  \E t : Leaves(t) /\ Handles(uip, t, c, p) /\ (~Ordinary(p) => Quiet(uip, t, c))
<1> DEFINE t == found(uip, c, p, rtt)
<1>1. Handles(uip, t, c, p) /\ (~Ordinary(p) => Quiet(uip, t, c))
  <2>1. uip \in UipState /\ Left(uip) /\ p \in Segments /\ Sound(uip.conns[c])
        /\ (Ordinary(p) => p.seq[1] \in 1..MaxAccepts)
    BY DEF TypeInv, TypeOK, Left
  <2>2. Open(uip.conns[c]) /\ rtt \in Nat
    BY ConstantsAssumption DEF ReceiveFound, Found, Open
  <2> QED
    BY <2>1, <2>2, FoundHandles
<1> HIDE DEF t
<1>2. t \in UipState /\ Left(t)
  BY <1>1, HandlesProper DEF TypeInv, TypeOK, Proper
<1>3. /\ uip' = [t EXCEPT !.out = {}] /\ toServer' = Put(toServer, t.out)
      /\ toClient' \subseteq toClient /\ UNCHANGED <<ServerVars, restarts>>
  BY DEF ReceiveFound, Arrives, Handled, t
<1>4. t.i \in 0..UIP_CONNS /\ uip' = [t EXCEPT !.out = {}, !.i = t.i]
  BY <1>2, <1>3 DEF UipState
<1>5. Leaves(t)
  BY <1>2, <1>3, <1>4, LeavesEffect
<1> QED
  BY <1>1, <1>5

\* A stray segment is answered with a RST, if at all.
LEMMA ReceiveStrayLeaves ==
  ASSUME TypeInv, NEW p \in toClient, ReceiveStray(p)
  PROVE  \E t : Leaves(t) /\ SameTable(uip, t) /\ SameHistory(uip, t) /\ OnlyResets(t.out)
<1> DEFINE t == reset(uip, p)
<1>1. /\ t \in UipState /\ Left(t) /\ OnlyResets(t.out)
      /\ SameTable(uip, t) /\ SameHistory(uip, t)
  BY ResetEffect DEF TypeInv, TypeOK
<1> HIDE DEF t
<1>2. /\ uip' = [t EXCEPT !.out = {}] /\ toServer' = Put(toServer, t.out)
      /\ toClient' \subseteq toClient /\ UNCHANGED <<ServerVars, restarts>>
  BY DEF ReceiveStray, Arrives, Handled, t
<1>3. t.i \in 0..UIP_CONNS /\ uip' = [t EXCEPT !.out = {}, !.i = t.i]
  BY <1>1, <1>2 DEF UipState
<1>4. Leaves(t)
  BY <1>1, <1>2, <1>3, LeavesEffect
<1> QED
  BY <1>1, <1>4

\* The other steps of ours: uip_connect, the timer task, the clock, the restart of the link
\* and of the board.
LEMMA OursType ==
  ASSUME TypeInv,
         TCPIP_ConnectToRemoteHost \/ TCPIP_TCPIPTask \/ Tick \/ Reinitialize \/ Reboot
  PROVE  TypeInv'
<1>1. /\ uip \in UipState /\ Left(uip) /\ uip.out = {} /\ \A c \in Slots : Sound(uip.conns[c])
      /\ uip.late \in Nat /\ uip.SystemTicks \in Nat /\ uip.iss \in Nat
  BY DEF TypeInv, TypeOK, UipState, Left
<1>2. /\ 0 \in 0..MaxTicks /\ CONNECT_SPACING + 1 \in 0..MaxTicks /\ GET_SPACING + 1 \in 0..MaxTicks
      /\ 0 \in 0..UIP_CONNS /\ UIP_CONNS \in 0..UIP_CONNS /\ 1 \in Nat
      /\ PORT_INIT \in Nat /\ UIP_RTO \in Nat
  BY ConstantsAssumption DEF MaxTicks
<1>3. ASSUME TCPIP_ConnectToRemoteHost PROVE TypeInv'
  <2>1. PICK port \in Ports :
          \/ \E c \in Slots :
               uip' = [uip_connect(uip, c, port) EXCEPT !.SystemTicks = GET_SPACING + 1,
                                                        !.ConnectedState = "ManageTCPConnection"]
          \/ uip' = [uip EXCEPT !.lastport = port, !.SystemTicks = 0]
    BY <1>3 DEF TCPIP_ConnectToRemoteHost
  <2>2. port \in Nat /\ UNCHANGED <<ServerVars, toServer, toClient, restarts>>
    BY <1>3, PortsAreNumbers DEF TCPIP_ConnectToRemoteHost
  <2>3. uip' \in UipState /\ Left(uip') /\ uip'.out = {} /\ \A c \in Slots : Sound(uip'.conns[c])
    <3>1. CASE uip' = [uip EXCEPT !.lastport = port, !.SystemTicks = 0]
      BY <1>1, <1>2, <2>2, <3>1 DEF UipState, Left
    <3>2. ASSUME NEW c \in Slots,
                 uip' = [uip_connect(uip, c, port) EXCEPT
                           !.SystemTicks = GET_SPACING + 1,
                           !.ConnectedState = "ManageTCPConnection"]
          PROVE  /\ uip' \in UipState /\ Left(uip') /\ uip'.out = {}
                 /\ \A d \in Slots : Sound(uip'.conns[d])
      <4> DEFINE new == [tcpstate |-> "SYN_SENT", lport |-> port, snd_nxt |-> <<uip.iss, 0>>,
                         rcv_nxt |-> uip.conns[c].rcv_nxt, len |-> 1, timer |-> 1, nrtx |-> 0,
                         rto |-> UIP_RTO]
                 ticks == GET_SPACING + 1
                 iss == uip.iss + 1
                 early == [uip EXCEPT !.lastport = port, !.iss = iss,
                                      !.SystemTicks = ticks,
                                      !.ConnectedState = "ManageTCPConnection"]
      <4>1. new \in Connection
        BY <1>1, <1>2, <2>2 DEF Connection, TcpStates, Seqs, UipState
      <4>2. Sound(new)
        BY <4>1 DEF Sound, Reached, Open, Joined
      <4>3. ticks \in 0..MaxTicks /\ iss \in Nat
        BY <1>1, <1>2
      <4>4. uip' = [early EXCEPT !.conns[c] = new]
        BY <3>2 DEF uip_connect
      <4> HIDE DEF new, ticks, iss
      <4>5. early \in UipState
        BY <1>1, <2>2, <4>3 DEF UipState
      <4>6. Left(early) /\ early.out = {} /\ early.conns = uip.conns
        BY <1>1 DEF UipState, Left
      <4> HIDE DEF early
      <4>7. /\ uip' \in UipState /\ uip'.conns = [uip.conns EXCEPT ![c] = new]
            /\ Left(uip') /\ uip'.out = {}
        BY <4>1, <4>4, <4>5, <4>6, EntryEffect DEF Left
      <4> QED
        BY <1>1, <4>2, <4>7 DEF UipState
    <3> QED
      BY <2>1, <3>1, <3>2
  <2> QED
    BY <2>2, <2>3 DEF TypeInv, TypeOK, ServerVars, Left
<1>4. ASSUME TCPIP_TCPIPTask PROVE TypeInv'
  <2>1. uip' = [uip EXCEPT !.late = @ - 1, !.i = 0]
        /\ UNCHANGED <<ServerVars, toServer, toClient, restarts>> /\ uip.late - 1 \in Nat
    BY <1>1, <1>4 DEF TCPIP_TCPIPTask, TimerDue
  <2>2. uip' \in UipState /\ Left(uip') /\ uip'.out = {} /\ uip'.conns = uip.conns
    BY <1>1, <1>2, <2>1 DEF UipState, Left
  <2> QED
    BY <2>1, <2>2 DEF TypeInv, TypeOK, ServerVars, Left
<1>5. ASSUME Tick PROVE TypeInv'
  <2> DEFINE ticks == Later(uip.SystemTicks, 1)
             late == Later(uip.late, 1)
  <2>1. ticks \in 0..MaxTicks /\ late \in Nat
    BY <1>1, <1>2, LaterType
  <2>2. uip' = [uip EXCEPT !.SystemTicks = ticks, !.late = late]
        /\ UNCHANGED <<ServerVars, toServer, toClient, restarts>>
    BY <1>5 DEF Tick
  <2> HIDE DEF ticks, late
  <2>3. uip' \in UipState /\ Left(uip') /\ uip'.out = {} /\ uip'.conns = uip.conns
    BY <1>1, <2>1, <2>2 DEF UipState, Left
  <2> QED
    BY <2>2, <2>3 DEF TypeInv, TypeOK, ServerVars, Left
<1>6. ASSUME NEW conn \in Connection PROVE Sound(Closed(conn)) /\ Closed(conn) \in Connection
  BY ClosedSound DEF Sound
<1>7. restarts < MaxRestarts => restarts + 1 \in 0..MaxRestarts
  BY ConstantsAssumption DEF TypeInv, TypeOK
<1>8. ASSUME Reinitialize PROVE TypeInv'
  <2> DEFINE conns == [c \in Slots |-> Closed(uip.conns[c])]
             ticks == CONNECT_SPACING + 1
  <2>1. conns \in [Slots -> Connection] /\ \A c \in Slots : Sound(conns[c])
    BY <1>1, <1>6 DEF UipState
  <2>2. ticks \in 0..MaxTicks
    BY <1>2
  <2>3. uip' = [uip EXCEPT !.conns = conns, !.lastport = PORT_INIT, !.late = 0,
                           !.ConnectedState = "ConnectToRemoteHost", !.SystemTicks = ticks]
    BY <1>8 DEF Reinitialize, TCPIP_InitializeTCPStack, uip_init
  <2> HIDE DEF conns, ticks
  <2>4. uip' \in UipState /\ Left(uip') /\ uip'.out = {} /\ uip'.conns = conns
    BY <1>1, <1>2, <2>1, <2>2, <2>3 DEF UipState, Left
  <2> QED
    BY <1>7, <1>8, <2>1, <2>4 DEF Reinitialize, TypeInv, TypeOK, ServerVars, Left
<1>9. ASSUME Reboot PROVE TypeInv'
  <2> DEFINE conns == [c \in Slots |-> Closed([rcv_nxt |-> <<0, 0>>])]
             ticks == CONNECT_SPACING + 1
  <2>1. conns \in [Slots -> Connection] /\ \A c \in Slots : Sound(conns[c])
    BY DEF Connection, TcpStates, Closed, Seqs, Sound, Reached, Open, Joined
  <2>2. ticks \in 0..MaxTicks
    BY <1>2
  <2>3. uip' = [conns |-> conns, lastport |-> PORT_INIT, iss |-> 0,
                ConnectedState |-> "ConnectToRemoteHost", SystemTicks |-> ticks, late |-> 0,
                i |-> UIP_CONNS, uip_flags |-> {}, uip_slen |-> 0, out |-> {},
                received |-> uip.received, ended |-> uip.ended]
    BY <1>9 DEF Reboot, UipInit
  <2> HIDE DEF conns, ticks
  <2>4. uip' \in UipState /\ Left(uip') /\ uip'.out = {} /\ uip'.conns = conns
    BY <1>1, <1>2, <2>1, <2>2, <2>3 DEF UipState, Left
  <2> QED
    BY <1>7, <1>9, <2>1, <2>4 DEF Reboot, TypeInv, TypeOK, ServerVars, Left
<1> QED
  BY <1>3, <1>4, <1>5, <1>8, <1>9

\* What a server in state sv that has written last units says
Spoken(port, sv, flags, from, len, urgp) ==
  [port |-> port, flags |-> flags, seq |-> <<sv.isn, from>>, ack |-> sv.rcv_nxt,
   len |-> len, urgp |-> urgp]

\* The segments of the server for the connection sv on port
Utters(port, sv, last, p) ==
  /\ p \in Segments /\ Ordinary(p) /\ p.seq[1] = sv.isn /\ p.ack = sv.rcv_nxt
  /\ sv.state # "LISTEN"
  /\ IF sv.state = "SYN_RCVD"
     THEN p.flags = {"SYN", "ACK"} /\ p.seq[2] = 0 /\ p.len = 0
     ELSE /\ "SYN" \notin p.flags
          /\ p.seq[2] = sv.nxt \/ p.seq[2] >= sv.una
          /\ p.len > 0 => p.seq[2] + p.len - 1 <= last
          /\ "FIN" \in p.flags => sv.state = "FIN_WAIT" /\ p.seq[2] + p.len - 1 = last
          /\ "URG" \in p.flags => \E u \in UrgentPointers : u > 0

\* A segment that the server says has a segment's type.
LEMMA SpokenType ==
  ASSUME NEW port \in Ports, NEW sv \in ServerConnection, NEW flags \in SUBSET Flags,
         NEW from \in Nat, NEW len \in Nat, NEW urgp \in Nat
  PROVE  LET p == Spoken(port, sv, flags, from, len, urgp)
         IN  /\ p \in Segments /\ p.flags = flags /\ p.seq[1] = sv.isn /\ p.seq[2] = from
             /\ p.ack = sv.rcv_nxt /\ p.len = len /\ p.urgp = urgp /\ p.port = port
BY DEF Spoken, Segments, ServerConnection, Seqs

\* The segments that a server may send say nothing but what its state and what it has
\* written allow.
LEMMA OutgoingEffect ==
  ASSUME NEW port \in Ports, NEW p \in Outgoing(port), server[port] \in ServerConnection,
         written[server[port].isn] \in Nat
  PROVE  Utters(port, server[port], written[server[port].isn], p)
<1> DEFINE sv == server[port]
           last == written[sv.isn]
           Urg(u) == IF u > 0 THEN {"URG"} ELSE {}
<1>1. sv \in ServerConnection /\ last \in Nat /\ sv.una \in Nat /\ sv.nxt \in Nat
      /\ sv.state \in ServerStates
  BY DEF ServerConnection
<1>2. /\ sv.state # "LISTEN"
      /\ \/ sv.state = "SYN_RCVD" /\ p = Spoken(port, sv, {"SYN", "ACK"}, 0, 0, 0)
         \/ sv.state # "SYN_RCVD" /\ p = Spoken(port, sv, {"ACK"}, sv.nxt, 0, 0)
         \/ /\ sv.state # "SYN_RCVD"
            /\ \E from, to \in sv.una..last, u \in UrgentPointers :
                 p = Spoken(port, sv, {"ACK", "PSH"} \cup Urg(u), from, to - from + 1, u)
            /\ p.len > 0
         \/ /\ sv.state = "FIN_WAIT"
            /\ \E from \in sv.una..(last + 1) :
                 p = Spoken(port, sv, {"ACK", "FIN"}, from, last - from + 1, 0)
  BY <1>1 DEF Outgoing, Spoken
<1> HIDE DEF sv, last
<1>3. CASE sv.state = "SYN_RCVD" /\ p = Spoken(port, sv, {"SYN", "ACK"}, 0, 0, 0)
  <2> DEFINE flags == {"SYN", "ACK"}
  <2>1. flags \in SUBSET Flags /\ "RST" \notin flags
    BY DEF Flags
  <2> HIDE DEF flags
  <2>2. /\ p \in Segments /\ p.flags = flags /\ p.seq[1] = sv.isn /\ p.seq[2] = 0
        /\ p.ack = sv.rcv_nxt /\ p.len = 0
    BY <1>1, <1>3, <2>1, SpokenType DEF flags
  <2> QED
    BY <1>3, <2>1, <2>2 DEF Utters, Ordinary, sv, last, flags
<1>4. CASE sv.state # "SYN_RCVD" /\ p = Spoken(port, sv, {"ACK"}, sv.nxt, 0, 0)
  <2> DEFINE flags == {"ACK"}
  <2>1. /\ flags \in SUBSET Flags /\ "RST" \notin flags /\ "SYN" \notin flags
        /\ "FIN" \notin flags /\ "URG" \notin flags
    BY DEF Flags
  <2> HIDE DEF flags
  <2>2. /\ p \in Segments /\ p.flags = flags /\ p.seq[1] = sv.isn /\ p.seq[2] = sv.nxt
        /\ p.ack = sv.rcv_nxt /\ p.len = 0
    BY <1>1, <1>4, <2>1, SpokenType DEF flags
  <2> QED
    BY <1>2, <1>4, <2>1, <2>2 DEF Utters, Ordinary, sv, last
<1>5. ASSUME sv.state # "SYN_RCVD", NEW from \in sv.una..last, NEW to \in sv.una..last,
             NEW u \in UrgentPointers,
             p = Spoken(port, sv, {"ACK", "PSH"} \cup Urg(u), from, to - from + 1, u),
             p.len > 0
      PROVE  Utters(port, server[port], written[server[port].isn], p)
  <2> DEFINE flags == {"ACK", "PSH"} \cup Urg(u)
             len == to - from + 1
  <2>1. /\ flags \in SUBSET Flags /\ "RST" \notin flags /\ "SYN" \notin flags
        /\ "FIN" \notin flags /\ ("URG" \in flags => u > 0)
    BY DEF Flags
  <2>2. u \in Nat /\ from \in Nat
    BY <1>1, ConstantsAssumption
  <2>3. from + len - 1 <= last /\ len \in Int /\ from >= sv.una
    BY <1>1, <2>2
  <2>4. len \in Nat
    <3>1. p.len = len
      BY <1>5 DEF Spoken
    <3> QED
      BY <1>5, <2>3, <3>1
  <2>5. p = Spoken(port, sv, flags, from, len, u)
    BY <1>5
  <2> HIDE DEF flags, len
  <2>6. /\ p \in Segments /\ p.flags = flags /\ p.seq[1] = sv.isn /\ p.seq[2] = from
        /\ p.ack = sv.rcv_nxt /\ p.len = len
    BY <1>1, <2>1, <2>2, <2>4, <2>5, SpokenType
  <2> QED
    BY <1>2, <1>5, <2>1, <2>3, <2>6 DEF Utters, Ordinary, sv, last
<1>6. ASSUME sv.state = "FIN_WAIT", NEW from \in sv.una..(last + 1),
             p = Spoken(port, sv, {"ACK", "FIN"}, from, last - from + 1, 0)
      PROVE  Utters(port, server[port], written[server[port].isn], p)
  <2> DEFINE flags == {"ACK", "FIN"}
             len == last - from + 1
  <2>1. /\ flags \in SUBSET Flags /\ "RST" \notin flags /\ "SYN" \notin flags
        /\ "URG" \notin flags
    BY DEF Flags
  <2>2. from \in Nat /\ len \in Nat /\ from + len - 1 = last /\ from >= sv.una
    BY <1>1
  <2>3. p = Spoken(port, sv, flags, from, len, 0)
    BY <1>6
  <2> HIDE DEF flags, len
  <2>4. /\ p \in Segments /\ p.flags = flags /\ p.seq[1] = sv.isn /\ p.seq[2] = from
        /\ p.ack = sv.rcv_nxt /\ p.len = len
    BY <1>1, <2>1, <2>2, <2>3, SpokenType
  <2> QED
    BY <1>1, <1>2, <1>6, <2>1, <2>2, <2>4 DEF Utters, Ordinary, sv, last
<1> QED
  BY <1>2, <1>3, <1>4, <1>5, <1>6

\* The server's end on port becomes sv2
Turns(port, sv2) ==
  /\ server' = [server EXCEPT ![port] = sv2]
  /\ sv2 \in ServerConnection
  /\ sv2.state # "LISTEN" => sv2.isn \in 1..MaxAccepts

\* The server has taken a segment of its connection that is neither RST nor SYN: an
\* acknowledgement, then data or a FIN
Takes(sv, p, sv2) ==
  /\ sv2.isn = sv.isn /\ sv2.nxt = sv.nxt
  /\ \/ sv2.una = sv.una
     \/ "ACK" \in p.flags /\ p.ack[1] = sv.isn /\ sv2.una = p.ack[2]
        /\ sv.una < sv2.una /\ sv2.una <= sv.nxt
  /\ \/ sv2.state = sv.state /\ (sv.state = "SYN_RCVD" => sv2.una = sv.una)
     \/ sv.state = "SYN_RCVD" /\ sv2.state = "ESTABLISHED" /\ sv2.una # sv.una
     \/ sv.state = "FIN_WAIT" /\ sv2.state = "TIME_WAIT"
  /\ \/ sv2.rcv_nxt = sv.rcv_nxt
     \/ /\ p.seq = sv.rcv_nxt /\ sv2.rcv_nxt[1] = sv.rcv_nxt[1]
        /\ sv2.state # "SYN_RCVD"
        /\ sv.rcv_nxt[2] <= sv2.rcv_nxt[2] /\ sv2.rcv_nxt[2] <= p.seq[2] + Size(p)

\* What AfterAck and AfterData make of a connection of the server's.
LEMMA TakesEffect ==
  ASSUME NEW sv \in ServerConnection, NEW p \in Segments
  PROVE  LET sv2 == AfterData(AfterAck(sv, p), p)
         IN  sv2 \in ServerConnection /\ Takes(sv, p, sv2)
<1> DEFINE acked == AfterAck(sv, p)
           sv2 == AfterData(acked, p)
           Acks == "ACK" \in p.flags /\ p.ack[1] = sv.isn /\ p.ack[2] \in (sv.una + 1)..sv.nxt
<1>1. /\ sv.una \in Nat /\ sv.nxt \in Nat /\ sv.isn \in Nat /\ sv.rcv_nxt \in Nat \X Nat
      /\ p.ack \in Nat \X Nat /\ p.seq \in Nat \X Nat /\ p.len \in Nat /\ sv.state \in ServerStates
  BY DEF ServerConnection, Segments, Seqs
<1>2. /\ acked \in ServerConnection /\ acked.isn = sv.isn /\ acked.nxt = sv.nxt
      /\ acked.rcv_nxt = sv.rcv_nxt
      /\ \/ acked.una = sv.una /\ acked.state = sv.state
         \/ /\ "ACK" \in p.flags /\ p.ack[1] = sv.isn /\ acked.una = p.ack[2]
            /\ sv.una < acked.una /\ acked.una <= sv.nxt
            /\ acked.state = IF sv.state = "SYN_RCVD" THEN "ESTABLISHED" ELSE sv.state
  <2>1. CASE Acks
    <3> DEFINE state == IF sv.state = "SYN_RCVD" THEN "ESTABLISHED" ELSE sv.state
               una == p.ack[2]
    <3>1. una \in Nat /\ sv.una < una /\ una <= sv.nxt /\ state \in ServerStates
      BY <1>1, <2>1 DEF ServerStates
    <3>2. acked = [sv EXCEPT !.una = una, !.state = state]
      BY <2>1 DEF AfterAck
    <3> HIDE DEF state, una, acked
    <3>3. /\ acked \in ServerConnection /\ acked.isn = sv.isn /\ acked.nxt = sv.nxt
          /\ acked.rcv_nxt = sv.rcv_nxt /\ acked.una = una /\ acked.state = state
      BY <3>1, <3>2 DEF ServerConnection
    <3> QED
      BY <2>1, <3>1, <3>3 DEF una, state
  <2>2. CASE ~Acks
    BY <2>2 DEF AfterAck
  <2> QED
    BY <2>1, <2>2
<1> HIDE DEF acked
<1>3. CASE p.seq # acked.rcv_nxt \/ acked.state = "SYN_RCVD"
  <2>1. sv2 = acked
    BY <1>3 DEF AfterData
  <2> HIDE DEF sv2
  <2>2. sv2.state = sv.state => (sv.state = "SYN_RCVD" => sv2.una = sv.una)
    BY <1>2, <2>1
  <2>3. \/ sv2.state = sv.state
        \/ sv.state = "SYN_RCVD" /\ sv2.state = "ESTABLISHED" /\ sv2.una # sv.una
    BY <1>1, <1>2, <2>1
  <2>4. /\ sv2 \in ServerConnection /\ sv2.isn = sv.isn /\ sv2.nxt = sv.nxt
        /\ sv2.rcv_nxt = sv.rcv_nxt
        /\ \/ sv2.una = sv.una
           \/ /\ "ACK" \in p.flags /\ p.ack[1] = sv.isn /\ sv2.una = p.ack[2]
              /\ sv.una < sv2.una /\ sv2.una <= sv.nxt
    BY <1>2, <2>1
  <2>5. Takes(sv, p, sv2)
    BY <2>2, <2>3, <2>4 DEF Takes
  <2> QED
    BY <2>4, <2>5 DEF sv2, acked
<1>4. CASE ~(p.seq # acked.rcv_nxt \/ acked.state = "SYN_RCVD")
  <2> DEFINE n == IF "FIN" \in p.flags /\ acked.state = "FIN_WAIT" /\ acked.una = acked.nxt
                  THEN 1 ELSE p.len
             state == IF "FIN" \in p.flags /\ acked.state = "FIN_WAIT" /\ acked.una = acked.nxt
                      THEN "TIME_WAIT" ELSE acked.state
             rcv_nxt == <<sv.rcv_nxt[1], sv.rcv_nxt[2] + n>>
  <2>1. n \in Nat /\ n <= Size(p)
    BY <1>1 DEF Size
  <2>2. /\ rcv_nxt \in Nat \X Nat /\ rcv_nxt[1] = sv.rcv_nxt[1]
        /\ sv.rcv_nxt[2] <= rcv_nxt[2] /\ rcv_nxt[2] <= p.seq[2] + Size(p)
    <3>1. Size(p) \in Nat
      BY <1>1 DEF Size
    <3>2. p.seq[2] = sv.rcv_nxt[2]
      BY <1>2, <1>4
    <3> HIDE DEF n
    <3> QED
      BY <1>1, <2>1, <3>1, <3>2
  <2>3. sv2 = [acked EXCEPT !.rcv_nxt = rcv_nxt, !.state = state]
    BY <1>2, <1>4 DEF AfterData, uip_add32, ServerConnection
  <2>4. state \in ServerStates /\ state # "SYN_RCVD"
        /\ (state = acked.state \/ (acked.state = "FIN_WAIT" /\ state = "TIME_WAIT"))
    BY <1>2, <1>4 DEF ServerConnection, ServerStates
  <2> HIDE DEF n, state, rcv_nxt, sv2
  <2>5. /\ sv2 \in ServerConnection /\ sv2.isn = sv.isn /\ sv2.nxt = sv.nxt
        /\ sv2.rcv_nxt = rcv_nxt /\ sv2.una = acked.una /\ sv2.state = state
    BY <1>2, <2>2, <2>3, <2>4 DEF ServerConnection, Seqs
  <2>6. \/ sv2.state = sv.state /\ (sv.state = "SYN_RCVD" => sv2.una = sv.una)
        \/ sv.state = "SYN_RCVD" /\ sv2.state = "ESTABLISHED" /\ sv2.una # sv.una
        \/ sv.state = "FIN_WAIT" /\ sv2.state = "TIME_WAIT"
    BY <1>1, <1>2, <2>4, <2>5
  <2>7. p.seq = sv.rcv_nxt
    BY <1>2, <1>4
  <2>8. /\ \/ sv2.una = sv.una
           \/ /\ "ACK" \in p.flags /\ p.ack[1] = sv.isn /\ sv2.una = p.ack[2]
              /\ sv.una < sv2.una /\ sv2.una <= sv.nxt
        /\ sv2.isn = sv.isn /\ sv2.nxt = sv.nxt
    BY <1>2, <2>5
  <2>9. Takes(sv, p, sv2)
    BY <2>2, <2>4, <2>5, <2>6, <2>7, <2>8 DEF Takes
  <2> QED
    BY <2>5, <2>9 DEF sv2, acked
<1> QED
  BY <1>3, <1>4

\* The server has said one thing more on its connection
SaysMore(sv, state, sv2) ==
  /\ sv2.isn = sv.isn /\ sv2.una = sv.una /\ sv2.rcv_nxt = sv.rcv_nxt
  /\ sv2.nxt = sv.nxt + 1 /\ sv2.state = state

\* A port that is not listening is one of a connection that the server has accepted.
LEMMA PortType ==
  ASSUME TypeInv, NEW port \in Ports
  PROVE  /\ server[port] \in ServerConnection
         /\ server[port].state # "LISTEN" =>
              server[port].isn \in 1..MaxAccepts /\ written[server[port].isn] \in 0..MaxData
BY DEF TypeInv, TypeOK

\* The server writes a unit.
LEMMA ServerWritesEffect ==
  ASSUME TypeInv, NEW port \in Ports, ServerWrites(port)
  PROVE  /\ server[port].state = "ESTABLISHED"
         /\ \E sv2 : Turns(port, sv2) /\ SaysMore(server[port], "ESTABLISHED", sv2)
<1> DEFINE sv == server[port]
           nxt == sv.nxt + 1
           sv2 == [sv EXCEPT !.nxt = nxt]
<1>1. sv \in ServerConnection /\ sv.state = "ESTABLISHED" /\ sv.isn \in 1..MaxAccepts
  BY PortType DEF ServerWrites
<1>2. nxt \in Nat
  BY <1>1 DEF ServerConnection
<1>3. server' = [server EXCEPT ![port] = sv2]
  BY <1>1 DEF ServerWrites, TypeInv, TypeOK, ServerConnection
<1> HIDE DEF nxt
<1>4. /\ sv2 \in ServerConnection /\ sv2.isn = sv.isn /\ sv2.una = sv.una
      /\ sv2.rcv_nxt = sv.rcv_nxt /\ sv2.nxt = nxt /\ sv2.state = "ESTABLISHED"
  BY <1>1, <1>2 DEF ServerConnection
<1> HIDE DEF sv2
<1>5. Turns(port, sv2) /\ SaysMore(sv, "ESTABLISHED", sv2)
  BY <1>1, <1>3, <1>4 DEF Turns, SaysMore, nxt
<1> QED
  BY <1>1, <1>5

\* The server closes its connection.
LEMMA ServerFinishesEffect ==
  ASSUME TypeInv, NEW port \in Ports, ServerFinishes(port)
  PROVE  /\ server[port].state = "ESTABLISHED"
         /\ \E sv2 : Turns(port, sv2) /\ SaysMore(server[port], "FIN_WAIT", sv2)
<1> DEFINE sv == server[port]
           nxt == sv.nxt + 1
           sv2 == [sv EXCEPT !.nxt = nxt, !.state = "FIN_WAIT"]
<1>1. sv \in ServerConnection /\ sv.state = "ESTABLISHED" /\ sv.isn \in 1..MaxAccepts
  BY PortType DEF ServerFinishes
<1>2. nxt \in Nat
  BY <1>1 DEF ServerConnection
<1>3. server' = [server EXCEPT ![port] = sv2]
  BY <1>1 DEF ServerFinishes, TypeInv, TypeOK, ServerConnection
<1> HIDE DEF nxt
<1>4. /\ sv2 \in ServerConnection /\ sv2.isn = sv.isn /\ sv2.una = sv.una
      /\ sv2.rcv_nxt = sv.rcv_nxt /\ sv2.nxt = nxt /\ sv2.state = "FIN_WAIT"
  BY <1>1, <1>2 DEF ServerConnection, ServerStates
<1> HIDE DEF sv2
<1>5. Turns(port, sv2) /\ SaysMore(sv, "FIN_WAIT", sv2)
  BY <1>1, <1>3, <1>4 DEF Turns, SaysMore, nxt
<1> QED
  BY <1>1, <1>5

\* The server's RST, when it gives a connection up or knows of none
ResetOf(port, seq) ==
  [port |-> port, flags |-> {"RST"}, seq |-> seq, ack |-> <<0, 0>>, len |-> 0, urgp |-> 0]

\* It is a segment, and not an ordinary one.
LEMMA ResetOfType ==
  ASSUME NEW port \in Ports, NEW seq \in Seqs
  PROVE  ResetOf(port, seq) \in Segments /\ ~Ordinary(ResetOf(port, seq))
BY DEF ResetOf, Segments, Flags, Seqs, Ordinary

\* The server forgets a connection.
LEMMA ServerForgetsEffect ==
  ASSUME TypeInv, NEW port \in Ports, ServerForgets(port)
  PROVE  /\ Turns(port, Listening)
         /\ toClient' \subseteq toClient \cup {p \in Segments : ~Ordinary(p)}
<1>1. Turns(port, Listening)
  BY DEF ServerForgets, Turns, Listening, ServerConnection, ServerStates, Seqs
<1> DEFINE seq == <<server[port].isn, server[port].nxt>>
           rst == ResetOf(port, seq)
<1>2. seq \in Seqs
  BY PortType DEF ServerConnection, Seqs
<1>3. toClient' = toClient \/ toClient' = Put(toClient, {rst})
  BY DEF ServerForgets, ResetOf
<1> HIDE DEF seq
<1>4. rst \in Segments /\ ~Ordinary(rst)
  BY <1>2, ResetOfType
<1> HIDE DEF rst
<1> QED
  BY <1>1, <1>3, <1>4, PutEffect

\* The server accepts a connection
Accepts(p, sv2) ==
  /\ sv2.state = "SYN_RCVD" /\ sv2.isn = accepted + 1 /\ sv2.una = 0 /\ sv2.nxt = 1
  /\ sv2.rcv_nxt = uip_add32(p.seq, 1)

\* that it is asked for by a SYN.
LEMMA ServerAcceptsEffect ==
  ASSUME TypeInv, NEW p \in toServer, ServerAccepts(p)
  PROVE  \E sv2 : Turns(p.port, sv2) /\ Accepts(p, sv2)
<1> DEFINE isn == accepted + 1
           rcv_nxt == uip_add32(p.seq, 1)
           sv2 == [state |-> "SYN_RCVD", isn |-> isn, una |-> 0, nxt |-> 1, rcv_nxt |-> rcv_nxt]
<1>1. p \in Segments /\ accepted \in 0..MaxAccepts /\ accepted < MaxAccepts
  BY DEF TypeInv, TypeOK, ServerAccepts
<1>2. isn \in 1..MaxAccepts /\ isn \in Nat
  BY <1>1, ConstantsAssumption
<1>3. rcv_nxt \in Seqs
  BY <1>1 DEF uip_add32, Segments, Seqs
<1>4. server' = [server EXCEPT ![p.port] = sv2]
  BY DEF ServerAccepts
<1> HIDE DEF isn, rcv_nxt
<1>5. /\ sv2 \in ServerConnection /\ sv2.isn = isn /\ sv2.una = 0 /\ sv2.nxt = 1
      /\ sv2.rcv_nxt = rcv_nxt /\ sv2.state = "SYN_RCVD"
  BY <1>2, <1>3 DEF ServerConnection, ServerStates
<1> HIDE DEF sv2
<1>6. Turns(p.port, sv2) /\ Accepts(p, sv2)
  BY <1>2, <1>4, <1>5 DEF Turns, Accepts, isn, rcv_nxt
<1> QED
  BY <1>6

\* The server takes a segment for a connection it has: nothing changes, the connection is
\* reset, or it is updated.
LEMMA ServerUpdatesEffect ==
  ASSUME TypeInv, NEW p \in toServer, ServerUpdates(p)
  PROVE  \/ server' = server
         \/ Turns(p.port, Listening)
         \/ /\ Ordinary(p) /\ "SYN" \notin p.flags
            /\ server[p.port].state # "LISTEN"
            /\ \E sv2 : Turns(p.port, sv2) /\ Takes(server[p.port], p, sv2)
<1> DEFINE sv == server[p.port]
           sv2 == AfterData(AfterAck(sv, p), p)
<1>1. p \in Segments /\ p.port \in Ports /\ server \in [Ports -> ServerConnection]
  BY DEF TypeInv, TypeOK, Segments
<1>2. sv \in ServerConnection /\ sv.state # "LISTEN" /\ sv.isn \in 1..MaxAccepts
  BY <1>1, PortType DEF ServerUpdates
<1>3. sv2 \in ServerConnection /\ Takes(sv, p, sv2)
  BY <1>1, <1>2, TakesEffect
<1>4. \/ server' = [server EXCEPT ![p.port] = sv]
      \/ server' = [server EXCEPT ![p.port] = Listening]
      \/ Ordinary(p) /\ "SYN" \notin p.flags /\ server' = [server EXCEPT ![p.port] = sv2]
  BY DEF ServerUpdates, Ordinary
<1> HIDE DEF sv2
<1>5. CASE server' = [server EXCEPT ![p.port] = sv]
  BY <1>1, <1>5
<1>6. CASE server' = [server EXCEPT ![p.port] = Listening]
  BY <1>6 DEF Turns, Listening, ServerConnection, ServerStates, Seqs
<1>7. CASE Ordinary(p) /\ "SYN" \notin p.flags /\ server' = [server EXCEPT ![p.port] = sv2]
  BY <1>2, <1>3, <1>7 DEF Turns, Takes
<1> QED
  BY <1>4, <1>5, <1>6, <1>7

\* The server knows of no connection, or has no room for one.
LEMMA ServerRefusesEffect ==
  ASSUME TypeInv, NEW p \in toServer, ServerRefuses(p)
  PROVE  /\ server' = server /\ accepted' = accepted
         /\ toClient' \subseteq toClient \cup {q \in Segments : ~Ordinary(q)}
<1> DEFINE rst == ResetOf(p.port, p.ack)
<1>1. p.port \in Ports /\ p.ack \in Seqs
  BY DEF TypeInv, TypeOK, Segments
<1>2. toClient' = toClient \/ toClient' = Put(toClient, {rst})
  BY DEF ServerRefuses, ServerReset, ResetOf
<1>3. rst \in Segments /\ ~Ordinary(rst)
  BY <1>1, ResetOfType
<1> HIDE DEF rst
<1> QED
  BY <1>2, <1>3, PutEffect DEF ServerRefuses

\* The steps of the server and of the network keep the types.
LEMMA TheirType ==
  ASSUME TypeInv,
         \/ \E port \in Ports : \/ ServerSends(port) \/ ServerWrites(port)
                                \/ ServerFinishes(port) \/ ServerForgets(port)
         \/ \E p \in toServer : ServerReceives(p)
         \/ Lose
  PROVE  TypeInv'
<1> DEFINE Same == UNCHANGED <<uip, restarts>>
<1>1. ASSUME NEW port \in Ports, NEW sv2, Turns(port, sv2)
      PROVE  /\ server' \in [Ports -> ServerConnection]
             /\ \A q \in Ports : server'[q].state # "LISTEN" => server'[q].isn \in 1..MaxAccepts
  <2>1. server \in [Ports -> ServerConnection]
        /\ \A q \in Ports : server[q].state # "LISTEN" => server[q].isn \in 1..MaxAccepts
    BY DEF TypeInv, TypeOK
  <2> QED
    BY <1>1, <2>1 DEF Turns
<1>2. ASSUME toClient' \subseteq toClient \cup {p \in Segments : ~Ordinary(p)}
      PROVE  toClient' \subseteq Segments /\ \A p \in toClient' : Ordinary(p) => p.seq[1] \in 1..MaxAccepts
  BY <1>2 DEF TypeInv, TypeOK
<1>3. ASSUME NEW port \in Ports, ServerSends(port) PROVE TypeInv'
  <2>1. PICK p \in Outgoing(port) : toClient' = Put(toClient, {p})
    BY <1>3 DEF ServerSends
  <2>2. server[port] \in ServerConnection
    BY PortType
  <2>3. server[port].state # "LISTEN"
    BY <2>1 DEF Outgoing
  <2>4. written[server[port].isn] \in Nat
    BY <2>3, PortType, ConstantsAssumption
  <2>5. p \in Segments /\ p.seq[1] \in 1..MaxAccepts
    BY <2>2, <2>3, <2>4, OutgoingEffect, PortType DEF Utters
  <2>6. toClient' \subseteq toClient \cup {p}
    BY <2>1, PutEffect
  <2> QED
    BY <1>3, <2>5, <2>6 DEF ServerSends, TypeInv, TypeOK, UipVars, ServerVars
<1>4. ASSUME NEW port \in Ports, ServerWrites(port) PROVE TypeInv'
  <2>1. PICK sv2 : Turns(port, sv2)
    BY <1>4, ServerWritesEffect
  <2> DEFINE k == server[port].isn
             n == written[k] + 1
  <2>2. k \in 1..MaxAccepts /\ n \in 0..MaxData
    <3>1. server[port].state = "ESTABLISHED" /\ written[k] < MaxData
      BY <1>4 DEF ServerWrites
    <3> QED
      BY <3>1, PortType, ConstantsAssumption
  <2>3. written' = [written EXCEPT ![k] = n]
    BY <1>4 DEF ServerWrites
  <2> HIDE DEF k, n
  <2>4. written' \in [1..MaxAccepts -> 0..MaxData]
    BY <2>2, <2>3 DEF TypeInv, TypeOK
  <2> QED
    BY <1>1, <1>4, <2>1, <2>4 DEF ServerWrites, TypeInv, TypeOK, UipVars
<1>5. ASSUME NEW port \in Ports, ServerFinishes(port) PROVE TypeInv'
  <2>1. PICK sv2 : Turns(port, sv2)
    BY <1>5, ServerFinishesEffect
  <2>2. server[port].isn \in 1..MaxAccepts
    BY <1>5, PortType DEF ServerFinishes
  <2> QED
    BY <1>1, <1>5, <2>1, <2>2 DEF ServerFinishes, TypeInv, TypeOK, UipVars
<1>6. ASSUME NEW port \in Ports, ServerForgets(port) PROVE TypeInv'
  <2>1. Turns(port, Listening) /\ toClient' \subseteq toClient \cup {p \in Segments : ~Ordinary(p)}
    BY <1>6, ServerForgetsEffect
  <2> QED
    BY <1>1, <1>2, <1>6, <2>1 DEF ServerForgets, TypeInv, TypeOK, UipVars
<1>7. ASSUME NEW p \in toServer, ServerReceives(p) PROVE TypeInv'
  <2>1. p.port \in Ports
    BY DEF TypeInv, TypeOK, Segments
  <2>2. toServer' \subseteq toServer /\ UNCHANGED <<uip, restarts, written, finished>>
    BY <1>7 DEF ServerReceives, UipVars
  <2>3. CASE ServerAccepts(p)
    <3>1. PICK sv2 : Turns(p.port, sv2)
      BY <2>3, ServerAcceptsEffect
    <3>2. accepted' \in 0..MaxAccepts /\ toClient' = toClient
      BY <2>3, ConstantsAssumption DEF ServerAccepts, TypeInv, TypeOK
    <3> QED
      BY <1>1, <2>1, <2>2, <3>1, <3>2 DEF TypeInv, TypeOK
  <2>4. CASE ServerRefuses(p)
    BY <1>2, <2>2, <2>4, ServerRefusesEffect DEF TypeInv, TypeOK
  <2>5. CASE ServerUpdates(p)
    <3>1. accepted' = accepted /\ toClient' = toClient
      BY <2>5 DEF ServerUpdates
    <3>2. server' = server \/ \E sv2 : Turns(p.port, sv2)
      BY <2>5, ServerUpdatesEffect
    <3>3. /\ server' \in [Ports -> ServerConnection]
          /\ \A q \in Ports : server'[q].state # "LISTEN" => server'[q].isn \in 1..MaxAccepts
      BY <1>1, <2>1, <3>2 DEF TypeInv, TypeOK
    <3> QED
      BY <2>2, <3>1, <3>3 DEF TypeInv, TypeOK
  <2> QED
    BY <1>7, <2>3, <2>4, <2>5 DEF ServerReceives
<1>8. ASSUME Lose PROVE TypeInv'
  BY <1>8 DEF Lose, UipVars, ServerVars, TypeInv, TypeOK
<1> QED
  BY <1>3, <1>4, <1>5, <1>6, <1>7, <1>8

\* Where the program starts.
LEMMA InitType == Init => TypeInv
<1> SUFFICES ASSUME Init PROVE TypeInv
  OBVIOUS
<1> DEFINE conns == [c \in Slots |-> Closed([rcv_nxt |-> <<0, 0>>])]
           ticks == CONNECT_SPACING + 1
           received == [k \in 1..MaxAccepts |-> <<>>]
<1>1. conns \in [Slots -> Connection] /\ \A c \in Slots : Sound(conns[c])
  BY DEF Connection, TcpStates, Closed, Seqs, Sound, Reached, Open, Joined
<1>2. ticks \in 0..MaxTicks /\ PORT_INIT \in Nat /\ UIP_CONNS \in 0..UIP_CONNS
      /\ 0 \in 0..MaxAccepts /\ 0 \in 0..MaxData /\ 0 \in 0..MaxRestarts
  BY ConstantsAssumption DEF MaxTicks
<1>3. received \in [1..MaxAccepts -> Seq(Nat \X Nat)]
  OBVIOUS
<1>4. uip = [conns |-> conns, lastport |-> PORT_INIT, iss |-> 0,
             ConnectedState |-> "ConnectToRemoteHost", SystemTicks |-> ticks, late |-> 0,
             i |-> UIP_CONNS, uip_flags |-> {}, uip_slen |-> 0, out |-> {},
             received |-> received, ended |-> {}]
  BY DEF Init, UipInit
<1> HIDE DEF conns, ticks, received
<1>5. /\ uip \in UipState /\ uip.uip_flags = {} /\ uip.uip_slen = 0 /\ uip.out = {}
      /\ uip.conns = conns
  BY <1>1, <1>2, <1>3, <1>4 DEF UipState
<1>6. Listening \in ServerConnection /\ Listening.state = "LISTEN"
  BY DEF Listening, ServerConnection, ServerStates, Seqs
<1>7. /\ server = [port \in Ports |-> Listening] /\ accepted = 0
      /\ written = [k \in 1..MaxAccepts |-> 0] /\ finished = {}
      /\ toServer = {} /\ toClient = {} /\ restarts = 0
  BY DEF Init
<1> HIDE DEF Listening
<1> QED
  BY <1>1, <1>2, <1>5, <1>6, <1>7 DEF TypeInv, TypeOK

\* Every step keeps the types.
LEMMA StepType == TypeInv /\ [Next]_vars => TypeInv'
<1> SUFFICES ASSUME TypeInv, [Next]_vars PROVE TypeInv'
  OBVIOUS
<1>1. uip \in UipState /\ \A c \in Slots : Sound(uip.conns[c])
  BY DEF TypeInv, TypeOK
<1>2. ASSUME NEW c \in Slots, Periodic(c) PROVE TypeInv'
  <2>1. PICK t : Leaves(t) /\ Quiet(uip, t, c)
    BY <1>2, PeriodicLeaves
  <2> QED
    BY <1>1, <2>1, QuietProper, LeavesType DEF Proper
<1>3. ASSUME NEW p \in toClient, NEW c \in Slots, NEW rtt \in Rtos, ReceiveFound(p, c, rtt)
      PROVE  TypeInv'
  <2>1. PICK t : Leaves(t) /\ Handles(uip, t, c, p)
    BY <1>3, ReceiveFoundLeaves
  <2> QED
    BY <1>1, <2>1, HandlesProper, LeavesType DEF Proper
<1>4. ASSUME NEW p \in toClient, ReceiveStray(p) PROVE TypeInv'
  <2>1. PICK t : Leaves(t) /\ SameTable(uip, t)
    BY <1>4, ReceiveStrayLeaves
  <2> QED
    BY <1>1, <2>1, LeavesType DEF SameTable
<1>5. CASE UNCHANGED vars
  BY <1>5 DEF vars, TypeInv, TypeOK
<1> QED
  BY <1>2, <1>3, <1>4, <1>5, OursType, TheirType DEF Next, WithinBoot, MainLoop

\* Every state is one the C variables can be in and a handler leaves nothing behind, the
\* board's restarts included; the application never closes, so that of uIP's states only
\* CLOSED, SYN_SENT, ESTABLISHED and LAST_ACK are reached.
THEOREM TypeCorrect == Spec => []TypeOK
<1>1. TypeInv => TypeOK
  BY DEF TypeInv
<1> QED
  BY <1>1, InitType, StepType, PTL DEF Spec

----------------------------------------------------------------------------
(* The stream invariant.  Two histories are not kept by the state: `attempt', the attempt *)
(* to connect that a connection of the server's answers, and `choice', the connection     *)
(* that an attempt has joined, 0 if none: a SYN that comes twice after all makes the      *)
(* server accept twice, and only one of the two is joined.                                *)

\* The offset of what we expect next on connection k, when it is joined
High(u, k) == Len(u.received[k]) + 1 + (IF k \in u.ended THEN 1 ELSE 0)

\* The server has accepted k, and the attempt that asked for it has joined it
Known(attempt, choice, k) == k \in 1..accepted /\ choice[attempt[k]] = k

\* An entry of the table.  One that is closed keeps the rcv_nxt of its last connection.
EntryInv(u, conn, attempt, choice) ==
  LET a == conn.snd_nxt[1]
      k == conn.rcv_nxt[1]
  IN  /\ k # 0 => /\ k \in 1..MaxAccepts /\ Known(attempt, choice, k)
                  /\ conn.rcv_nxt[2] <= High(u, k)
      /\ Open(conn) => a < u.iss
      /\ conn.tcpstate = "SYN_SENT" => choice[a] = 0
      /\ Joined(conn) => choice[a] = k /\ attempt[k] = a /\ conn.rcv_nxt[2] = High(u, k)
      /\ conn.tcpstate = "ESTABLISHED" => k \notin u.ended
      /\ conn.tcpstate = "LAST_ACK" => k \in u.ended

\* The table: no attempt that is yet to come has joined anything, and no two entries are of
\* the same attempt
TableInv(u, attempt, choice) ==
  /\ \A a \in Nat : a >= u.iss => choice[a] = 0
  /\ \A c \in Slots : EntryInv(u, u.conns[c], attempt, choice)
  /\ \A c, d \in Slots :
       Open(u.conns[c]) /\ Open(u.conns[d]) /\ u.conns[c].snd_nxt[1] = u.conns[d].snd_nxt[1]
       => c = d

\* What the application has been handed of k is what the server has written
HistoryInv(u, attempt, choice) ==
  \A k \in 1..MaxAccepts :
    /\ Len(u.received[k]) <= written[k]
    /\ k \in u.ended => k \in finished /\ Len(u.received[k]) = written[k]
    /\ High(u, k) > 1 => Known(attempt, choice, k)
    /\ k > accepted => written[k] = 0 /\ k \notin finished

\* The server's end of a connection
PortInv(u, sv, attempt, choice) ==
  LET k == sv.isn
  IN  /\ k \in 1..accepted
      /\ attempt[k] = sv.rcv_nxt[1] /\ sv.rcv_nxt[1] < u.iss /\ sv.rcv_nxt[2] >= 1
      /\ sv.una <= High(u, k) /\ sv.una <= sv.nxt
      /\ sv.state = "SYN_RCVD" => /\ sv.una = 0 /\ sv.nxt = 1 /\ sv.rcv_nxt[2] = 1
                                  /\ written[k] = 0 /\ k \notin finished
      /\ sv.state # "SYN_RCVD" => sv.una >= 1 /\ Known(attempt, choice, k)
      /\ sv.state = "ESTABLISHED" => sv.nxt = written[k] + 1 /\ k \notin finished
      /\ sv.state \in {"FIN_WAIT", "TIME_WAIT"} => sv.nxt = written[k] + 2 /\ k \in finished

\* What the server has received is no more than an entry has sent, and no less than it has
\* been told
Agree(conn, sv) ==
  /\ Open(conn) /\ conn.snd_nxt[1] = sv.rcv_nxt[1] => sv.rcv_nxt[2] <= conn.snd_nxt[2] + conn.len
  /\ Joined(conn) /\ conn.rcv_nxt[1] = sv.isn => conn.snd_nxt[2] <= sv.rcv_nxt[2]

\* No two ports have the same connection
Alone(port) ==
  \A q \in Ports : server[q].state # "LISTEN" /\ server[q].isn = server[port].isn => q = port

ServerInv(u, attempt, choice) ==
  \A port \in Ports :
    server[port].state # "LISTEN" =>
      /\ PortInv(u, server[port], attempt, choice)
      /\ Alone(port)
      /\ \A c \in Slots : Agree(u.conns[c], server[port])

\* A segment on its way to the server: it acknowledges what was received,
Asks(u, p, attempt, choice) ==
  /\ p.seq[1] < u.iss
  /\ "SYN" \in p.flags => p.flags = {"SYN"} /\ p.seq[2] = 0
  /\ "ACK" \in p.flags /\ p.ack[1] # 0 =>
       /\ p.ack[1] \in 1..MaxAccepts /\ Known(attempt, choice, p.ack[1])
       /\ p.ack[2] <= High(u, p.ack[1])

\* and an entry has sent it
Behind(conn, p) ==
  Open(conn) /\ conn.snd_nxt[1] = p.seq[1] => p.seq[2] + Size(p) <= conn.snd_nxt[2] + conn.len

ToServerInv(u, attempt, choice) ==
  \A p \in toServer :
    Ordinary(p) => Asks(u, p, attempt, choice) /\ \A c \in Slots : Behind(u.conns[c], p)

\* A segment on its way to us is of a connection of the server's
Answers(p, attempt, choice) ==
  LET k == p.seq[1]
  IN  /\ k \in 1..accepted /\ p.ack[1] = attempt[k]
      /\ "SYN" \in p.flags => p.flags = {"SYN", "ACK"} /\ p.seq[2] = 0 /\ p.len = 0
      /\ "SYN" \notin p.flags => p.seq[2] >= 1 /\ Known(attempt, choice, k)
      /\ p.len > 0 => p.seq[2] + p.len - 1 <= written[k]
      /\ "FIN" \in p.flags => k \in finished /\ p.seq[2] + p.len - 1 = written[k]
      /\ "URG" \in p.flags => \E u \in UrgentPointers : u > 0

\* and acknowledges what it has received
Acks(sv, p) == sv.state # "LISTEN" /\ sv.isn = p.seq[1] => p.ack[2] <= sv.rcv_nxt[2]

ToClientInv(attempt, choice) ==
  \A p \in toClient :
    Ordinary(p) => Answers(p, attempt, choice) /\ \A port \in Ports : Acks(server[port], p)

StreamInv(u, attempt, choice) ==
  /\ TableInv(u, attempt, choice)
  /\ HistoryInv(u, attempt, choice)
  /\ ServerInv(u, attempt, choice)
  /\ ToServerInv(u, attempt, choice)
  /\ ToClientInv(attempt, choice)

Attempts == [1..MaxAccepts -> Nat]
Choices == [Nat -> Nat]

IInv == TypeInv /\ \E attempt \in Attempts, choice \in Choices : StreamInv(uip, attempt, choice)

\* An offset is a number.
LEMMA HighType ==
  ASSUME NEW u \in UipState, NEW k \in 1..MaxAccepts
  PROVE  High(u, k) \in Nat /\ High(u, k) >= 1
<1>1. Len(u.received[k]) \in Nat
  <2>1. u.received[k] \in Seq(Nat \X Nat)
    BY DEF UipState
  <2> QED
    BY <2>1
<1> DEFINE n == Len(u.received[k])
           m == IF k \in u.ended THEN 1 ELSE 0
<1>2. High(u, k) = n + 1 + m
  BY DEF High
<1>3. n \in Nat /\ m \in {0, 1}
  BY <1>1
<1> HIDE DEF n, m
<1> QED
  BY <1>2, <1>3

\* What becomes of the entry in slot c when it goes on: it is closed, or as far at least as
\* it was; what was handed over grows, for the connection that it has joined only
Progress(s, u, c, conn2) ==
  LET conn == s.conns[c]
  IN  /\ \A k \in 1..MaxAccepts :
           /\ High(s, k) <= High(u, k)
           /\ \/ Joined(conn) /\ k = conn.rcv_nxt[1]
              \/ High(u, k) = High(s, k) /\ (k \in u.ended <=> k \in s.ended)
      /\ Open(conn2) => /\ Open(conn) /\ conn2.snd_nxt[1] = conn.snd_nxt[1]
                        /\ conn.snd_nxt[2] + conn.len <= conn2.snd_nxt[2] + conn2.len

\* The attempt of the entry in slot c may join a connection; the others stay with theirs
Chooses(s, c, attempt, choice, choice2) ==
  /\ \A k \in 1..MaxAccepts : Known(attempt, choice, k) => Known(attempt, choice2, k)
  /\ \A d \in Slots :
       d # c /\ Open(s.conns[d]) => choice2[s.conns[d].snd_nxt[1]] = choice[s.conns[d].snd_nxt[1]]
  /\ \A a \in Nat : a >= s.iss => choice2[a] = choice[a]

\* Whoever has joined the connection that an entry has joined is that entry.
LEMMA JoinedOnce ==
  ASSUME NEW s, NEW attempt, NEW choice, TableInv(s, attempt, choice),
         NEW c \in Slots, NEW d \in Slots, Joined(s.conns[c]), Joined(s.conns[d]),
         s.conns[c].rcv_nxt[1] = s.conns[d].rcv_nxt[1]
  PROVE  c = d
<1>1. s.conns[c].snd_nxt[1] = s.conns[d].snd_nxt[1]
  BY DEF TableInv, EntryInv
<1>2. Open(s.conns[c]) /\ Open(s.conns[d])
  BY DEF Open, Joined
<1> QED
  BY <1>1, <1>2 DEF TableInv

\* An entry that goes on leaves the others and their connections as they were.
LEMMA OthersKept ==
  ASSUME NEW s \in UipState, NEW u \in UipState, NEW c \in Slots, NEW d \in Slots, d # c,
         NEW conn2, NEW attempt \in Attempts, NEW choice \in Choices, NEW choice2 \in Choices,
         \A e \in Slots : Sound(s.conns[e]),
         TableInv(s, attempt, choice), Progress(s, u, c, conn2), u.iss = s.iss,
         Chooses(s, c, attempt, choice, choice2)
  PROVE  EntryInv(u, s.conns[d], attempt, choice2)
<1> DEFINE conn == s.conns[d]
           a == conn.snd_nxt[1]
           k == conn.rcv_nxt[1]
<1>1. Sound(conn) /\ EntryInv(s, conn, attempt, choice)
  BY DEF TableInv
<1>2. k # 0 => /\ k \in 1..MaxAccepts /\ Known(attempt, choice2, k)
               /\ conn.rcv_nxt[2] <= High(u, k)
  <2> SUFFICES ASSUME k # 0
               PROVE  /\ k \in 1..MaxAccepts /\ Known(attempt, choice2, k)
                      /\ conn.rcv_nxt[2] <= High(u, k)
    OBVIOUS
  <2>1. k \in 1..MaxAccepts /\ Known(attempt, choice, k) /\ conn.rcv_nxt[2] <= High(s, k)
    BY <1>1 DEF EntryInv
  <2>2. High(s, k) <= High(u, k) /\ Known(attempt, choice2, k)
    BY <2>1 DEF Progress, Chooses
  <2>3. conn.rcv_nxt[2] \in Nat /\ High(s, k) \in Nat /\ High(u, k) \in Nat
    BY <1>1, <2>1, HighType DEF Sound, Connection, Seqs
  <2> QED
    BY <2>1, <2>2, <2>3
<1>3. Open(conn) => a < u.iss /\ choice2[a] = choice[a]
  BY <1>1 DEF EntryInv, Chooses
<1>4. conn.tcpstate = "SYN_SENT" => choice2[a] = 0
  BY <1>1, <1>3 DEF EntryInv, Open
<1>5. ASSUME Joined(conn)
      PROVE  /\ choice2[a] = k /\ attempt[k] = a /\ conn.rcv_nxt[2] = High(u, k)
             /\ (k \in u.ended <=> k \in s.ended)
  <2>1. k \in 1..MaxAccepts /\ Open(conn)
    BY <1>1, <1>5 DEF Sound, Joined, Open
  <2>2. ~(Joined(s.conns[c]) /\ k = s.conns[c].rcv_nxt[1])
    BY <1>5, JoinedOnce
  <2>3. High(u, k) = High(s, k) /\ (k \in u.ended <=> k \in s.ended)
    BY <2>1, <2>2 DEF Progress
  <2> QED
    BY <1>1, <1>3, <1>5, <2>1, <2>3 DEF EntryInv
<1>6. /\ conn.tcpstate = "ESTABLISHED" => k \notin u.ended
      /\ conn.tcpstate = "LAST_ACK" => k \in u.ended
  BY <1>1, <1>5 DEF EntryInv, Joined
<1> QED
  BY <1>2, <1>3, <1>4, <1>5, <1>6 DEF EntryInv

\* The entry in slot c goes on as conn2, and what holds of it and of what was handed over
Goes(s, u, c, conn2, attempt, choice, choice2) ==
  /\ s \in UipState /\ \A d \in Slots : Sound(s.conns[d])
  /\ Sound(conn2) /\ Entered(s, u, c, conn2)
  /\ Progress(s, u, c, conn2)
  /\ Chooses(s, c, attempt, choice, choice2)
  /\ EntryInv(u, conn2, attempt, choice2)
  /\ HistoryInv(u, attempt, choice2)
  /\ \A port \in Ports :
       /\ server[port].state # "LISTEN"
       /\ Joined(conn2) /\ conn2.rcv_nxt[1] = server[port].isn
       => conn2.snd_nxt[2] <= server[port].rcv_nxt[2]

\* The table,
LEMMA GoesTable ==
  ASSUME NEW s, NEW u, NEW c \in Slots, NEW conn2, NEW attempt \in Attempts,
         NEW choice \in Choices, NEW choice2 \in Choices,
         TableInv(s, attempt, choice), Goes(s, u, c, conn2, attempt, choice, choice2)
  PROVE  TableInv(u, attempt, choice2)
<1>1. /\ s \in UipState /\ u \in UipState /\ u.iss = s.iss
      /\ u.conns = [s.conns EXCEPT ![c] = conn2]
  BY DEF Goes, Entered
<1>2. \A d \in Slots : u.conns[d] = IF d = c THEN conn2 ELSE s.conns[d]
  BY <1>1 DEF UipState
<1>3. \A a \in Nat : a >= u.iss => choice2[a] = 0
  BY <1>1 DEF Goes, Chooses, TableInv
<1>4. ASSUME NEW d \in Slots PROVE EntryInv(u, u.conns[d], attempt, choice2)
  <2>1. CASE d = c
    BY <1>2, <2>1 DEF Goes
  <2>2. CASE d # c
    <3>1. EntryInv(u, s.conns[d], attempt, choice2)
      BY <1>1, <2>2, OthersKept DEF Goes
    <3> QED
      BY <1>2, <2>2, <3>1
  <2> QED
    BY <2>1, <2>2
<1>5. Open(conn2) => Open(s.conns[c]) /\ conn2.snd_nxt[1] = s.conns[c].snd_nxt[1]
  BY DEF Goes, Progress
<1>6. ASSUME NEW d \in Slots, NEW e \in Slots, Open(u.conns[d]), Open(u.conns[e]),
             u.conns[d].snd_nxt[1] = u.conns[e].snd_nxt[1]
      PROVE  d = e
  <2>1. \A f \in Slots : Open(u.conns[f]) =>
          Open(s.conns[f]) /\ u.conns[f].snd_nxt[1] = s.conns[f].snd_nxt[1]
    BY <1>2, <1>5
  <2> QED
    BY <1>6, <2>1 DEF TableInv
<1> QED
  BY <1>3, <1>4, <1>6 DEF TableInv

\* the server's ends,
LEMMA GoesServer ==
  ASSUME TypeInv, NEW s, NEW u, NEW c \in Slots, NEW conn2, NEW attempt \in Attempts,
         NEW choice \in Choices, NEW choice2 \in Choices,
         ServerInv(s, attempt, choice), Goes(s, u, c, conn2, attempt, choice, choice2)
  PROVE  ServerInv(u, attempt, choice2)
<1>1. /\ s \in UipState /\ u \in UipState /\ u.iss = s.iss /\ conn2 \in Connection
      /\ u.conns = [s.conns EXCEPT ![c] = conn2] /\ s.conns[c] \in Connection
  BY DEF Goes, Entered, Sound
<1>2. \A d \in Slots : u.conns[d] = IF d = c THEN conn2 ELSE s.conns[d]
  BY <1>1 DEF UipState
<1> SUFFICES ASSUME NEW port \in Ports, server[port].state # "LISTEN"
             PROVE  /\ PortInv(u, server[port], attempt, choice2) /\ Alone(port)
                    /\ \A d \in Slots : Agree(u.conns[d], server[port])
  BY DEF ServerInv
<1> DEFINE sv == server[port]
           k == sv.isn
<1>3. /\ PortInv(s, sv, attempt, choice) /\ Alone(port)
      /\ \A d \in Slots : Agree(s.conns[d], sv)
  BY DEF ServerInv
<1>4. sv \in ServerConnection /\ k \in 1..MaxAccepts
  BY PortType
<1>5. PortInv(u, sv, attempt, choice2)
  <2>1. Known(attempt, choice, k) => Known(attempt, choice2, k)
    BY <1>4 DEF Goes, Chooses
  <2>2. sv.una <= High(u, k)
    <3>1. sv.una \in Nat /\ High(s, k) \in Nat /\ High(u, k) \in Nat
      BY <1>1, <1>4, HighType DEF ServerConnection
    <3>2. sv.una <= High(s, k) /\ High(s, k) <= High(u, k)
      BY <1>3, <1>4 DEF PortInv, Goes, Progress
    <3> QED
      BY <3>1, <3>2
  <2> QED
    BY <1>1, <1>3, <2>1, <2>2 DEF PortInv
<1>6. Agree(conn2, sv)
  <2>1. ASSUME Open(conn2), conn2.snd_nxt[1] = sv.rcv_nxt[1]
        PROVE  sv.rcv_nxt[2] <= conn2.snd_nxt[2] + conn2.len
    <3> DEFINE conn == s.conns[c]
               m == conn.snd_nxt[2] + conn.len
               n == conn2.snd_nxt[2] + conn2.len
    <3>1. Open(conn) /\ conn.snd_nxt[1] = sv.rcv_nxt[1] /\ m <= n
      BY <2>1 DEF Goes, Progress
    <3>2. sv.rcv_nxt[2] <= m
      BY <1>3, <3>1 DEF Agree
    <3>3. m \in Nat /\ n \in Nat /\ sv.rcv_nxt[2] \in Nat
      BY <1>1, <1>4 DEF Connection, ServerConnection, Seqs
    <3> HIDE DEF m
    <3> QED
      BY <3>1, <3>2, <3>3
  <2> QED
    BY <2>1 DEF Agree, Goes
<1> QED
  BY <1>2, <1>3, <1>5, <1>6

\* and the segments on their way to it are in order when an entry goes on.
LEMMA GoesToServer ==
  ASSUME TypeInv, NEW s, NEW u, NEW c \in Slots, NEW conn2, NEW attempt \in Attempts,
         NEW choice \in Choices, NEW choice2 \in Choices,
         ToServerInv(s, attempt, choice), Goes(s, u, c, conn2, attempt, choice, choice2)
  PROVE  ToServerInv(u, attempt, choice2)
<1>1. /\ s \in UipState /\ u \in UipState /\ u.iss = s.iss /\ conn2 \in Connection
      /\ u.conns = [s.conns EXCEPT ![c] = conn2] /\ s.conns[c] \in Connection
  BY DEF Goes, Entered, Sound
<1>2. \A d \in Slots : u.conns[d] = IF d = c THEN conn2 ELSE s.conns[d]
  BY <1>1 DEF UipState
<1> SUFFICES ASSUME NEW p \in toServer, Ordinary(p)
             PROVE  Asks(u, p, attempt, choice2) /\ \A d \in Slots : Behind(u.conns[d], p)
  BY DEF ToServerInv
<1>3. Asks(s, p, attempt, choice) /\ \A d \in Slots : Behind(s.conns[d], p)
  BY DEF ToServerInv
<1>4. p \in Segments
  BY DEF TypeInv, TypeOK
<1>5. Asks(u, p, attempt, choice2)
  <2>1. ASSUME "ACK" \in p.flags, p.ack[1] # 0
        PROVE  /\ p.ack[1] \in 1..MaxAccepts /\ Known(attempt, choice2, p.ack[1])
               /\ p.ack[2] <= High(u, p.ack[1])
    <3> DEFINE k == p.ack[1]
    <3>1. k \in 1..MaxAccepts /\ Known(attempt, choice, k) /\ p.ack[2] <= High(s, k)
      BY <1>3, <2>1 DEF Asks
    <3>2. Known(attempt, choice2, k) /\ High(s, k) <= High(u, k)
      BY <3>1 DEF Goes, Chooses, Progress
    <3>3. p.ack[2] \in Nat /\ High(s, k) \in Nat /\ High(u, k) \in Nat
      BY <1>1, <1>4, <3>1, HighType DEF Segments, Seqs
    <3> QED
      BY <3>1, <3>2, <3>3
  <2> QED
    BY <1>1, <1>3, <2>1 DEF Asks
<1>6. Behind(conn2, p)
  <2> SUFFICES ASSUME Open(conn2), conn2.snd_nxt[1] = p.seq[1]
               PROVE  p.seq[2] + Size(p) <= conn2.snd_nxt[2] + conn2.len
    BY DEF Behind
  <2> DEFINE conn == s.conns[c]
             l == p.seq[2] + Size(p)
             m == conn.snd_nxt[2] + conn.len
             n == conn2.snd_nxt[2] + conn2.len
  <2>1. Open(conn) /\ conn.snd_nxt[1] = p.seq[1] /\ m <= n
    BY DEF Goes, Progress
  <2>2. l <= m
    BY <1>3, <2>1 DEF Behind
  <2>3. l \in Nat /\ m \in Nat /\ n \in Nat
    BY <1>1, <1>4 DEF Connection, Segments, Seqs, Size
  <2> HIDE DEF l, m, n
  <2>4. l <= n
    BY <2>1, <2>2, <2>3
  <2> QED
    BY <2>4 DEF l, n
<1> QED
  BY <1>2, <1>3, <1>5, <1>6

\* What is on its way to us is not about the entries.
LEMMA GoesToClient ==
  ASSUME TypeInv, NEW s, NEW u, NEW c, NEW conn2, NEW attempt, NEW choice, NEW choice2,
         ToClientInv(attempt, choice), Goes(s, u, c, conn2, attempt, choice, choice2)
  PROVE  ToClientInv(attempt, choice2)
<1>1. ASSUME NEW p \in toClient, Ordinary(p)
      PROVE  Known(attempt, choice, p.seq[1]) => Known(attempt, choice2, p.seq[1])
  BY <1>1 DEF TypeInv, Goes, Chooses
<1> QED
  BY <1>1 DEF ToClientInv, Answers

\* All of it.
LEMMA GoesOn ==
  ASSUME TypeInv, NEW s, NEW u, NEW c \in Slots, NEW conn2, NEW attempt \in Attempts,
         NEW choice \in Choices, NEW choice2 \in Choices,
         StreamInv(s, attempt, choice), Goes(s, u, c, conn2, attempt, choice, choice2)
  PROVE  StreamInv(u, attempt, choice2)
<1>1. TableInv(u, attempt, choice2)
  BY GoesTable DEF StreamInv
<1>2. ServerInv(u, attempt, choice2)
  BY GoesServer DEF StreamInv
<1>3. ToServerInv(u, attempt, choice2)
  BY GoesToServer DEF StreamInv
<1>4. ToClientInv(attempt, choice2)
  BY GoesToClient DEF StreamInv
<1> QED
  BY <1>1, <1>2, <1>3, <1>4 DEF StreamInv, Goes

\* When nothing is handed over, what was is as it was.
LEMMA SameHigh ==
  ASSUME NEW s \in UipState, NEW u \in UipState, SameHistory(s, u), NEW attempt, NEW choice,
         HistoryInv(s, attempt, choice)
  PROVE  /\ \A k \in 1..MaxAccepts : High(u, k) = High(s, k) /\ (k \in u.ended <=> k \in s.ended)
         /\ HistoryInv(u, attempt, choice)
BY DEF SameHistory, High, HistoryInv

\* A handler that is quiet keeps the stream,
LEMMA QuietGoes ==
  ASSUME TypeInv, NEW s \in UipState, \A d \in Slots : Sound(s.conns[d]), NEW t,
         NEW c \in Slots, NEW attempt \in Attempts, NEW choice \in Choices,
         StreamInv(s, attempt, choice), Quiet(s, t, c)
  PROVE  /\ StreamInv(t, attempt, choice)
         /\ t \in UipState /\ (OnlyResets(t.out) \/ Says(t.conns[c], t.out))
<1> DEFINE conn == s.conns[c]
<1>1. PICK conn2 : /\ Sound(conn2) /\ t.conns = [s.conns EXCEPT ![c] = conn2]
                   /\ \/ Closes(conn, conn2) /\ OnlyResets(t.out)
                      \/ Stays(conn, conn2) /\ Says(conn2, t.out)
  BY DEF Quiet
<1>2. t \in UipState /\ SameHistory(s, t) /\ t.iss = s.iss
  BY DEF Quiet
<1>3. t.conns[c] = conn2
  BY <1>1 DEF UipState
<1>4. /\ \A k \in 1..MaxAccepts : High(t, k) = High(s, k) /\ (k \in t.ended <=> k \in s.ended)
      /\ HistoryInv(t, attempt, choice)
  BY <1>2, SameHigh DEF StreamInv
<1>5. Sound(conn) /\ EntryInv(s, conn, attempt, choice)
  BY DEF StreamInv, TableInv
<1>6. conn2.rcv_nxt = conn.rcv_nxt
      /\ (Open(conn2) => conn2.tcpstate = conn.tcpstate /\ conn2.snd_nxt = conn.snd_nxt
                         /\ conn.len <= conn2.len)
  BY <1>1, <1>5 DEF Closes, Stays, Sound, Connection
<1>7. Progress(s, t, c, conn2)
  <2>1. ASSUME Open(conn2)
        PROVE  /\ Open(conn) /\ conn2.snd_nxt[1] = conn.snd_nxt[1]
               /\ conn.snd_nxt[2] + conn.len <= conn2.snd_nxt[2] + conn2.len
    <3>1. conn.snd_nxt[2] \in Nat /\ conn.len \in Nat /\ conn2.len \in Nat
      BY <1>1, <1>5 DEF Sound, Connection, Seqs
    <3> QED
      BY <1>6, <2>1, <3>1 DEF Open
  <2>2. \A k \in 1..MaxAccepts : High(s, k) <= High(t, k)
    BY <1>4, HighType
  <2> QED
    BY <1>4, <2>1, <2>2 DEF Progress
<1>8. EntryInv(t, conn2, attempt, choice)
  <2> DEFINE k == conn.rcv_nxt[1]
  <2>1. k # 0 => /\ k \in 1..MaxAccepts /\ Known(attempt, choice, k)
                 /\ conn.rcv_nxt[2] <= High(t, k)
    BY <1>4, <1>5 DEF EntryInv
  <2>2. Joined(conn) => k \in 1..MaxAccepts
    BY <1>5 DEF Sound
  <2>3. Joined(conn) => High(t, k) = High(s, k) /\ (k \in t.ended <=> k \in s.ended)
    BY <1>4, <2>2
  <2>4. CASE ~Open(conn2)
    BY <1>6, <2>1, <2>4 DEF EntryInv, Open, Joined
  <2>5. CASE Open(conn2)
    BY <1>2, <1>5, <1>6, <2>1, <2>3, <2>5 DEF EntryInv, Open, Joined
  <2> QED
    BY <2>4, <2>5
<1>9. \A port \in Ports :
        /\ server[port].state # "LISTEN"
        /\ Joined(conn2) /\ conn2.rcv_nxt[1] = server[port].isn
        => conn2.snd_nxt[2] <= server[port].rcv_nxt[2]
  BY <1>6 DEF StreamInv, ServerInv, Agree, Joined, Open
<1>10. Goes(s, t, c, conn2, attempt, choice, choice)
  BY <1>1, <1>2, <1>4, <1>7, <1>8, <1>9 DEF Goes, Entered, Chooses
<1> QED
  BY <1>1, <1>2, <1>3, <1>10, GoesOn

\* and so does the end of an entry whose connection the application knows has ended.
LEMMA ReportsQuiet ==
  ASSUME NEW s \in UipState, NEW t, NEW c \in Slots, NEW attempt, NEW choice,
         TableInv(s, attempt, choice), Reports(s, t, c)
  PROVE  Quiet(s, t, c)
<1>1. s.conns[c].rcv_nxt[1] \in s.ended
  BY DEF Reports, TableInv, EntryInv
<1>2. PICK conn2 : Sound(conn2) /\ Closes(s.conns[c], conn2) /\ Entered(s, t, c, conn2)
  BY DEF Reports
<1>3. /\ Left(t) /\ t.out = {}
      /\ t.received = s.received /\ t.ended = s.ended \cup {s.conns[c].rcv_nxt[1]}
  BY DEF Reports
<1>4. t.ended = s.ended
  BY <1>1, <1>3
<1> QED
  BY <1>2, <1>3, <1>4 DEF Quiet, Entered, SameHistory, OnlyResets

\* A segment that acknowledges what an established entry has outstanding is of the
\* connection that the entry has joined, and says what the server has received.
LEMMA AcknowledgedByServer ==
  ASSUME TypeInv, NEW s \in UipState, NEW c \in Slots, Sound(s.conns[c]),
         NEW attempt \in Attempts, NEW choice \in Choices, StreamInv(s, attempt, choice),
         NEW p \in toClient, Ordinary(p), s.conns[c].tcpstate = "ESTABLISHED",
         ~OutOfOrder(s.conns[c], p), Acknowledges(s.conns[c], p)
  PROVE  /\ p.ack[1] = s.conns[c].snd_nxt[1]
         /\ p.ack[2] = s.conns[c].snd_nxt[2] + s.conns[c].len
         /\ \A port \in Ports :
              server[port].state # "LISTEN" /\ server[port].isn = s.conns[c].rcv_nxt[1]
              => p.ack[2] <= server[port].rcv_nxt[2]
<1> DEFINE conn == s.conns[c]
           a == conn.snd_nxt[1]
           k == conn.rcv_nxt[1]
<1>1. conn \in Connection /\ p \in Segments
  BY DEF Sound, TypeInv, TypeOK
<1>2. p.ack[1] = a /\ p.ack[2] = conn.snd_nxt[2] + conn.len
  BY <1>1 DEF Acknowledges, uip_add32
<1>3. /\ EntryInv(s, conn, attempt, choice) /\ Answers(p, attempt, choice)
      /\ \A port \in Ports : Acks(server[port], p)
  BY DEF StreamInv, TableInv, ToClientInv
<1>4. k \in 1..MaxAccepts /\ choice[a] = k /\ conn.rcv_nxt[2] = High(s, k)
  BY <1>3 DEF EntryInv, Joined, Sound
<1>5. "SYN" \notin p.flags
  <2> SUFFICES ASSUME "SYN" \in p.flags PROVE FALSE
    OBVIOUS
  <2>1. p.seq[2] = 0
    BY <1>3 DEF Answers
  <2>2. p.seq = conn.rcv_nxt
    BY DEF OutOfOrder
  <2>3. High(s, k) >= 1 /\ High(s, k) \in Nat
    BY <1>4, HighType
  <2> QED
    BY <1>4, <2>1, <2>2, <2>3
<1>6. choice[attempt[p.seq[1]]] = p.seq[1] /\ attempt[p.seq[1]] = a
  BY <1>2, <1>3, <1>5 DEF Answers, Known
<1>7. p.seq[1] = k
  BY <1>4, <1>6
<1> QED
  BY <1>2, <1>3, <1>7 DEF Acks

\* n more units have been handed over, on connection k
Extended(s, u, k, n) ==
  /\ Len(u.received[k]) = Len(s.received[k]) + n
  /\ \A j \in 1..MaxAccepts : j # k => u.received[j] = s.received[j]

\* They are, when data is appended.
LEMMA AppendedExtends ==
  ASSUME NEW s \in UipState, NEW u, NEW k \in 1..MaxAccepts, NEW data \in Seq(Nat \X Nat),
         u.received = Appended(s, k, data)
  PROVE  Extended(s, u, k, Len(data))
<1>1. s.received \in [1..MaxAccepts -> Seq(Nat \X Nat)] /\ s.received[k] \in Seq(Nat \X Nat)
  BY DEF UipState
<1>2. u.received[k] = s.received[k] \o data
        /\ \A j \in 1..MaxAccepts : j # k => u.received[j] = s.received[j]
  BY <1>1 DEF Appended
<1>3. Len(s.received[k] \o data) = Len(s.received[k]) + Len(data)
  BY <1>1, ConcatProperties
<1> QED
  BY <1>2, <1>3 DEF Extended

\* The entry receives n units of connection k, and its end if the server has closed it
Receives(s, u, k, n) ==
  /\ k \in 1..MaxAccepts /\ k \notin s.ended /\ n \in Nat
  /\ Len(u.received[k]) = Len(s.received[k]) + n
  /\ Len(u.received[k]) <= written[k]
  /\ \A j \in 1..MaxAccepts : j # k => u.received[j] = s.received[j]
  /\ \/ u.ended = s.ended
     \/ u.ended = s.ended \cup {k} /\ k \in finished /\ Len(u.received[k]) = written[k]

\* moves the offset of what is expected next.
LEMMA ReceivesHigh ==
  ASSUME NEW s \in UipState, NEW u \in UipState, NEW k, NEW n, Receives(s, u, k, n),
         NEW attempt, NEW choice, HistoryInv(s, attempt, choice), Known(attempt, choice, k)
  PROVE  /\ High(s, k) = Len(s.received[k]) + 1
         /\ High(u, k) = High(s, k) + n + (IF u.ended = s.ended THEN 0 ELSE 1)
         /\ \A j \in 1..MaxAccepts :
              j # k => High(u, j) = High(s, j) /\ (j \in u.ended <=> j \in s.ended)
         /\ HistoryInv(u, attempt, choice)
<1>1. /\ Len(s.received[k]) \in Nat /\ Len(u.received[k]) \in Nat
      /\ k \in 1..MaxAccepts /\ k \notin s.ended /\ n \in Nat
  <2>1. s.received[k] \in Seq(Nat \X Nat) /\ u.received[k] \in Seq(Nat \X Nat)
    BY DEF Receives, UipState
  <2> QED
    BY <2>1 DEF Receives
<1>2. High(s, k) = Len(s.received[k]) + 1
  BY <1>1 DEF High
<1>3. High(u, k) = High(s, k) + n + (IF u.ended = s.ended THEN 0 ELSE 1)
  <2>1. Len(u.received[k]) = Len(s.received[k]) + n
    BY DEF Receives
  <2>2. CASE u.ended = s.ended
    BY <1>1, <1>2, <2>1, <2>2 DEF High
  <2>3. CASE u.ended # s.ended
    <3>1. k \in u.ended
      BY <2>3 DEF Receives
    <3> QED
      BY <1>1, <1>2, <2>1, <2>3, <3>1 DEF High
  <2> QED
    BY <2>2, <2>3
<1>4. ASSUME NEW j \in 1..MaxAccepts, j # k
      PROVE  High(u, j) = High(s, j) /\ (j \in u.ended <=> j \in s.ended)
  BY <1>4 DEF Receives, High
<1>5. ASSUME NEW j \in 1..MaxAccepts
      PROVE  /\ Len(u.received[j]) <= written[j]
             /\ j \in u.ended => j \in finished /\ Len(u.received[j]) = written[j]
             /\ High(u, j) > 1 => Known(attempt, choice, j)
             /\ j > accepted => written[j] = 0 /\ j \notin finished
  <2>1. CASE j # k
    BY <1>4, <2>1 DEF Receives, HistoryInv
  <2>2. CASE j = k
    <3>1. k \in u.ended => k \in finished /\ Len(u.received[k]) = written[k]
      BY <1>1 DEF Receives
    <3> QED
      BY <1>1, <2>2, <3>1 DEF Receives, HistoryInv
  <2> QED
    BY <2>1, <2>2
<1>6. HistoryInv(u, attempt, choice)
  BY <1>5 DEF HistoryInv
<1> QED
  BY <1>2, <1>3, <1>4, <1>6

\* What an established entry has sent, when p has arrived, no less than before, and no more
\* than what the server has received of it
Sent(s, c, conn2) ==
  LET conn == s.conns[c]
  IN  /\ conn2.snd_nxt[1] = conn.snd_nxt[1]
      /\ conn.snd_nxt[2] + conn.len <= conn2.snd_nxt[2] + conn2.len
      /\ \A port \in Ports :
           server[port].state # "LISTEN" /\ server[port].isn = conn.rcv_nxt[1]
           => conn2.snd_nxt[2] <= server[port].rcv_nxt[2]

\* An entry that receives, and is acknowledged, goes on.
LEMMA ReceivesGoes ==
  ASSUME TypeInv, NEW s \in UipState, \A d \in Slots : Sound(s.conns[d]), NEW u,
         NEW c \in Slots, NEW attempt \in Attempts, NEW choice \in Choices,
         StreamInv(s, attempt, choice), s.conns[c].tcpstate = "ESTABLISHED",
         NEW n, Receives(s, u, s.conns[c].rcv_nxt[1], n),
         NEW conn2, Sound(conn2), Entered(s, u, c, conn2), Sent(s, c, conn2),
         conn2.tcpstate = IF u.ended = s.ended THEN "ESTABLISHED" ELSE "LAST_ACK",
         conn2.rcv_nxt[1] = s.conns[c].rcv_nxt[1],
         conn2.rcv_nxt[2] = s.conns[c].rcv_nxt[2] + n + (IF u.ended = s.ended THEN 0 ELSE 1)
  PROVE  StreamInv(u, attempt, choice)
<1> DEFINE conn == s.conns[c]
           a == conn.snd_nxt[1]
           k == conn.rcv_nxt[1]
           more == IF u.ended = s.ended THEN 0 ELSE 1
<1>1. EntryInv(s, conn, attempt, choice) /\ HistoryInv(s, attempt, choice) /\ u \in UipState
      /\ u.iss = s.iss
  BY DEF StreamInv, TableInv, Entered
<1>2. /\ k \in 1..MaxAccepts /\ k # 0 /\ Known(attempt, choice, k) /\ choice[a] = k
      /\ attempt[k] = a /\ conn.rcv_nxt[2] = High(s, k) /\ Joined(conn) /\ Open(conn)
      /\ a < s.iss
  <2>1. Joined(conn) /\ Open(conn)
    BY DEF Joined, Open
  <2>2. k \in 1..MaxAccepts /\ k # 0
    BY DEF Receives
  <2> QED
    BY <1>1, <2>1, <2>2 DEF EntryInv
<1>3. /\ High(u, k) = High(s, k) + n + more
      /\ \A j \in 1..MaxAccepts :
              j # k => High(u, j) = High(s, j) /\ (j \in u.ended <=> j \in s.ended)
      /\ HistoryInv(u, attempt, choice)
  BY <1>1, <1>2, ReceivesHigh
<1>4. n \in Nat /\ more \in {0, 1} /\ High(s, k) \in Nat /\ High(u, k) \in Nat
  BY <1>1, <1>2, HighType DEF Receives
<1>5. conn2.rcv_nxt[2] = High(u, k) /\ High(s, k) <= High(u, k)
  <2>1. conn2.rcv_nxt[2] = conn.rcv_nxt[2] + n + more
    OBVIOUS
  <2> HIDE DEF more
  <2> QED
    BY <1>2, <1>3, <1>4, <2>1
<1>6. Progress(s, u, c, conn2)
  <2>1. \A j \in 1..MaxAccepts : High(s, j) <= High(u, j)
    BY <1>1, <1>3, <1>5, HighType
  <2>2. \A j \in 1..MaxAccepts :
          \/ Joined(conn) /\ j = k
          \/ High(u, j) = High(s, j) /\ (j \in u.ended <=> j \in s.ended)
    BY <1>2, <1>3
  <2>3. /\ Open(conn) /\ conn2.snd_nxt[1] = a
        /\ conn.snd_nxt[2] + conn.len <= conn2.snd_nxt[2] + conn2.len
    BY <1>2 DEF Sent
  <2> QED
    BY <2>1, <2>2, <2>3 DEF Progress
<1>7. EntryInv(u, conn2, attempt, choice)
  <2>1. Joined(conn2) /\ conn2.rcv_nxt[1] = k /\ conn2.snd_nxt[1] = a
    BY DEF Joined, Sent
  <2>2. conn2.tcpstate = "ESTABLISHED" => k \notin u.ended
    BY DEF Receives
  <2>3. conn2.tcpstate = "LAST_ACK" => k \in u.ended
    BY DEF Receives
  <2>4. conn2.tcpstate # "SYN_SENT"
    OBVIOUS
  <2>5. conn2.rcv_nxt[2] <= High(u, k)
    BY <1>4, <1>5
  <2> HIDE DEF a, k
  <2> QED
    BY <1>1, <1>2, <1>5, <2>1, <2>2, <2>3, <2>4, <2>5 DEF EntryInv
<1>8. \A port \in Ports :
        /\ server[port].state # "LISTEN"
        /\ Joined(conn2) /\ conn2.rcv_nxt[1] = server[port].isn
        => conn2.snd_nxt[2] <= server[port].rcv_nxt[2]
  BY DEF Sent
<1>9. Goes(s, u, c, conn2, attempt, choice, choice)
  BY <1>3, <1>6, <1>7, <1>8 DEF Goes, Chooses
<1> QED
  BY <1>9, GoesOn

\* So does one that is acknowledged, or has sent what it had sent.
LEMMA SentBy ==
  ASSUME TypeInv, NEW s \in UipState, NEW c \in Slots, Sound(s.conns[c]),
         NEW attempt \in Attempts, NEW choice \in Choices, StreamInv(s, attempt, choice),
         NEW p \in toClient, Ordinary(p), s.conns[c].tcpstate = "ESTABLISHED",
         ~OutOfOrder(s.conns[c], p), NEW conn2, Sound(conn2),
         \/ conn2.snd_nxt = s.conns[c].snd_nxt /\ s.conns[c].len <= conn2.len
         \/ Acknowledges(s.conns[c], p) /\ conn2.snd_nxt = p.ack
  PROVE  Sent(s, c, conn2)
<1> DEFINE conn == s.conns[c]
<1>1. /\ conn.snd_nxt[2] \in Nat /\ conn.len \in Nat /\ conn2.len \in Nat
      /\ conn2.snd_nxt[2] \in Nat
  BY DEF Sound, Connection, Seqs
<1>2. CASE conn2.snd_nxt = conn.snd_nxt /\ conn.len <= conn2.len
  <2>1. conn.snd_nxt[2] + conn.len <= conn2.snd_nxt[2] + conn2.len
    BY <1>1, <1>2
  <2>2. \A port \in Ports : server[port].state # "LISTEN" => Agree(conn, server[port])
    BY DEF StreamInv, ServerInv
  <2>3. Joined(conn)
    BY DEF Joined
  <2> QED
    BY <1>2, <2>1, <2>2, <2>3 DEF Sent, Agree
<1>3. CASE Acknowledges(conn, p) /\ conn2.snd_nxt = p.ack
  <2>1. /\ p.ack[1] = conn.snd_nxt[1] /\ p.ack[2] = conn.snd_nxt[2] + conn.len
        /\ \A port \in Ports :
             server[port].state # "LISTEN" /\ server[port].isn = conn.rcv_nxt[1]
             => p.ack[2] <= server[port].rcv_nxt[2]
    BY <1>3, AcknowledgedByServer
  <2>2. conn.snd_nxt[2] + conn.len <= conn2.snd_nxt[2] + conn2.len
    BY <1>1, <1>3, <2>1
  <2> QED
    BY <1>3, <2>1, <2>2 DEF Sent
<1> QED
  BY <1>2, <1>3

\* A segment in order carries what the server has written next.
LEMMA InOrder ==
  ASSUME TypeInv, NEW s \in UipState, NEW c \in Slots, Sound(s.conns[c]),
         NEW attempt, NEW choice, StreamInv(s, attempt, choice),
         NEW p \in toClient, Ordinary(p), s.conns[c].tcpstate = "ESTABLISHED",
         p.seq = s.conns[c].rcv_nxt
  PROVE  LET k == s.conns[c].rcv_nxt[1]
         IN  /\ k \in 1..MaxAccepts /\ k \notin s.ended
             /\ p.seq = <<k, Len(s.received[k]) + 1>> /\ Len(s.received[k]) \in Nat
             /\ written[k] \in Nat
             /\ Len(s.received[k]) + p.len <= written[k]
             /\ "FIN" \in p.flags => /\ k \in finished /\ Len(s.received[k]) + p.len = written[k]
                                     /\ "SYN" \notin p.flags
<1> DEFINE conn == s.conns[c]
           k == conn.rcv_nxt[1]
           n == Len(s.received[k])
<1>1. p \in Segments /\ p.len \in Nat /\ p.seq \in Nat \X Nat
  BY DEF TypeInv, TypeOK, Segments, Seqs
<1>2. /\ EntryInv(s, conn, attempt, choice) /\ Answers(p, attempt, choice)
      /\ HistoryInv(s, attempt, choice)
  BY DEF StreamInv, TableInv, ToClientInv
<1>3. k \in 1..MaxAccepts /\ k \notin s.ended /\ conn.rcv_nxt[2] = High(s, k)
  BY <1>2 DEF EntryInv, Joined, Sound
<1>4. n \in Nat /\ n <= written[k] /\ written[k] \in Nat
  <2>1. s.received[k] \in Seq(Nat \X Nat)
    BY <1>3 DEF UipState
  <2>2. n <= written[k]
    BY <1>2, <1>3 DEF HistoryInv
  <2>3. written[k] \in Nat
    BY <1>3, ConstantsAssumption DEF TypeInv, TypeOK
  <2>4. n \in Nat
    BY <2>1, LengthType
  <2> QED
    BY <2>2, <2>3, <2>4
<1>5. High(s, k) = n + 1
  BY <1>3, <1>4 DEF High
<1>6. p.seq = <<k, n + 1>>
  <2>1. p.seq[1] = k /\ p.seq[2] = n + 1
    BY <1>3, <1>5
  <2> QED
    BY <1>1, <2>1
<1>7. n + p.len <= written[k]
  <2>1. p.seq[1] = k /\ p.seq[2] = n + 1
    BY <1>6
  <2>2. CASE p.len > 0
    <3>1. n + 1 + p.len - 1 <= written[k]
      BY <1>2, <2>1, <2>2 DEF Answers
    <3> HIDE DEF k, n
    <3> QED
      BY <1>1, <1>4, <3>1
  <2>3. CASE ~(p.len > 0)
    <3> HIDE DEF k, n
    <3> QED
      BY <1>1, <1>4, <2>3
  <2> QED
    BY <2>2, <2>3
<1>8. "FIN" \in p.flags => k \in finished /\ n + p.len = written[k] /\ "SYN" \notin p.flags
  <2> SUFFICES ASSUME "FIN" \in p.flags
               PROVE  k \in finished /\ n + p.len = written[k] /\ "SYN" \notin p.flags
    OBVIOUS
  <2>1. p.seq[1] = k /\ p.seq[2] = n + 1
    BY <1>6
  <2>2. k \in finished /\ n + 1 + p.len - 1 = written[k]
    BY <1>2, <2>1 DEF Answers
  <2>3. "SYN" \notin p.flags
    BY <1>2 DEF Answers
  <2> HIDE DEF k, n
  <2> QED
    BY <1>1, <1>4, <2>2, <2>3
<1> QED
  BY <1>3, <1>4, <1>6, <1>7, <1>8

\* An established entry that moves keeps the stream.
LEMMA MovesStream ==
  ASSUME TypeInv, NEW s \in UipState, \A d \in Slots : Sound(s.conns[d]), NEW u,
         NEW c \in Slots, NEW attempt \in Attempts, NEW choice \in Choices,
         StreamInv(s, attempt, choice), NEW p \in toClient, Ordinary(p), Moves(s, u, c, p)
  PROVE  StreamInv(u, attempt, choice)
<1> DEFINE conn == s.conns[c]
           k == conn.rcv_nxt[1]
           m == Len(AppData(p))
           Took(conn2) == /\ p.seq = conn.rcv_nxt
                          /\ conn2.rcv_nxt = uip_add32(conn.rcv_nxt, m)
                          /\ u.received = Appended(s, k, AppData(p))
<1>1. /\ conn.tcpstate = "ESTABLISHED" /\ ~OutOfOrder(conn, p) /\ u.ended = s.ended
      /\ Sound(conn)
  BY DEF Moves
<1>2. PICK conn2 :
        /\ Sound(conn2) /\ Entered(s, u, c, conn2)
        /\ conn2.tcpstate = "ESTABLISHED"
        /\ \/ conn2.snd_nxt = conn.snd_nxt /\ conn2.len = conn.len
           \/ Acknowledges(conn, p) /\ conn2.snd_nxt = p.ack /\ conn2.len = 0
        /\ \/ conn2.rcv_nxt = conn.rcv_nxt /\ u.received = s.received
           \/ Took(conn2)
  BY DEF Moves
<1>3. Sent(s, c, conn2)
  <2>1. conn.len <= conn.len
    BY <1>1 DEF Sound, Connection
  <2>2. \/ conn2.snd_nxt = conn.snd_nxt /\ conn.len <= conn2.len
        \/ Acknowledges(conn, p) /\ conn2.snd_nxt = p.ack
    BY <1>2, <2>1
  <2> QED
    BY <1>1, <1>2, <2>2, SentBy
<1>4. k \in 1..MaxAccepts /\ k \notin s.ended /\ HistoryInv(s, attempt, choice)
      /\ conn.rcv_nxt \in Nat \X Nat
  BY <1>1 DEF StreamInv, TableInv, EntryInv, Joined, Sound, Connection, Seqs
<1>5. CASE conn2.rcv_nxt = conn.rcv_nxt /\ u.received = s.received
  <2>1. Receives(s, u, k, 0)
    <3>1. s.received[k] \in Seq(Nat \X Nat)
      BY <1>4 DEF UipState
    <3> QED
      BY <1>1, <1>4, <1>5, <3>1 DEF Receives, HistoryInv
  <2>2. conn2.rcv_nxt[2] = conn.rcv_nxt[2] + 0 + 0
    BY <1>4, <1>5
  <2> QED
    BY <1>1, <1>2, <1>3, <1>5, <2>1, <2>2, ReceivesGoes
<1>6. CASE Took(conn2)
  <2>1. p \in Segments
    BY DEF TypeInv, TypeOK
  <2>2. AppData(p) \in Seq(Nat \X Nat) /\ m \in Nat /\ m <= p.len /\ p.len \in Nat
    <3>1. /\ AppData(p) \in Seq(Nat \X Nat) /\ m = p.len - UrgentLength(p)
          /\ UrgentLength(p) \in 0..p.len
      BY <2>1, DataType
    <3>2. p.len \in Nat
      BY <2>1 DEF Segments
    <3> HIDE DEF m
    <3> QED
      BY <3>1, <3>2
  <2>3. /\ written[k] \in Nat /\ Len(s.received[k]) \in Nat
        /\ Len(s.received[k]) + p.len <= written[k]
    BY <1>1, <1>6, InOrder
  <2>4. /\ Len(u.received[k]) = Len(s.received[k]) + m
        /\ \A j \in 1..MaxAccepts : j # k => u.received[j] = s.received[j]
    <3> DEFINE data == AppData(p)
    <3>1. data \in Seq(Nat \X Nat) /\ u.received = Appended(s, k, data) /\ k \in 1..MaxAccepts
      BY <1>4, <1>6, <2>2
    <3> HIDE DEF data, k
    <3>2. Extended(s, u, k, Len(data))
      BY <3>1, AppendedExtends
    <3> QED
      BY <3>2 DEF data, Extended
  <2>5. Len(u.received[k]) <= written[k]
    <3> HIDE DEF m, k
    <3> QED
      BY <2>2, <2>3, <2>4
  <2>6. Receives(s, u, k, m)
    BY <1>1, <1>4, <2>2, <2>4, <2>5 DEF Receives
  <2>7. conn2.rcv_nxt[1] = k /\ conn2.rcv_nxt[2] = conn.rcv_nxt[2] + m + 0
    BY <1>4, <1>6, <2>2 DEF uip_add32
  <2> HIDE DEF m
  <2> QED
    BY <1>1, <1>2, <1>3, <2>6, <2>7, ReceivesGoes
<1> QED
  BY <1>2, <1>5, <1>6

\* So does one that the server closes.
LEMMA EndsStream ==
  ASSUME TypeInv, NEW s \in UipState, \A d \in Slots : Sound(s.conns[d]), NEW u,
         NEW c \in Slots, NEW attempt \in Attempts, NEW choice \in Choices,
         StreamInv(s, attempt, choice), NEW p \in toClient, Ordinary(p), Ends(s, u, c, p)
  PROVE  StreamInv(u, attempt, choice)
<1> DEFINE conn == s.conns[c]
           k == conn.rcv_nxt[1]
           data == DataOf(p)
<1>1. /\ conn.tcpstate = "ESTABLISHED" /\ ~OutOfOrder(conn, p) /\ Sound(conn)
      /\ "FIN" \in p.flags /\ p.seq = conn.rcv_nxt
      /\ u.ended = s.ended \cup {k} /\ u.received = Appended(s, k, data)
  BY DEF Ends
<1>2. PICK conn2 :
        /\ Sound(conn2) /\ Entered(s, u, c, conn2)
        /\ conn2.tcpstate = "LAST_ACK" /\ conn2.len = 1
        /\ \/ conn.len = 0 /\ conn2.snd_nxt = conn.snd_nxt
           \/ Acknowledges(conn, p) /\ conn2.snd_nxt = p.ack
        /\ conn2.rcv_nxt = uip_add32(conn.rcv_nxt, p.len + 1)
  BY DEF Ends
<1>3. Sent(s, c, conn2)
  <2>1. conn.len = 0 => conn.len <= conn2.len
    BY <1>2
  <2>2. \/ conn2.snd_nxt = conn.snd_nxt /\ conn.len <= conn2.len
        \/ Acknowledges(conn, p) /\ conn2.snd_nxt = p.ack
    BY <1>2, <2>1
  <2> QED
    BY <1>1, <1>2, <2>2, SentBy
<1>4. p \in Segments /\ p.len \in Nat /\ conn.rcv_nxt \in Nat \X Nat
      /\ data \in Seq(Nat \X Nat) /\ Len(data) = p.len
  BY <1>1, DataType DEF TypeInv, TypeOK, Segments, Sound, Connection, Seqs
<1>5. /\ k \in 1..MaxAccepts /\ k \notin s.ended /\ k \in finished
      /\ Len(s.received[k]) \in Nat /\ written[k] \in Nat
      /\ Len(s.received[k]) + p.len = written[k]
  <2> HIDE DEF data
  <2> QED
    BY <1>1, InOrder
<1>6. /\ Len(u.received[k]) = Len(s.received[k]) + Len(data)
      /\ \A j \in 1..MaxAccepts : j # k => u.received[j] = s.received[j]
  <2>1. data \in Seq(Nat \X Nat) /\ u.received = Appended(s, k, data) /\ k \in 1..MaxAccepts
    BY <1>1, <1>4, <1>5
  <2> HIDE DEF data, k
  <2>2. Extended(s, u, k, Len(data))
    BY <2>1, AppendedExtends
  <2> QED
    BY <2>2 DEF Extended
<1>7. Receives(s, u, k, p.len)
  <2> DEFINE n == Len(u.received[k])
  <2>1. n = Len(s.received[k]) + p.len
    BY <1>4, <1>6
  <2>2. n = written[k]
    BY <1>5, <2>1
  <2>3. n <= written[k]
    BY <1>5, <2>2
  <2> HIDE DEF n, k, data
  <2> QED
    BY <1>1, <1>4, <1>5, <1>6, <2>1, <2>2, <2>3 DEF Receives, n
<1>8. u.ended # s.ended
  BY <1>1, <1>5
<1>9. conn2.rcv_nxt[1] = k /\ conn2.rcv_nxt[2] = conn.rcv_nxt[2] + p.len + 1
  BY <1>2, <1>4 DEF uip_add32
<1> QED
  BY <1>1, <1>2, <1>3, <1>7, <1>8, <1>9, ReceivesGoes

\* The choices when attempt a joins connection k
Joining(choice, a, k) == [choice EXCEPT ![a] = k]

\* An attempt that is joined has joined nothing before, and what it joins is new to us.
LEMMA JoinsStream ==
  ASSUME TypeInv, NEW s \in UipState, \A d \in Slots : Sound(s.conns[d]), NEW u,
         NEW c \in Slots, NEW attempt \in Attempts, NEW choice \in Choices,
         StreamInv(s, attempt, choice), NEW p \in toClient, Ordinary(p), Joins(s, u, c, p)
  PROVE  LET choice2 == Joining(choice, s.conns[c].snd_nxt[1], p.seq[1])
         IN  choice2 \in Choices /\ StreamInv(u, attempt, choice2)
<1> DEFINE conn == s.conns[c]
           a == conn.snd_nxt[1]
           k == p.seq[1]
           choice2 == Joining(choice, a, k)
<1>1. /\ conn.tcpstate = "SYN_SENT" /\ p.flags = {"SYN", "ACK"} /\ Acknowledges(conn, p)
      /\ SameHistory(s, u) /\ Sound(conn)
  BY DEF Joins
<1>2. PICK conn2 : /\ Sound(conn2) /\ Entered(s, u, c, conn2)
                   /\ conn2.tcpstate = "ESTABLISHED" /\ conn2.snd_nxt = p.ack
                   /\ conn2.len = 0 /\ conn2.rcv_nxt = uip_add32(p.seq, 1)
  BY DEF Joins
<1>3. /\ EntryInv(s, conn, attempt, choice) /\ Answers(p, attempt, choice)
      /\ HistoryInv(s, attempt, choice) /\ TableInv(s, attempt, choice)
  BY DEF StreamInv, TableInv, ToClientInv
<1>4. /\ p \in Segments /\ conn \in Connection /\ conn.len = 1 /\ conn.snd_nxt[2] = 0
      /\ Open(conn) /\ a \in Nat /\ p.seq \in Nat \X Nat /\ k \in Nat
  BY <1>1 DEF TypeInv, TypeOK, Sound, Connection, Segments, Seqs, Open
<1>5. p.ack[1] = a /\ p.ack[2] = 1
  BY <1>1, <1>4 DEF Acknowledges, uip_add32
<1>6. p.seq[2] = 0 /\ k \in 1..accepted /\ attempt[k] = a /\ choice[a] = 0 /\ a < s.iss
  BY <1>1, <1>3, <1>4, <1>5 DEF Answers, EntryInv
<1>7. k \in 1..MaxAccepts /\ k # 0
  BY <1>6, ConstantsAssumption DEF TypeInv, TypeOK
<1>8. High(s, k) = 1 /\ k \notin s.ended
  <2>1. ~Known(attempt, choice, k)
    BY <1>6, <1>7 DEF Known
  <2>2. ~(High(s, k) > 1)
    BY <1>3, <1>7, <2>1 DEF HistoryInv
  <2>3. High(s, k) \in Nat /\ High(s, k) >= 1
    BY <1>7, HighType
  <2>4. Len(s.received[k]) \in Nat
    BY <1>7, LengthType DEF UipState
  <2>5. k \notin s.ended
    <3> SUFFICES ASSUME k \in s.ended PROVE FALSE
      OBVIOUS
    <3> DEFINE n == Len(s.received[k])
    <3>1. High(s, k) = n + 1 + 1 /\ n \in Nat
      BY <2>4 DEF High
    <3> HIDE DEF n, k
    <3> QED
      BY <2>2, <3>1
  <2> QED
    BY <2>2, <2>3, <2>5
<1>9. choice2 \in Choices /\ choice2[a] = k /\ \A b \in Nat : b # a => choice2[b] = choice[b]
  BY <1>4 DEF Choices, Joining
<1> HIDE DEF choice2
<1>10. Chooses(s, c, attempt, choice, choice2)
  <2>1. ASSUME NEW j \in 1..MaxAccepts, Known(attempt, choice, j) PROVE Known(attempt, choice2, j)
    <3>1. attempt[j] \in Nat /\ choice[attempt[j]] = j /\ j # 0
      BY <2>1 DEF Known, Attempts
    <3>2. attempt[j] # a
      BY <1>6, <3>1
    <3> QED
      BY <1>9, <2>1, <3>1, <3>2 DEF Known
  <2>2. ASSUME NEW d \in Slots, d # c, Open(s.conns[d])
        PROVE  choice2[s.conns[d].snd_nxt[1]] = choice[s.conns[d].snd_nxt[1]]
    <3>1. s.conns[d].snd_nxt[1] # a
      BY <1>3, <1>4, <2>2 DEF TableInv
    <3>2. s.conns[d].snd_nxt[1] \in Nat
      BY DEF Sound, Connection, Seqs
    <3> QED
      BY <1>9, <3>1, <3>2
  <2>3. ASSUME NEW b \in Nat, b >= s.iss PROVE choice2[b] = choice[b]
    <3>1. b # a
      BY <1>4, <1>6, <2>3 DEF UipState
    <3> QED
      BY <1>9, <3>1
  <2> QED
    BY <2>1, <2>2, <2>3 DEF Chooses
<1>11. /\ \A j \in 1..MaxAccepts : High(u, j) = High(s, j) /\ (j \in u.ended <=> j \in s.ended)
       /\ HistoryInv(u, attempt, choice) /\ u \in UipState /\ u.iss = s.iss
  BY <1>1, <1>2, <1>3, SameHigh DEF Entered
<1>12. HistoryInv(u, attempt, choice2)
  BY <1>10, <1>11 DEF HistoryInv, Chooses
<1>13. conn2.rcv_nxt[1] = k /\ conn2.rcv_nxt[2] = 1 /\ conn2.snd_nxt[1] = a /\ conn2.snd_nxt[2] = 1
  BY <1>2, <1>4, <1>5, <1>6 DEF uip_add32
<1>14. Progress(s, u, c, conn2)
  <2>1. conn.snd_nxt[2] + conn.len <= conn2.snd_nxt[2] + conn2.len
    BY <1>2, <1>4, <1>13
  <2>2. \A j \in 1..MaxAccepts : High(s, j) <= High(u, j)
    BY <1>11, HighType
  <2> QED
    BY <1>4, <1>11, <1>13, <2>1, <2>2 DEF Progress
<1>15. EntryInv(u, conn2, attempt, choice2)
  <2>1. Known(attempt, choice2, k)
    BY <1>6, <1>9 DEF Known
  <2>2. High(u, k) = 1 /\ k \notin u.ended
    BY <1>7, <1>8, <1>11
  <2>3. 1 <= 1
    OBVIOUS
  <2> HIDE DEF a, k
  <2> QED
    BY <1>2, <1>6, <1>7, <1>9, <1>11, <1>13, <2>1, <2>2, <2>3 DEF EntryInv, Joined, Open
<1>16. \A port \in Ports :
         /\ server[port].state # "LISTEN"
         /\ Joined(conn2) /\ conn2.rcv_nxt[1] = server[port].isn
         => conn2.snd_nxt[2] <= server[port].rcv_nxt[2]
  BY <1>13 DEF StreamInv, ServerInv, PortInv
<1>17. Goes(s, u, c, conn2, attempt, choice, choice2)
  BY <1>2, <1>10, <1>12, <1>14, <1>15, <1>16 DEF Goes
<1>18. StreamInv(u, attempt, choice2)
  BY <1>9, <1>17, GoesOn
<1> QED
  BY <1>9, <1>18 DEF choice2

\* The handler of a segment keeps the stream.
LEMMA HandlesStream ==
  ASSUME TypeInv, NEW s \in UipState, \A d \in Slots : Sound(s.conns[d]), NEW t,
         NEW c \in Slots, NEW attempt \in Attempts, NEW choice \in Choices,
         StreamInv(s, attempt, choice), NEW p \in toClient,
         Handles(s, t, c, p), ~Ordinary(p) => Quiet(s, t, c)
  PROVE  \E choice2 \in Choices :
           /\ StreamInv(t, attempt, choice2)
           /\ t \in UipState /\ (OnlyResets(t.out) \/ Says(t.conns[c], t.out))
<1>1. CASE Quiet(s, t, c)
  BY <1>1, QuietGoes
<1>2. CASE Reports(s, t, c)
  <2>1. Quiet(s, t, c)
    BY <1>2, ReportsQuiet DEF StreamInv
  <2> QED
    BY <2>1, QuietGoes
<1>3. ASSUME Ordinary(p), NEW u, Joins(s, u, c, p) \/ Moves(s, u, c, p) \/ Ends(s, u, c, p),
             Quiet(u, t, c)
      PROVE  \E choice2 \in Choices :
               /\ StreamInv(t, attempt, choice2)
               /\ t \in UipState /\ (OnlyResets(t.out) \/ Says(t.conns[c], t.out))
  <2>1. Proper(u)
    <3>1. \E conn : Sound(conn) /\ Entered(s, u, c, conn)
      BY <1>3 DEF Joins, Moves, Ends
    <3> QED
      BY <3>1, EnteredProper
  <2>2. PICK choice2 \in Choices : StreamInv(u, attempt, choice2)
    BY <1>3, JoinsStream, MovesStream, EndsStream
  <2> QED
    BY <1>3, <2>1, <2>2, QuietGoes DEF Proper
<1> QED
  BY <1>1, <1>2, <1>3 DEF Handles

\* What is sent about an entry asks for what it may.
LEMMA SaysAsks ==
  ASSUME NEW t \in UipState, \A d \in Slots : Sound(t.conns[d]), NEW c \in Slots,
         NEW attempt, NEW choice, TableInv(t, attempt, choice), Says(t.conns[c], t.out),
         NEW p \in t.out, Ordinary(p)
  PROVE  Asks(t, p, attempt, choice) /\ \A d \in Slots : Behind(t.conns[d], p)
<1> DEFINE conn == t.conns[c]
<1>1. /\ Open(conn) /\ p.seq = conn.snd_nxt /\ Size(p) <= conn.len
      /\ "SYN" \in p.flags => p.flags = {"SYN"} /\ conn.tcpstate = "SYN_SENT"
      /\ "SYN" \notin p.flags => "ACK" \in p.flags /\ p.ack = conn.rcv_nxt
  BY DEF Says
<1>2. Sound(conn) /\ EntryInv(t, conn, attempt, choice)
  BY DEF TableInv
<1>3. Asks(t, p, attempt, choice)
  <2>1. p.seq[1] < t.iss
    BY <1>1, <1>2 DEF EntryInv
  <2>2. "SYN" \in p.flags => p.flags = {"SYN"} /\ p.seq[2] = 0
    BY <1>1, <1>2 DEF Sound
  <2>3. ASSUME "ACK" \in p.flags, p.ack[1] # 0
        PROVE  /\ p.ack[1] \in 1..MaxAccepts /\ Known(attempt, choice, p.ack[1])
               /\ p.ack[2] <= High(t, p.ack[1])
    <3>1. "SYN" \notin p.flags
      BY <1>1, <2>3
    <3> QED
      BY <1>1, <1>2, <2>3, <3>1 DEF EntryInv
  <2> QED
    BY <2>1, <2>2, <2>3 DEF Asks
<1>4. ASSUME NEW d \in Slots PROVE Behind(t.conns[d], p)
  <2> SUFFICES ASSUME Open(t.conns[d]), t.conns[d].snd_nxt[1] = p.seq[1]
               PROVE  p.seq[2] + Size(p) <= t.conns[d].snd_nxt[2] + t.conns[d].len
    BY DEF Behind
  <2>1. d = c
    BY <1>1 DEF TableInv
  <2>2. p \in Segments
    BY DEF UipState
  <2>3. Size(p) \in Nat /\ conn.len \in Nat /\ p.seq[2] \in Nat
    BY <1>1, <1>2, <2>2 DEF Size, Segments, Sound, Connection, Seqs
  <2> QED
    BY <1>1, <2>1, <2>3
<1> QED
  BY <1>3, <1>4

\* What a handler leaves is the stream of the next state.
LEMMA LeavesStream ==
  ASSUME NEW t \in UipState, \A d \in Slots : Sound(t.conns[d]), Leaves(t), NEW c \in Slots,
         NEW attempt, NEW choice, StreamInv(t, attempt, choice),
         OnlyResets(t.out) \/ Says(t.conns[c], t.out)
  PROVE  StreamInv(uip, attempt, choice)'
<1>1. /\ uip'.conns = t.conns /\ uip'.iss = t.iss /\ uip'.received = t.received
      /\ uip'.ended = t.ended
      /\ server' = server /\ accepted' = accepted /\ written' = written /\ finished' = finished
      /\ toClient' \subseteq toClient
  BY DEF Leaves, SameTable, SameHistory, ServerVars
<1>2. \A k : High(uip, k)' = High(t, k) /\ (Known(attempt, choice, k)' <=> Known(attempt, choice, k))
  BY <1>1 DEF High, Known
<1>3. TableInv(uip, attempt, choice)'
  BY <1>1, <1>2 DEF StreamInv, TableInv, EntryInv
<1>4. HistoryInv(uip, attempt, choice)'
  BY <1>1, <1>2 DEF StreamInv, HistoryInv
<1>5. ServerInv(uip, attempt, choice)'
  BY <1>1, <1>2 DEF StreamInv, ServerInv, PortInv, Alone
<1>6. ToServerInv(uip, attempt, choice)'
  <2> SUFFICES ASSUME NEW p \in toServer', Ordinary(p)
               PROVE  Asks(uip, p, attempt, choice)' /\ \A d \in Slots : Behind(uip'.conns[d], p)
    BY DEF ToServerInv
  <2>1. p \in toServer \cup t.out
    BY PutEffect DEF Leaves
  <2>2. Asks(t, p, attempt, choice) /\ \A d \in Slots : Behind(t.conns[d], p)
    <3>1. CASE p \in toServer
      BY <3>1 DEF StreamInv, ToServerInv
    <3>2. CASE p \in t.out
      BY <3>2, SaysAsks DEF StreamInv, OnlyResets
    <3> QED
      BY <2>1, <3>1, <3>2
  <2> QED
    BY <1>1, <1>2, <2>2 DEF Asks
<1>7. ToClientInv(attempt, choice)'
  BY <1>1, <1>2 DEF StreamInv, ToClientInv, Answers
<1> QED
  BY <1>3, <1>4, <1>5, <1>6, <1>7 DEF StreamInv

\* A state with the same table and histories has the same stream,
LEMMA SameStream ==
  ASSUME NEW s, NEW t, SameTable(s, t), SameHistory(s, t), NEW attempt, NEW choice,
         StreamInv(s, attempt, choice)
  PROVE  StreamInv(t, attempt, choice)
<1>1. /\ t.conns = s.conns /\ t.iss = s.iss /\ t.received = s.received /\ t.ended = s.ended
      /\ \A k : High(t, k) = High(s, k)
  BY DEF SameTable, SameHistory, High
<1>2. TableInv(t, attempt, choice)
  BY <1>1 DEF StreamInv, TableInv, EntryInv
<1>3. HistoryInv(t, attempt, choice)
  BY <1>1 DEF StreamInv, HistoryInv
<1>4. ServerInv(t, attempt, choice)
  BY <1>1 DEF StreamInv, ServerInv, PortInv
<1>5. ToServerInv(t, attempt, choice)
  BY <1>1 DEF StreamInv, ToServerInv, Asks
<1> QED
  BY <1>2, <1>3, <1>4, <1>5 DEF StreamInv

\* also when something else is under way to us,
LEMMA StillStream ==
  ASSUME NEW t, SameTable(t, uip'), SameHistory(t, uip'), UNCHANGED ServerVars,
         toServer' \subseteq toServer,
         NEW attempt, NEW choice, StreamInv(t, attempt, choice), ToClientInv(attempt, choice)'
  PROVE  StreamInv(uip, attempt, choice)'
<1>1. /\ uip'.conns = t.conns /\ uip'.iss = t.iss /\ uip'.received = t.received
      /\ uip'.ended = t.ended
      /\ server' = server /\ accepted' = accepted /\ written' = written /\ finished' = finished
  BY DEF SameTable, SameHistory, ServerVars
<1>2. \A k : High(uip, k)' = High(t, k) /\ (Known(attempt, choice, k)' <=> Known(attempt, choice, k))
  BY <1>1 DEF High, Known
<1>3. TableInv(uip, attempt, choice)'
  BY <1>1, <1>2 DEF StreamInv, TableInv, EntryInv
<1>4. HistoryInv(uip, attempt, choice)'
  BY <1>1, <1>2 DEF StreamInv, HistoryInv
<1>5. ServerInv(uip, attempt, choice)'
  BY <1>1, <1>2 DEF StreamInv, ServerInv, PortInv, Alone
<1>6. ToServerInv(uip, attempt, choice)'
  BY <1>1, <1>2 DEF StreamInv, ToServerInv, Asks
<1> QED
  BY <1>3, <1>4, <1>5, <1>6 DEF StreamInv

\* or less.
LEMMA RestStream ==
  ASSUME NEW t, SameTable(t, uip'), SameHistory(t, uip'), UNCHANGED ServerVars,
         toServer' \subseteq toServer, toClient' \subseteq toClient,
         NEW attempt, NEW choice, StreamInv(t, attempt, choice)
  PROVE  StreamInv(uip, attempt, choice)'
<1>1. server' = server /\ accepted' = accepted /\ written' = written /\ finished' = finished
  BY DEF ServerVars
<1>2. ToClientInv(attempt, choice)'
  BY <1>1 DEF StreamInv, ToClientInv, Answers, Known
<1> QED
  BY <1>2, StillStream

\* A table where every entry is as it was, closed with the rcv_nxt it had, or the one of a
\* new attempt, is one of the same stream.
LEMMA NewTable ==
  ASSUME TypeInv, NEW s \in UipState, \A d \in Slots : Sound(s.conns[d]),
         NEW t, t.iss \in Nat, s.iss <= t.iss, SameHistory(s, t),
         NEW attempt \in Attempts, NEW choice \in Choices, StreamInv(s, attempt, choice),
         \A d \in Slots :
           \/ t.conns[d] = s.conns[d]
           \/ t.conns[d].rcv_nxt = s.conns[d].rcv_nxt /\ ~Open(t.conns[d])
           \/ /\ t.conns[d].rcv_nxt = s.conns[d].rcv_nxt
              /\ t.conns[d].tcpstate = "SYN_SENT"
              /\ t.conns[d].snd_nxt[1] = s.iss /\ s.iss < t.iss,
         \A d, e \in Slots :
           /\ t.conns[d].tcpstate = "SYN_SENT" /\ t.conns[e].tcpstate = "SYN_SENT"
           /\ t.conns[d].snd_nxt[1] = s.iss /\ t.conns[e].snd_nxt[1] = s.iss
           => d = e
  PROVE  StreamInv(t, attempt, choice)
<1> DEFINE New(d) == /\ t.conns[d].rcv_nxt = s.conns[d].rcv_nxt
                     /\ t.conns[d].tcpstate = "SYN_SENT"
                     /\ t.conns[d].snd_nxt[1] = s.iss /\ s.iss < t.iss
           Old(d) == t.conns[d] = s.conns[d]
           Shut(d) == t.conns[d].rcv_nxt = s.conns[d].rcv_nxt /\ ~Open(t.conns[d])
<1>1. /\ t.received = s.received /\ t.ended = s.ended /\ s.iss \in Nat
      /\ \A k : High(t, k) = High(s, k)
  BY DEF SameHistory, High, UipState
<1>2. \A d \in Slots : Old(d) \/ Shut(d) \/ New(d)
  OBVIOUS
<1>3. \A d \in Slots : EntryInv(s, s.conns[d], attempt, choice)
  BY DEF StreamInv, TableInv
<1>4. \A d \in Slots : Open(s.conns[d]) => s.conns[d].snd_nxt[1] \in Nat /\ s.conns[d].snd_nxt[1] < s.iss
  BY <1>3 DEF EntryInv, Sound, Connection, Seqs
<1>5. \A n \in Nat : n < s.iss => n < t.iss
  BY <1>1
<1>6. TableInv(t, attempt, choice)
  <2>1. \A a \in Nat : a >= t.iss => choice[a] = 0
    <3>1. \A a \in Nat : a >= s.iss => choice[a] = 0
      BY DEF StreamInv, TableInv
    <3> QED
      BY <1>1, <3>1
  <2>2. ASSUME NEW d \in Slots PROVE EntryInv(t, t.conns[d], attempt, choice)
    <3>1. CASE Old(d)
      BY <1>1, <1>3, <1>4, <1>5, <3>1 DEF EntryInv
    <3>2. CASE Shut(d)
      BY <1>1, <1>3, <3>2 DEF EntryInv, Open, Joined
    <3>3. CASE New(d)
      <4>1. choice[s.iss] = 0
        BY <1>1 DEF StreamInv, TableInv
      <4> QED
        BY <1>1, <1>3, <3>3, <4>1 DEF EntryInv, Open, Joined
    <3> QED
      BY <1>2, <3>1, <3>2, <3>3
  <2>3. ASSUME NEW d \in Slots, NEW e \in Slots, Open(t.conns[d]), Open(t.conns[e]),
               t.conns[d].snd_nxt[1] = t.conns[e].snd_nxt[1]
        PROVE  d = e
    <3>1. \A f \in Slots : Old(f) /\ Open(t.conns[f]) => t.conns[f].snd_nxt[1] # s.iss
      BY <1>1, <1>4
    <3>2. CASE Old(d) /\ Old(e)
      BY <2>3, <3>2 DEF StreamInv, TableInv
    <3>3. CASE New(d) /\ New(e)
      BY <3>3
    <3> QED
      BY <1>2, <2>3, <3>1, <3>2, <3>3
  <2> QED
    BY <2>1, <2>2, <2>3 DEF TableInv
<1>7. HistoryInv(t, attempt, choice)
  BY <1>1 DEF StreamInv, HistoryInv
<1>8. ServerInv(t, attempt, choice)
  <2> SUFFICES ASSUME NEW port \in Ports, server[port].state # "LISTEN"
               PROVE  /\ PortInv(t, server[port], attempt, choice) /\ Alone(port)
                      /\ \A d \in Slots : Agree(t.conns[d], server[port])
    BY DEF ServerInv
  <2>1. /\ PortInv(s, server[port], attempt, choice) /\ Alone(port)
        /\ \A d \in Slots : Agree(s.conns[d], server[port])
    BY DEF StreamInv, ServerInv
  <2>2. server[port].rcv_nxt[1] \in Nat /\ server[port].rcv_nxt[1] < s.iss
    BY <2>1, PortType DEF PortInv, ServerConnection, Seqs
  <2>3. PortInv(t, server[port], attempt, choice)
    BY <1>1, <1>5, <2>1, <2>2 DEF PortInv
  <2>4. ASSUME NEW d \in Slots PROVE Agree(t.conns[d], server[port])
    <3>1. CASE Old(d)
      BY <2>1, <3>1
    <3>2. CASE Shut(d)
      BY <3>2 DEF Agree, Open, Joined
    <3>3. CASE New(d)
      <4>1. server[port].rcv_nxt[1] # s.iss
        BY <1>1, <2>2
      <4> QED
        BY <3>3, <4>1 DEF Agree, Joined
    <3> QED
      BY <1>2, <3>1, <3>2, <3>3
  <2> QED
    BY <2>1, <2>3, <2>4
<1>9. ToServerInv(t, attempt, choice)
  <2> SUFFICES ASSUME NEW p \in toServer, Ordinary(p)
               PROVE  Asks(t, p, attempt, choice) /\ \A d \in Slots : Behind(t.conns[d], p)
    BY DEF ToServerInv
  <2>1. Asks(s, p, attempt, choice) /\ \A d \in Slots : Behind(s.conns[d], p)
    BY DEF StreamInv, ToServerInv
  <2>2. p.seq[1] \in Nat /\ p.seq[1] < s.iss
    BY <2>1 DEF Asks, TypeInv, TypeOK, Segments, Seqs
  <2>3. Asks(t, p, attempt, choice)
    BY <1>1, <1>5, <2>1, <2>2 DEF Asks
  <2>4. ASSUME NEW d \in Slots PROVE Behind(t.conns[d], p)
    <3>1. p.seq[1] # s.iss
      BY <1>1, <2>2
    <3> QED
      BY <1>2, <2>1, <3>1 DEF Behind
  <2> QED
    BY <2>3, <2>4
<1> QED
  BY <1>6, <1>7, <1>8, <1>9 DEF StreamInv

\* The other steps of ours keep the stream: uip_connect takes an attempt that nothing has
\* heard of, and a link that starts anew closes all entries.
LEMMA OursStream ==
  ASSUME TypeInv, TypeInv', TCPIP_ConnectToRemoteHost \/ TCPIP_TCPIPTask \/ Tick \/ Reinitialize,
         NEW attempt \in Attempts, NEW choice \in Choices, StreamInv(uip, attempt, choice)
  PROVE  StreamInv(uip, attempt, choice)'
<1>1. /\ uip \in UipState /\ \A c \in Slots : Sound(uip.conns[c])
      /\ uip' \in UipState /\ uip.iss \in Nat /\ uip.iss <= uip.iss /\ uip.iss < uip.iss + 1
      /\ uip.iss + 1 \in Nat /\ uip.iss <= uip.iss + 1
  <2>1. /\ uip \in UipState /\ \A c \in Slots : Sound(uip.conns[c])
        /\ uip' \in UipState
    BY DEF TypeInv, TypeOK
  <2>2. uip.iss \in Nat
    BY <2>1 DEF UipState
  <2> QED
    BY <2>1, <2>2
<1>2. UNCHANGED ServerVars /\ toServer' = toServer /\ toClient' = toClient
  BY DEF TCPIP_ConnectToRemoteHost, TCPIP_TCPIPTask, Tick, Reinitialize
<1>3. ASSUME SameTable(uip, uip'), SameHistory(uip, uip') PROVE StreamInv(uip, attempt, choice)'
  BY <1>2, <1>3, RestStream
<1>4. CASE TCPIP_TCPIPTask \/ Tick
  <2>1. SameTable(uip, uip') /\ SameHistory(uip, uip')
    BY <1>1, <1>4 DEF TCPIP_TCPIPTask, Tick, UipState, SameTable, SameHistory
  <2> QED
    BY <1>3, <2>1
<1>5. SameTable(uip', uip') /\ SameHistory(uip', uip')
  BY DEF SameTable, SameHistory
<1>6. CASE Reinitialize
  <2>1. /\ uip'.conns = [c \in Slots |-> Closed(uip.conns[c])] /\ uip'.iss = uip.iss
        /\ SameHistory(uip, uip')
    BY <1>1, <1>6 DEF Reinitialize, TCPIP_InitializeTCPStack, uip_init, UipState, SameHistory
  <2>2. \A c \in Slots : uip'.conns[c].rcv_nxt = uip.conns[c].rcv_nxt /\ ~Open(uip'.conns[c])
                         /\ uip'.conns[c].tcpstate = "CLOSED"
    BY <2>1 DEF Closed, Open
  <2>3. StreamInv(uip', attempt, choice)
    BY <1>1, <2>1, <2>2, NewTable
  <2> QED
    BY <1>2, <1>5, <2>3, RestStream
<1>7. CASE TCPIP_ConnectToRemoteHost
  <2>1. PICK port \in Ports :
          \/ \E c \in Slots :
               /\ FreeSlot(uip, c)
               /\ uip' = [uip_connect(uip, c, port) EXCEPT !.SystemTicks = GET_SPACING + 1,
                                                           !.ConnectedState = "ManageTCPConnection"]
          \/ uip' = [uip EXCEPT !.lastport = port, !.SystemTicks = 0]
    BY <1>7 DEF TCPIP_ConnectToRemoteHost
  <2>2. CASE uip' = [uip EXCEPT !.lastport = port, !.SystemTicks = 0]
    <3>1. SameTable(uip, uip') /\ SameHistory(uip, uip')
      BY <1>1, <2>2 DEF UipState, SameTable, SameHistory
    <3> QED
      BY <1>3, <3>1
  <2>3. ASSUME NEW c \in Slots,
               uip' = [uip_connect(uip, c, port) EXCEPT !.SystemTicks = GET_SPACING + 1,
                                                        !.ConnectedState = "ManageTCPConnection"]
        PROVE  StreamInv(uip, attempt, choice)'
    <3> DEFINE new == [tcpstate |-> "SYN_SENT", lport |-> port, snd_nxt |-> <<uip.iss, 0>>,
                       rcv_nxt |-> uip.conns[c].rcv_nxt, len |-> 1, timer |-> 1, nrtx |-> 0,
                       rto |-> UIP_RTO]
               iss == uip.iss + 1
    <3>1. /\ new.tcpstate = "SYN_SENT" /\ new.snd_nxt[1] = uip.iss
          /\ new.rcv_nxt = uip.conns[c].rcv_nxt
      OBVIOUS
    <3>2. uip'.conns = [uip.conns EXCEPT ![c] = new] /\ uip'.iss = iss
          /\ SameHistory(uip, uip')
      BY <1>1, <2>3 DEF uip_connect, UipState, SameHistory
    <3>3. iss \in Nat /\ uip.iss <= iss /\ uip.iss < iss
      BY <1>1
    <3> HIDE DEF new, iss
    <3>4. \A d \in Slots : uip'.conns[d] = IF d = c THEN new ELSE uip.conns[d]
      BY <1>1, <3>2 DEF UipState
    <3>5. \A d \in Slots : Open(uip.conns[d]) => uip.conns[d].snd_nxt[1] # uip.iss
      BY <1>1 DEF StreamInv, TableInv, EntryInv, Sound, Connection, Seqs
    <3>6. \A d \in Slots :
            \/ uip'.conns[d] = uip.conns[d]
            \/ /\ uip'.conns[d].rcv_nxt = uip.conns[d].rcv_nxt
               /\ uip'.conns[d].tcpstate = "SYN_SENT"
               /\ uip'.conns[d].snd_nxt[1] = uip.iss /\ uip.iss < uip'.iss
      BY <3>1, <3>2, <3>3, <3>4
    <3>7. \A d, e \in Slots :
            /\ uip'.conns[d].tcpstate = "SYN_SENT" /\ uip'.conns[e].tcpstate = "SYN_SENT"
            /\ uip'.conns[d].snd_nxt[1] = uip.iss /\ uip'.conns[e].snd_nxt[1] = uip.iss
            => d = e
      BY <3>4, <3>5 DEF Open
    <3>8. StreamInv(uip', attempt, choice)
      BY <1>1, <3>2, <3>3, <3>6, <3>7, NewTable
    <3> QED
      BY <1>2, <1>5, <3>8, RestStream
  <2> QED
    BY <2>1, <2>2, <2>3
<1> QED
  BY <1>4, <1>6, <1>7

\* What a step of the server's leaves alone of the histories: what it has accepted before,
\* and the other connections
Keeps(isn, attempt, attempt2) ==
  /\ uip' = uip /\ accepted' \in Nat /\ accepted <= accepted' /\ toServer' \subseteq toServer
  /\ \A k \in 1..accepted :
       /\ attempt2[k] = attempt[k]
       /\ k = isn \/ (written'[k] = written[k] /\ (k \in finished' <=> k \in finished))

\* The connection that the server's end on port has become is in order
Fits(port, sv2, attempt2, choice) ==
  IF sv2.state = "LISTEN" THEN sv2.isn = 0
  ELSE /\ PortInv(uip, sv2, attempt2, choice)'
       /\ \A c \in Slots : Agree(uip.conns[c], sv2)
       /\ \A q \in Ports : q # port /\ server[q].state # "LISTEN" => server[q].isn # sv2.isn

\* Then the stream is kept, if that of what is under way to us and of what was handed over is.
LEMMA TurnsStream ==
  ASSUME TypeInv, NEW port \in Ports, NEW sv2, Turns(port, sv2),
         NEW attempt \in Attempts, NEW attempt2 \in Attempts, NEW choice \in Choices,
         StreamInv(uip, attempt, choice), Keeps(sv2.isn, attempt, attempt2),
         Fits(port, sv2, attempt2, choice),
         HistoryInv(uip, attempt2, choice)', ToClientInv(attempt2, choice)'
  PROVE  StreamInv(uip, attempt2, choice)'
<1>1. /\ uip' = uip /\ \A k : High(uip, k)' = High(uip, k)
      /\ accepted \in Nat /\ accepted' >= accepted
      /\ \A k \in 1..accepted : attempt2[k] = attempt[k]
  BY DEF Keeps, High, TypeInv, TypeOK
<1>2. \A k : Known(attempt, choice, k) => Known(attempt2, choice, k)' /\ attempt2[k] = attempt[k]
  <2> SUFFICES ASSUME NEW k, Known(attempt, choice, k)
               PROVE  Known(attempt2, choice, k)' /\ attempt2[k] = attempt[k]
    OBVIOUS
  <2>1. k \in 1..accepted /\ choice[attempt[k]] = k
    BY DEF Known
  <2>2. k \in 1..accepted'
    BY <2>1 DEF Keeps, TypeInv, TypeOK
  <2> QED
    BY <1>1, <2>1, <2>2 DEF Known
<1>3. TableInv(uip, attempt2, choice)'
  <2>1. ASSUME NEW c \in Slots PROVE EntryInv(uip, uip.conns[c], attempt2, choice)'
    <3>1. EntryInv(uip, uip.conns[c], attempt, choice) /\ Sound(uip.conns[c])
      BY DEF StreamInv, TableInv, TypeInv
    <3>2. Joined(uip.conns[c]) => Known(attempt, choice, uip.conns[c].rcv_nxt[1])
      BY <3>1 DEF EntryInv, Sound
    <3> QED
      BY <1>1, <1>2, <3>1, <3>2 DEF EntryInv
  <2> QED
    BY <1>1, <2>1 DEF StreamInv, TableInv
<1>4. ServerInv(uip, attempt2, choice)'
  <2>1. \A q \in Ports : server'[q] = IF q = port THEN sv2 ELSE server[q]
    BY DEF Turns, TypeInv, TypeOK
  <2>2. ASSUME NEW q \in Ports, q # port, server[q].state # "LISTEN"
        PROVE  /\ PortInv(uip, server[q], attempt, choice) /\ Alone(q)
               /\ \A c \in Slots : Agree(uip.conns[c], server[q])
               /\ server[q].isn \in 1..accepted /\ server[q].isn # sv2.isn
    <3>1. /\ PortInv(uip, server[q], attempt, choice) /\ Alone(q)
          /\ \A c \in Slots : Agree(uip.conns[c], server[q])
          /\ server[q].isn \in 1..accepted
      BY <2>2 DEF StreamInv, ServerInv, PortInv
    <3>2. server[q].isn # sv2.isn
      BY <2>2, <3>1 DEF Fits
    <3> QED
      BY <3>1, <3>2
  <2>3. ASSUME NEW q \in Ports, q # port, server[q].state # "LISTEN",
               NEW sv, sv = server[q]
        PROVE  PortInv(uip, sv, attempt2, choice)'
    <3>1. /\ PortInv(uip, sv, attempt, choice) /\ sv.isn \in 1..accepted /\ sv.isn # sv2.isn
      BY <2>2, <2>3
    <3>2. /\ written'[sv.isn] = written[sv.isn] /\ (sv.isn \in finished' <=> sv.isn \in finished)
          /\ attempt2[sv.isn] = attempt[sv.isn] /\ sv.isn \in 1..accepted'
      BY <3>1 DEF Keeps, TypeInv, TypeOK
    <3> QED
      BY <1>1, <1>2, <3>1, <3>2 DEF PortInv
  <2>4. ASSUME NEW q \in Ports, server'[q].state # "LISTEN"
        PROVE  /\ PortInv(uip, server[q], attempt2, choice)' /\ Alone(q)'
               /\ \A c \in Slots : Agree(uip'.conns[c], server'[q])
    <3>1. CASE q = port
      <4>1. /\ PortInv(uip, sv2, attempt2, choice)'
            /\ \A c \in Slots : Agree(uip.conns[c], sv2)
            /\ \A r \in Ports : r # port /\ server[r].state # "LISTEN" => server[r].isn # sv2.isn
        BY <2>1, <2>4, <3>1 DEF Fits
      <4>2. server'[q] = sv2
        BY <2>1, <3>1
      <4>3. PortInv(uip, server[q], attempt2, choice)'
        BY <4>1, <4>2 DEF PortInv
      <4>4. Alone(q)'
        BY <2>1, <3>1, <4>1, <4>2 DEF Alone
      <4> QED
        BY <1>1, <4>1, <4>2, <4>3, <4>4
    <3>2. CASE q # port
      <4>1. server'[q] = server[q] /\ server[q].state # "LISTEN"
        BY <2>1, <2>4, <3>2
      <4>2. /\ Alone(q) /\ server[q].isn # sv2.isn
            /\ \A c \in Slots : Agree(uip.conns[c], server[q])
        BY <2>2, <3>2, <4>1
      <4>3. PortInv(uip, server[q], attempt2, choice)'
        BY <2>3, <3>2, <4>1 DEF PortInv
      <4>4. Alone(q)'
        BY <2>1, <3>2, <4>1, <4>2 DEF Alone
      <4> QED
        BY <1>1, <4>1, <4>2, <4>3, <4>4
    <3> QED
      BY <3>1, <3>2
  <2> QED
    BY <2>4 DEF ServerInv
<1>5. ToServerInv(uip, attempt2, choice)'
  <2> SUFFICES ASSUME NEW p \in toServer', Ordinary(p)
               PROVE  Asks(uip, p, attempt2, choice)' /\ \A c \in Slots : Behind(uip'.conns[c], p)
    BY DEF ToServerInv
  <2>1. Asks(uip, p, attempt, choice) /\ \A c \in Slots : Behind(uip.conns[c], p)
    BY DEF Keeps, StreamInv, ToServerInv
  <2> QED
    BY <1>1, <1>2, <2>1 DEF Asks
<1> QED
  BY <1>3, <1>4, <1>5 DEF StreamInv

\* What is under way to us stays true when the server goes on
Onward(attempt, attempt2) ==
  /\ accepted <= accepted'
  /\ \A k \in 1..accepted :
       /\ attempt2[k] = attempt[k]
       /\ written[k] <= written'[k]
       /\ k \in finished => k \in finished' /\ written'[k] = written[k]
  /\ \A port \in Ports :
       server'[port].state # "LISTEN" =>
         \/ server'[port].isn \notin 1..accepted
         \/ /\ server[port].state # "LISTEN" /\ server'[port].isn = server[port].isn
            /\ server[port].rcv_nxt[2] <= server'[port].rcv_nxt[2]

\* and nothing but RSTs is added.
LEMMA OnwardToClient ==
  ASSUME TypeInv, TypeInv', NEW attempt \in Attempts, NEW attempt2 \in Attempts,
         NEW choice \in Choices, ToClientInv(attempt, choice), Onward(attempt, attempt2),
         toClient' \subseteq toClient \cup {p \in Segments : ~Ordinary(p)}
  PROVE  ToClientInv(attempt2, choice)'
<1>1. /\ accepted \in Nat /\ accepted' \in Nat /\ accepted <= accepted'
      /\ written \in [1..MaxAccepts -> 0..MaxData] /\ written' \in [1..MaxAccepts -> 0..MaxData]
      /\ accepted <= MaxAccepts /\ MaxAccepts \in Nat
  BY ConstantsAssumption DEF TypeInv, TypeOK, Onward
<1>2. \A k \in 1..accepted : k \in 1..accepted' /\ k \in 1..MaxAccepts
  BY <1>1
<1> SUFFICES ASSUME NEW p \in toClient', Ordinary(p)
             PROVE  Answers(p, attempt2, choice)' /\ \A port \in Ports : Acks(server'[port], p)
  BY DEF ToClientInv
<1>3. p \in toClient /\ p \in Segments
  BY DEF TypeInv, TypeOK
<1>4. Answers(p, attempt, choice) /\ \A port \in Ports : Acks(server[port], p)
  BY <1>3 DEF ToClientInv
<1> DEFINE k == p.seq[1]
<1>5. /\ k \in 1..accepted /\ k \in 1..accepted' /\ k \in 1..MaxAccepts
      /\ attempt2[k] = attempt[k] /\ written[k] <= written'[k]
      /\ k \in finished => k \in finished' /\ written'[k] = written[k]
  BY <1>2, <1>4 DEF Answers, Onward
<1>6. Answers(p, attempt2, choice)'
  <2>1. /\ k \in 1..accepted' /\ p.ack[1] = attempt2[k]
        /\ "SYN" \in p.flags => p.flags = {"SYN", "ACK"} /\ p.seq[2] = 0 /\ p.len = 0
        /\ "URG" \in p.flags => \E u \in UrgentPointers : u > 0
    BY <1>4, <1>5 DEF Answers
  <2>2. "SYN" \notin p.flags => p.seq[2] >= 1 /\ Known(attempt2, choice, k)'
    BY <1>4, <1>5 DEF Answers, Known
  <2>3. p.len > 0 => p.seq[2] + p.len - 1 <= written'[k]
    <3> DEFINE l == p.seq[2] + p.len - 1
               m == written[k]
               n == written'[k]
    <3>1. l \in Int /\ m \in Int /\ n \in Int /\ m <= n
      <4>1. p.seq[2] \in Nat /\ p.len \in Nat
        BY <1>3 DEF Segments, Seqs
      <4>2. m \in 0..MaxData /\ n \in 0..MaxData
        BY <1>1, <1>5
      <4>3. m <= n
        BY <1>5
      <4> HIDE DEF m, n
      <4> QED
        BY <4>1, <4>2, <4>3
    <3>2. p.len > 0 => l <= m
      BY <1>4 DEF Answers
    <3> HIDE DEF l, m, n
    <3>3. p.len > 0 => l <= n
      BY <3>1, <3>2
    <3> QED
      BY <3>3 DEF l, n
  <2>4. "FIN" \in p.flags => k \in finished' /\ p.seq[2] + p.len - 1 = written'[k]
    BY <1>4, <1>5 DEF Answers
  <2> QED
    BY <2>1, <2>2, <2>3, <2>4 DEF Answers
<1>7. ASSUME NEW port \in Ports PROVE Acks(server'[port], p)
  <2> SUFFICES ASSUME server'[port].state # "LISTEN", server'[port].isn = k
               PROVE  p.ack[2] <= server'[port].rcv_nxt[2]
    BY DEF Acks
  <2>1. /\ server[port].state # "LISTEN" /\ server[port].isn = k
        /\ server[port].rcv_nxt[2] <= server'[port].rcv_nxt[2]
    BY <1>5 DEF Onward
  <2>2. p.ack[2] <= server[port].rcv_nxt[2]
    BY <1>4, <2>1 DEF Acks
  <2>3. /\ p.ack[2] \in Nat /\ server[port].rcv_nxt[2] \in Nat
        /\ server'[port].rcv_nxt[2] \in Nat
    BY <1>3 DEF TypeInv, TypeOK, ServerConnection, Segments, Seqs
  <2> QED
    BY <2>1, <2>2, <2>3
<1> QED
  BY <1>6, <1>7

\* The server says what it has, again or not.
LEMMA ServerSendsStream ==
  ASSUME TypeInv, NEW port \in Ports, ServerSends(port),
         NEW attempt \in Attempts, NEW choice \in Choices, StreamInv(uip, attempt, choice)
  PROVE  StreamInv(uip, attempt, choice)'
<1> DEFINE sv == server[port]
           k == sv.isn
<1>1. PICK p \in Outgoing(port) : toClient' = Put(toClient, {p})
  BY DEF ServerSends
<1>2. uip' = uip /\ UNCHANGED ServerVars /\ toServer' = toServer
  BY DEF ServerSends, UipVars
<1>3. sv.state # "LISTEN"
  BY <1>1 DEF Outgoing
<1>4. sv \in ServerConnection /\ k \in 1..MaxAccepts /\ written[k] \in Nat
  BY <1>3, PortType, ConstantsAssumption
<1>5. Utters(port, sv, written[k], p)
  BY <1>4, OutgoingEffect
<1>6. PortInv(uip, sv, attempt, choice) /\ Alone(port)
  BY <1>3 DEF StreamInv, ServerInv
<1>7. sv.una \in Nat /\ sv.nxt \in Nat /\ sv.state \in ServerStates /\ p.seq[2] \in Nat
      /\ p.seq[1] = k /\ p.ack = sv.rcv_nxt
  BY <1>4, <1>5 DEF Utters, ServerConnection, Segments, Seqs
<1>8. Answers(p, attempt, choice)
  <2>1. k \in 1..accepted /\ p.ack[1] = attempt[k]
    BY <1>6, <1>7 DEF PortInv
  <2>2. CASE sv.state = "SYN_RCVD"
    <3>1. p.flags = {"SYN", "ACK"} /\ p.seq[2] = 0 /\ p.len = 0
      BY <1>5, <2>2 DEF Utters
    <3> QED
      BY <1>7, <2>1, <3>1 DEF Answers
  <2>3. CASE sv.state # "SYN_RCVD"
    <3>1. /\ "SYN" \notin p.flags
          /\ p.seq[2] = sv.nxt \/ p.seq[2] >= sv.una
          /\ p.len > 0 => p.seq[2] + p.len - 1 <= written[k]
          /\ "FIN" \in p.flags => sv.state = "FIN_WAIT" /\ p.seq[2] + p.len - 1 = written[k]
          /\ "URG" \in p.flags => \E u \in UrgentPointers : u > 0
      BY <1>5, <2>3 DEF Utters
    <3>2. /\ sv.una >= 1 /\ sv.una <= sv.nxt /\ Known(attempt, choice, k)
          /\ sv.state = "FIN_WAIT" => k \in finished
      BY <1>6, <2>3 DEF PortInv
    <3>3. p.seq[2] >= 1
      BY <1>7, <3>1, <3>2
    <3> HIDE DEF k, sv
    <3> QED
      BY <1>7, <2>1, <3>1, <3>2, <3>3 DEF Answers
  <2> QED
    BY <2>2, <2>3
<1>9. ASSUME NEW q \in Ports PROVE Acks(server[q], p)
  <2> SUFFICES ASSUME server[q].state # "LISTEN", server[q].isn = k
               PROVE  p.ack[2] <= server[q].rcv_nxt[2]
    BY <1>7 DEF Acks
  <2>1. q = port
    BY <1>6 DEF Alone
  <2>2. sv.rcv_nxt[2] \in Nat
    BY <1>4 DEF ServerConnection, Seqs
  <2> QED
    BY <1>7, <2>1, <2>2
<1>10. ToClientInv(attempt, choice)'
  <2>1. \A q \in toClient' : q \in toClient \/ q = p
    BY <1>1, PutEffect
  <2>2. \A q \in toClient' : Ordinary(q) =>
          Answers(q, attempt, choice) /\ \A r \in Ports : Acks(server[r], q)
    BY <1>8, <1>9, <2>1 DEF StreamInv, ToClientInv
  <2> QED
    BY <1>2, <2>2 DEF ToClientInv, Answers, Known, ServerVars
<1>11. SameTable(uip, uip') /\ SameHistory(uip, uip')
  BY <1>2 DEF SameTable, SameHistory
<1> QED
  BY <1>2, <1>10, <1>11, StillStream

\* What a server that is not listening is.
LEMMA PortFacts ==
  ASSUME TypeInv, NEW port \in Ports, server[port].state # "LISTEN",
         NEW attempt \in Attempts, NEW choice \in Choices, StreamInv(uip, attempt, choice)
  PROVE  LET sv == server[port]
         IN  /\ sv \in ServerConnection /\ sv.isn \in 1..MaxAccepts /\ sv.isn \in 1..accepted
             /\ written[sv.isn] \in 0..MaxData
             /\ sv.una \in Nat /\ sv.nxt \in Nat /\ sv.rcv_nxt[1] \in Nat /\ sv.rcv_nxt[2] \in Nat
             /\ PortInv(uip, sv, attempt, choice) /\ Alone(port)
             /\ \A c \in Slots : Agree(uip.conns[c], sv)
<1>1. /\ server[port] \in ServerConnection /\ server[port].isn \in 1..MaxAccepts
      /\ written[server[port].isn] \in 0..MaxData
  BY PortType
<1>2. /\ PortInv(uip, server[port], attempt, choice) /\ Alone(port)
      /\ \A c \in Slots : Agree(uip.conns[c], server[port])
  BY DEF StreamInv, ServerInv
<1>3. server[port].isn \in 1..accepted
  BY <1>2 DEF PortInv
<1> QED
  BY <1>1, <1>2, <1>3 DEF ServerConnection, Seqs

\* When the server says one thing more on a connection, whatever counts what was written or
\* received still does.
LEMMA SaysMoreKept ==
  ASSUME TypeInv, NEW port \in Ports, server[port].state = "ESTABLISHED",
         NEW attempt \in Attempts, NEW choice \in Choices, StreamInv(uip, attempt, choice),
         uip' = uip, accepted' = accepted, toServer' = toServer,
         NEW sv2, Turns(port, sv2), SaysMore(server[port], sv2.state, sv2),
         NEW state, state \in {"ESTABLISHED", "FIN_WAIT"}, sv2.state = state,
         IF state = "ESTABLISHED"
         THEN /\ written'[sv2.isn] = written[sv2.isn] + 1 /\ sv2.isn \notin finished'
         ELSE /\ written'[sv2.isn] = written[sv2.isn] /\ sv2.isn \in finished',
         \A k \in 1..MaxAccepts : k # sv2.isn =>
            written'[k] = written[k] /\ (k \in finished' <=> k \in finished)
  PROVE  /\ Keeps(sv2.isn, attempt, attempt)
         /\ Fits(port, sv2, attempt, choice)
         /\ HistoryInv(uip, attempt, choice)'
         /\ Onward(attempt, attempt)
<1> DEFINE sv == server[port]
           k == sv.isn
           w == written[k]
<1>1. /\ sv.isn \in 1..MaxAccepts /\ k \in 1..accepted /\ w \in 0..MaxData
      /\ sv.una \in Nat /\ sv.nxt \in Nat /\ sv.rcv_nxt[1] \in Nat /\ sv.rcv_nxt[2] \in Nat
      /\ PortInv(uip, sv, attempt, choice) /\ Alone(port)
      /\ \A c \in Slots : Agree(uip.conns[c], sv)
  BY PortFacts
<1>2. /\ sv2.isn = k /\ sv2.una = sv.una /\ sv2.rcv_nxt = sv.rcv_nxt /\ sv2.nxt = sv.nxt + 1
      /\ server' = [server EXCEPT ![port] = sv2]
  BY DEF SaysMore, Turns
<1>3. w \in Nat /\ w <= w /\ w <= w + 1 /\ w + 1 \in Nat /\ MaxData \in Nat
  BY <1>1, ConstantsAssumption
<1>4. sv.nxt = w + 1 /\ k \notin finished
  BY <1>1 DEF PortInv
<1>5. /\ accepted \in Nat /\ accepted <= accepted /\ 1..accepted \subseteq 1..MaxAccepts
      /\ written \in [1..MaxAccepts -> 0..MaxData]
  BY ConstantsAssumption DEF TypeInv, TypeOK
<1>6. Keeps(sv2.isn, attempt, attempt)
  <2>1. \A j \in 1..accepted : j = sv2.isn \/ (written'[j] = written[j] /\ (j \in finished' <=> j \in finished))
    BY <1>5
  <2>2. uip' = uip /\ accepted' \in Nat /\ accepted <= accepted' /\ toServer' \subseteq toServer
    BY <1>5
  <2> QED
    BY <2>1, <2>2 DEF Keeps
<1>7. \A j : High(uip, j)' = High(uip, j) /\ (Known(attempt, choice, j)' <=> Known(attempt, choice, j))
  BY DEF High, Known
<1>8. PortInv(uip, sv2, attempt, choice)'
  <2>1. sv.una <= sv2.nxt
    BY <1>1, <1>2 DEF PortInv
  <2>2. IF state = "ESTABLISHED" THEN sv2.nxt = written'[k] + 1 ELSE sv2.nxt = written'[k] + 2
    BY <1>2, <1>3, <1>4
  <2> HIDE DEF w, k
  <2> QED
    BY <1>1, <1>2, <1>7, <2>1, <2>2 DEF PortInv, k
<1>9. Fits(port, sv2, attempt, choice)
  <2>1. \A c \in Slots : Agree(uip.conns[c], sv2)
    BY <1>1, <1>2 DEF Agree
  <2>2. \A q \in Ports : q # port /\ server[q].state # "LISTEN" => server[q].isn # sv2.isn
    BY <1>1, <1>2 DEF Alone
  <2> QED
    BY <1>8, <2>1, <2>2 DEF Fits
<1>10. HistoryInv(uip, attempt, choice)'
  <2> SUFFICES ASSUME NEW j \in 1..MaxAccepts
               PROVE  /\ Len(uip'.received[j]) <= written'[j]
                      /\ j \in uip'.ended => j \in finished' /\ Len(uip'.received[j]) = written'[j]
                      /\ High(uip, j)' > 1 => Known(attempt, choice, j)'
                      /\ j > accepted' => written'[j] = 0 /\ j \notin finished'
    BY DEF HistoryInv
  <2>1. /\ Len(uip.received[j]) <= written[j]
        /\ j \in uip.ended => j \in finished /\ Len(uip.received[j]) = written[j]
        /\ High(uip, j) > 1 => Known(attempt, choice, j)
        /\ j > accepted => written[j] = 0 /\ j \notin finished
    BY DEF StreamInv, HistoryInv
  <2>2. CASE j # k
    BY <1>2, <1>7, <2>1, <2>2
  <2>3. CASE j = k
    <3>1. ~(j > accepted)
      BY <1>1, <1>5, <2>3
    <3>2. j \notin uip.ended
      BY <1>4, <2>1, <2>3
    <3>3. Len(uip.received[j]) \in Nat
      BY LengthType DEF TypeInv, TypeOK, UipState
    <3>4. Len(uip.received[j]) <= written'[j]
      <4> DEFINE n == Len(uip.received[j])
      <4>1. n <= w /\ n \in Nat /\ (written'[j] = w \/ written'[j] = w + 1)
        BY <1>2, <2>1, <2>3, <3>3
      <4> HIDE DEF n, w
      <4>2. n <= written'[j]
        BY <1>3, <4>1
      <4> QED
        BY <4>2 DEF n
    <3> QED
      BY <1>7, <2>1, <3>1, <3>2, <3>4
  <2> QED
    BY <2>2, <2>3
<1>11. Onward(attempt, attempt)
  <2>1. ASSUME NEW j \in 1..accepted
        PROVE  /\ written[j] <= written'[j]
               /\ j \in finished => j \in finished' /\ written'[j] = written[j]
    <3>1. CASE j = k
      BY <1>2, <1>3, <1>4, <3>1
    <3>2. CASE j # k
      <4>1. written'[j] = written[j] /\ (j \in finished' <=> j \in finished) /\ written[j] \in 0..MaxData
        BY <1>2, <1>5, <3>2
      <4>2. written[j] <= written[j]
        BY <1>3, <4>1
      <4> QED
        BY <4>1, <4>2
    <3> QED
      BY <3>1, <3>2
  <2>2. ASSUME NEW q \in Ports, server'[q].state # "LISTEN"
        PROVE  /\ server[q].state # "LISTEN" /\ server'[q].isn = server[q].isn
               /\ server[q].rcv_nxt[2] <= server'[q].rcv_nxt[2]
    <3>1. server \in [Ports -> ServerConnection]
      BY DEF TypeInv, TypeOK
    <3>2. server[q].state # "LISTEN" /\ server'[q].isn = server[q].isn
          /\ server'[q].rcv_nxt = server[q].rcv_nxt
      BY <1>2, <2>2, <3>1
    <3>3. server[q].rcv_nxt[2] \in Nat
      BY <3>1 DEF ServerConnection, Seqs
    <3> QED
      BY <3>2, <3>3
  <2> QED
    BY <1>5, <2>1, <2>2 DEF Onward
<1> QED
  BY <1>6, <1>9, <1>10, <1>11

\* The server writes a unit, or closes.
LEMMA ServerSaysStream ==
  ASSUME TypeInv, TypeInv', NEW port \in Ports, ServerWrites(port) \/ ServerFinishes(port),
         NEW attempt \in Attempts, NEW choice \in Choices, StreamInv(uip, attempt, choice)
  PROVE  StreamInv(uip, attempt, choice)'
<1> DEFINE sv == server[port]
           k == sv.isn
<1>1. uip' = uip /\ accepted' = accepted /\ toServer' = toServer /\ toClient' = toClient
  BY DEF ServerWrites, ServerFinishes, UipVars
<1>2. sv.state = "ESTABLISHED"
  BY DEF ServerWrites, ServerFinishes
<1>3. k \in 1..MaxAccepts /\ PortInv(uip, sv, attempt, choice)
  BY <1>2, PortFacts
<1>4. written \in [1..MaxAccepts -> 0..MaxData] /\ k \notin finished
  BY <1>2, <1>3 DEF PortInv, TypeInv, TypeOK
<1>5. ASSUME NEW sv2, NEW state, Turns(port, sv2), SaysMore(sv, sv2.state, sv2),
             state \in {"ESTABLISHED", "FIN_WAIT"}, sv2.state = state, sv2.isn = k,
             IF state = "ESTABLISHED"
             THEN /\ written'[sv2.isn] = written[sv2.isn] + 1 /\ sv2.isn \notin finished'
             ELSE /\ written'[sv2.isn] = written[sv2.isn] /\ sv2.isn \in finished',
             \A j \in 1..MaxAccepts : j # sv2.isn =>
                written'[j] = written[j] /\ (j \in finished' <=> j \in finished)
      PROVE  StreamInv(uip, attempt, choice)'
  <2>1. /\ Keeps(sv2.isn, attempt, attempt) /\ Fits(port, sv2, attempt, choice)
        /\ HistoryInv(uip, attempt, choice)' /\ Onward(attempt, attempt)
    BY <1>1, <1>2, <1>5, SaysMoreKept
  <2>2. ToClientInv(attempt, choice)'
    BY <1>1, <2>1, OnwardToClient DEF StreamInv
  <2> QED
    BY <1>5, <2>1, <2>2, TurnsStream
<1>6. CASE ServerWrites(port)
  <2>1. PICK sv2 : Turns(port, sv2) /\ SaysMore(sv, "ESTABLISHED", sv2)
    BY <1>6, ServerWritesEffect
  <2>2. sv2.isn = k /\ sv2.state = "ESTABLISHED"
    BY <2>1 DEF SaysMore
  <2>3. written' = [written EXCEPT ![k] = @ + 1] /\ finished' = finished
    BY <1>6 DEF ServerWrites
  <2>4. /\ written'[k] = written[k] + 1 /\ k \notin finished'
        /\ \A j \in 1..MaxAccepts : j # k =>
             written'[j] = written[j] /\ (j \in finished' <=> j \in finished)
    BY <1>3, <1>4, <2>3
  <2> QED
    BY <1>5, <2>1, <2>2, <2>4
<1>7. CASE ServerFinishes(port)
  <2>1. PICK sv2 : Turns(port, sv2) /\ SaysMore(sv, "FIN_WAIT", sv2)
    BY <1>7, ServerFinishesEffect
  <2>2. sv2.isn = k /\ sv2.state = "FIN_WAIT"
    BY <2>1 DEF SaysMore
  <2>3. finished' = finished \cup {k} /\ written' = written
    BY <1>7 DEF ServerFinishes
  <2> QED
    BY <1>5, <2>1, <2>2, <2>3
<1> QED
  BY <1>6, <1>7

\* What a step keeps that writes nothing.
LEMMA SilentKept ==
  ASSUME TypeInv, TypeInv', NEW attempt \in Attempts, NEW choice \in Choices,
         StreamInv(uip, attempt, choice),
         uip' = uip, accepted' = accepted, written' = written, finished' = finished,
         toServer' \subseteq toServer
  PROVE  /\ \A isn : Keeps(isn, attempt, attempt)
         /\ HistoryInv(uip, attempt, choice)'
         /\ \A k \in 1..accepted : /\ attempt[k] = attempt[k] /\ written[k] <= written'[k]
                                   /\ k \in finished => k \in finished' /\ written'[k] = written[k]
         /\ accepted <= accepted'
<1>1. accepted \in Nat /\ accepted <= accepted /\ accepted <= MaxAccepts /\ MaxAccepts \in Nat
  BY ConstantsAssumption DEF TypeInv, TypeOK
<1>2. \A k \in 1..accepted : written[k] \in Nat
  BY <1>1, ConstantsAssumption DEF TypeInv, TypeOK
<1>3. \A k \in 1..accepted : written[k] <= written'[k]
  BY <1>2
<1>4. \A isn : Keeps(isn, attempt, attempt)
  BY <1>1 DEF Keeps
<1>5. HistoryInv(uip, attempt, choice)'
  BY DEF StreamInv, HistoryInv, High, Known
<1> QED
  BY <1>1, <1>3, <1>4, <1>5

\* The server forgets a connection.
LEMMA ListeningStream ==
  ASSUME TypeInv, TypeInv', NEW port \in Ports, Turns(port, Listening),
         NEW attempt \in Attempts, NEW choice \in Choices, StreamInv(uip, attempt, choice),
         uip' = uip, accepted' = accepted, written' = written, finished' = finished,
         toServer' \subseteq toServer,
         toClient' \subseteq toClient \cup {p \in Segments : ~Ordinary(p)}
  PROVE  StreamInv(uip, attempt, choice)'
<1>1. /\ Keeps(Listening.isn, attempt, attempt) /\ HistoryInv(uip, attempt, choice)'
      /\ \A k \in 1..accepted : /\ attempt[k] = attempt[k] /\ written[k] <= written'[k]
                                /\ k \in finished => k \in finished' /\ written'[k] = written[k]
      /\ accepted <= accepted'
  BY SilentKept
<1>2. Fits(port, Listening, attempt, choice)
  BY DEF Fits, Listening
<1>3. Onward(attempt, attempt)
  <2>1. ASSUME NEW q \in Ports, server'[q].state # "LISTEN"
        PROVE  /\ server[q].state # "LISTEN" /\ server'[q].isn = server[q].isn
               /\ server[q].rcv_nxt[2] <= server'[q].rcv_nxt[2]
    <3>1. server \in [Ports -> ServerConnection] /\ Listening.state = "LISTEN"
      BY DEF TypeInv, TypeOK, Listening
    <3>2. server'[q] = server[q]
      BY <2>1, <3>1 DEF Turns
    <3>3. server[q].rcv_nxt[2] \in Nat
      BY <3>1 DEF ServerConnection, Seqs
    <3> QED
      BY <2>1, <3>2, <3>3
  <2> QED
    BY <1>1, <2>1 DEF Onward
<1>4. ToClientInv(attempt, choice)'
  BY <1>3, OnwardToClient DEF StreamInv
<1> QED
  BY <1>1, <1>2, <1>4, TurnsStream

\* The server takes an acknowledgement and what follows in order: it has been told no more
\* than we have received, and has received no more than we have sent.
LEMMA TakesStream ==
  ASSUME TypeInv, TypeInv', NEW p \in toServer, Ordinary(p), "SYN" \notin p.flags,
         server[p.port].state # "LISTEN", NEW sv2, Turns(p.port, sv2),
         Takes(server[p.port], p, sv2),
         NEW attempt \in Attempts, NEW choice \in Choices, StreamInv(uip, attempt, choice),
         uip' = uip, accepted' = accepted, written' = written, finished' = finished,
         toServer' \subseteq toServer, toClient' = toClient
  PROVE  StreamInv(uip, attempt, choice)'
<1> DEFINE sv == server[p.port]
           k == sv.isn
<1>1. /\ Keeps(sv2.isn, attempt, attempt) /\ HistoryInv(uip, attempt, choice)'
      /\ \A j \in 1..accepted : /\ attempt[j] = attempt[j] /\ written[j] <= written'[j]
                                /\ j \in finished => j \in finished' /\ written'[j] = written[j]
      /\ accepted <= accepted'
  BY SilentKept
<1>2. p \in Segments /\ p.port \in Ports /\ server \in [Ports -> ServerConnection]
  BY DEF TypeInv, TypeOK, Segments
<1>3. /\ sv \in ServerConnection /\ k \in 1..MaxAccepts /\ k \in 1..accepted
      /\ written[k] \in 0..MaxData
      /\ sv.una \in Nat /\ sv.nxt \in Nat /\ sv.rcv_nxt[1] \in Nat /\ sv.rcv_nxt[2] \in Nat
      /\ PortInv(uip, sv, attempt, choice) /\ Alone(p.port)
      /\ \A c \in Slots : Agree(uip.conns[c], sv)
  BY <1>2, PortFacts
<1>4. /\ sv2 \in ServerConnection /\ sv2.una \in Nat /\ sv2.rcv_nxt[1] \in Nat
      /\ sv2.rcv_nxt[2] \in Nat /\ sv2.state \in ServerStates
      /\ sv2.isn = k /\ sv2.nxt = sv.nxt
  BY DEF Turns, Takes, ServerConnection, Seqs
<1>5. /\ Asks(uip, p, attempt, choice) /\ \A c \in Slots : Behind(uip.conns[c], p)
  BY DEF StreamInv, ToServerInv
<1>6. \A j : High(uip, j)' = High(uip, j) /\ (Known(attempt, choice, j)' <=> Known(attempt, choice, j))
  BY DEF High, Known
<1>7. sv2.una # sv.una => /\ Known(attempt, choice, k) /\ sv2.una <= High(uip, k)
                          /\ sv.una < sv2.una /\ sv2.una <= sv.nxt
  <2> SUFFICES ASSUME sv2.una # sv.una
               PROVE  /\ Known(attempt, choice, k) /\ sv2.una <= High(uip, k)
                      /\ sv.una < sv2.una /\ sv2.una <= sv.nxt
    OBVIOUS
  <2>1. /\ "ACK" \in p.flags /\ p.ack[1] = k /\ sv2.una = p.ack[2]
        /\ sv.una < sv2.una /\ sv2.una <= sv.nxt
    BY DEF Takes
  <2>2. k # 0
    BY <1>3
  <2> QED
    BY <1>5, <2>1, <2>2 DEF Asks
<1>8. /\ sv2.rcv_nxt[1] = sv.rcv_nxt[1] /\ sv.rcv_nxt[2] <= sv2.rcv_nxt[2]
      /\ \/ sv2.rcv_nxt = sv.rcv_nxt
         \/ p.seq = sv.rcv_nxt /\ sv2.rcv_nxt[2] <= p.seq[2] + Size(p) /\ sv2.state # "SYN_RCVD"
  BY <1>3 DEF Takes
<1>9. \/ sv2.state = sv.state /\ (sv.state = "SYN_RCVD" => sv2.una = sv.una)
      \/ sv.state = "SYN_RCVD" /\ sv2.state = "ESTABLISHED" /\ sv2.una # sv.una
      \/ sv.state = "FIN_WAIT" /\ sv2.state = "TIME_WAIT"
  BY DEF Takes
<1>10. PortInv(uip, sv2, attempt, choice)'
  <2>1. k \in 1..accepted /\ attempt[k] = sv2.rcv_nxt[1] /\ sv2.rcv_nxt[1] < uip.iss
    BY <1>3, <1>8 DEF PortInv
  <2>2. sv2.rcv_nxt[2] >= 1
    BY <1>3, <1>4, <1>8 DEF PortInv
  <2>3. sv2.una <= High(uip, k) /\ sv2.una <= sv2.nxt
    BY <1>3, <1>4, <1>7 DEF PortInv
  <2>4. sv2.state = "SYN_RCVD" => /\ sv2.una = 0 /\ sv2.nxt = 1 /\ sv2.rcv_nxt[2] = 1
                                  /\ written[k] = 0 /\ k \notin finished
    BY <1>3, <1>4, <1>8, <1>9 DEF PortInv
  <2>5. sv2.state # "SYN_RCVD" => sv2.una >= 1 /\ Known(attempt, choice, k)
    <3>1. CASE sv2.una # sv.una
      BY <1>3, <1>4, <1>7, <3>1
    <3>2. CASE sv2.una = sv.una
      <4>1. sv2.state # "SYN_RCVD" => sv.state # "SYN_RCVD"
        BY <1>9, <3>2
      <4> QED
        BY <1>3, <3>2, <4>1 DEF PortInv
    <3> QED
      BY <3>1, <3>2
  <2>6. sv2.state = "ESTABLISHED" => sv2.nxt = written[k] + 1 /\ k \notin finished
    <3>1. CASE sv.state = "SYN_RCVD"
      BY <1>3, <1>4, <3>1 DEF PortInv
    <3>2. CASE sv.state # "SYN_RCVD"
      BY <1>3, <1>4, <1>9, <3>2 DEF PortInv
    <3> QED
      BY <3>1, <3>2
  <2>7. sv2.state \in {"FIN_WAIT", "TIME_WAIT"} => sv2.nxt = written[k] + 2 /\ k \in finished
    BY <1>3, <1>4, <1>9 DEF PortInv
  <2> HIDE DEF k
  <2> QED
    BY <1>4, <1>6, <2>1, <2>2, <2>3, <2>4, <2>5, <2>6, <2>7 DEF PortInv
<1>11. ASSUME NEW c \in Slots PROVE Agree(uip.conns[c], sv2)
  <2> DEFINE conn == uip.conns[c]
             n == conn.snd_nxt[2] + conn.len
  <2>1. conn \in Connection /\ Agree(conn, sv) /\ Behind(conn, p)
    BY <1>3, <1>5 DEF TypeInv, TypeOK, UipState
  <2>2. conn.snd_nxt[2] \in Nat /\ n \in Nat /\ p.seq[2] + Size(p) \in Nat
    BY <1>2, <2>1 DEF Connection, Segments, Seqs, Size
  <2>3. ASSUME Open(conn), conn.snd_nxt[1] = sv2.rcv_nxt[1] PROVE sv2.rcv_nxt[2] <= n
    <3>1. CASE sv2.rcv_nxt = sv.rcv_nxt
      BY <2>1, <2>3, <3>1 DEF Agree
    <3>2. CASE p.seq = sv.rcv_nxt /\ sv2.rcv_nxt[2] <= p.seq[2] + Size(p)
      <4>1. p.seq[2] + Size(p) <= n
        BY <1>8, <2>1, <2>3, <3>2 DEF Behind
      <4> DEFINE l == p.seq[2] + Size(p)
      <4>2. l \in Nat /\ sv2.rcv_nxt[2] <= l /\ l <= n
        BY <2>2, <3>2, <4>1
      <4> HIDE DEF l, n
      <4> QED
        BY <1>4, <2>2, <4>2
    <3> QED
      BY <1>8, <3>1, <3>2
  <2>4. ASSUME Joined(conn), conn.rcv_nxt[1] = k PROVE conn.snd_nxt[2] <= sv2.rcv_nxt[2]
    <3>1. conn.snd_nxt[2] <= sv.rcv_nxt[2]
      BY <2>1, <2>4 DEF Agree
    <3> QED
      BY <1>3, <1>4, <1>8, <2>2, <3>1
  <2> QED
    BY <1>4, <2>3, <2>4 DEF Agree
<1>12. Fits(p.port, sv2, attempt, choice)
  <2>1. \A q \in Ports : q # p.port /\ server[q].state # "LISTEN" => server[q].isn # sv2.isn
    BY <1>3, <1>4 DEF Alone
  <2>2. sv2.state # "LISTEN"
    BY <1>9
  <2> QED
    BY <1>10, <1>11, <2>1, <2>2 DEF Fits
<1>13. Onward(attempt, attempt)
  <2>1. ASSUME NEW q \in Ports, server'[q].state # "LISTEN"
        PROVE  /\ server[q].state # "LISTEN" /\ server'[q].isn = server[q].isn
               /\ server[q].rcv_nxt[2] <= server'[q].rcv_nxt[2]
    <3>1. CASE q = p.port
      BY <1>2, <1>4, <1>8, <3>1 DEF Turns
    <3>2. CASE q # p.port
      <4>1. server'[q] = server[q] /\ server[q].rcv_nxt[2] \in Nat
        BY <1>2, <3>2 DEF Turns, ServerConnection, Seqs
      <4> QED
        BY <2>1, <4>1
    <3> QED
      BY <3>1, <3>2
  <2> QED
    BY <1>1, <2>1 DEF Onward
<1>14. ToClientInv(attempt, choice)'
  BY <1>13, OnwardToClient DEF StreamInv
<1> QED
  BY <1>1, <1>2, <1>12, <1>14, TurnsStream

\* The attempt that a connection answers is known when it is accepted
Accepting(attempt, k, a) == [attempt EXCEPT ![k] = a]

\* The server accepts a connection: its end of it expects what follows the SYN, which was sent.
LEMMA AcceptsStream ==
  ASSUME TypeInv, TypeInv', NEW p \in toServer, ServerAccepts(p),
         NEW attempt \in Attempts, NEW choice \in Choices, StreamInv(uip, attempt, choice),
         uip' = uip, written' = written, finished' = finished, toServer' \subseteq toServer
  PROVE  \E attempt2 \in Attempts : StreamInv(uip, attempt2, choice)'
<1> DEFINE k == accepted + 1
<1>1. PICK sv2 : Turns(p.port, sv2) /\ Accepts(p, sv2)
  BY ServerAcceptsEffect
<1>2. /\ p \in Segments /\ p.port \in Ports /\ p.seq[1] \in Nat /\ p.seq[2] \in Nat /\ p.len \in Nat
      /\ server \in [Ports -> ServerConnection]
  BY DEF TypeInv, TypeOK, Segments, Seqs
<1>3. /\ accepted \in Nat /\ MaxAccepts \in Nat /\ accepted < MaxAccepts /\ accepted' = k
      /\ p.flags = {"SYN"} /\ toClient' = toClient /\ server[p.port].state = "LISTEN"
  BY ConstantsAssumption DEF TypeInv, TypeOK, ServerAccepts
<1>4. k \in 1..MaxAccepts /\ k \in 1..k /\ k \notin 1..accepted /\ accepted <= k
      /\ k \in Nat /\ k > accepted /\ \A j \in 1..accepted : j \in 1..MaxAccepts /\ j # k
  BY <1>3
<1> HIDE DEF k
<1>5. PICK attempt2 \in Attempts : /\ attempt2[k] = p.seq[1]
                                  /\ \A j \in 1..accepted : attempt2[j] = attempt[j]
  <2> DEFINE e == Accepting(attempt, k, p.seq[1])
  <2>1. /\ e \in Attempts /\ e[k] = p.seq[1]
        /\ \A j \in 1..accepted : e[j] = attempt[j]
    BY <1>2, <1>4 DEF Accepting, Attempts
  <2> HIDE DEF e
  <2> QED
    BY <2>1
<1>6. Asks(uip, p, attempt, choice) /\ \A c \in Slots : Behind(uip.conns[c], p)
  BY <1>3 DEF StreamInv, ToServerInv, Ordinary
<1>7. p.seq[2] = 0 /\ p.seq[1] < uip.iss /\ Size(p) = p.len + 1
  BY <1>3, <1>6 DEF Asks, Size
<1>8. /\ sv2.state = "SYN_RCVD" /\ sv2.isn = k /\ sv2.una = 0 /\ sv2.nxt = 1
      /\ sv2.rcv_nxt = <<p.seq[1], 1>> /\ sv2.rcv_nxt[1] = p.seq[1] /\ sv2.rcv_nxt[2] = 1
  BY <1>1, <1>7 DEF Accepts, uip_add32, k
<1>9. \A j : High(uip, j)' = High(uip, j)
  BY DEF High
<1>10. \A j : Known(attempt, choice, j) => Known(attempt2, choice, j)'
  <2> SUFFICES ASSUME NEW j, Known(attempt, choice, j)
               PROVE  Known(attempt2, choice, j)'
    OBVIOUS
  <2>1. j \in 1..accepted /\ choice[attempt[j]] = j
    BY DEF Known
  <2>2. j \in 1..accepted'
    BY <1>3, <1>4, <2>1
  <2> QED
    BY <1>5, <2>1, <2>2 DEF Known
<1>11. HistoryInv(uip, attempt2, choice)'
  <2> SUFFICES ASSUME NEW j \in 1..MaxAccepts
               PROVE  /\ Len(uip'.received[j]) <= written'[j]
                      /\ j \in uip'.ended => j \in finished' /\ Len(uip'.received[j]) = written'[j]
                      /\ High(uip, j)' > 1 => Known(attempt2, choice, j)'
                      /\ j > accepted' => written'[j] = 0 /\ j \notin finished'
    BY DEF HistoryInv
  <2>1. /\ Len(uip.received[j]) <= written[j]
        /\ j \in uip.ended => j \in finished /\ Len(uip.received[j]) = written[j]
        /\ High(uip, j) > 1 => Known(attempt, choice, j)
        /\ j > accepted => written[j] = 0 /\ j \notin finished
    BY DEF StreamInv, HistoryInv
  <2>2. j > accepted' => j > accepted
    BY <1>3, <1>4
  <2> QED
    BY <1>9, <1>10, <2>1, <2>2
<1>12. Keeps(sv2.isn, attempt, attempt2)
  BY <1>3, <1>4, <1>5 DEF Keeps
<1>13. PortInv(uip, sv2, attempt2, choice)'
  <2>1. High(uip, k) \in Nat
    BY <1>4, HighType DEF TypeInv, TypeOK
  <2>2. 0 <= High(uip, k)
    BY <2>1
  <2>3. written[k] = 0 /\ k \notin finished
    BY <1>4 DEF StreamInv, HistoryInv
  <2>4. sv2.isn \in 1..accepted'
    BY <1>3, <1>4, <1>8
  <2> QED
    BY <1>5, <1>7, <1>8, <1>9, <2>2, <2>3, <2>4 DEF PortInv
<1>14. ASSUME NEW c \in Slots PROVE Agree(uip.conns[c], sv2)
  <2> DEFINE conn == uip.conns[c]
  <2>1. conn \in Connection /\ Behind(conn, p) /\ EntryInv(uip, conn, attempt, choice)
    BY <1>6 DEF TypeInv, TypeOK, UipState, StreamInv, TableInv
  <2>2. conn.snd_nxt[2] \in Nat /\ conn.len \in Nat
    BY <2>1 DEF Connection, Seqs
  <2>3. ASSUME Open(conn), conn.snd_nxt[1] = p.seq[1] PROVE 1 <= conn.snd_nxt[2] + conn.len
    <3>1. p.seq[2] + Size(p) <= conn.snd_nxt[2] + conn.len
      BY <2>1, <2>3 DEF Behind
    <3>2. 0 + (p.len + 1) <= conn.snd_nxt[2] + conn.len
      BY <1>7, <3>1
    <3> QED
      BY <1>2, <2>2, <3>2
  <2>4. conn.rcv_nxt[1] # k
    BY <1>3, <1>4, <2>1 DEF EntryInv, Known
  <2> QED
    BY <1>8, <2>3, <2>4 DEF Agree
<1>15. Fits(p.port, sv2, attempt2, choice)
  <2>1. \A q \in Ports : server[q].state # "LISTEN" => server[q].isn # k
    BY <1>4 DEF StreamInv, ServerInv, PortInv
  <2> QED
    BY <1>8, <1>13, <1>14, <2>1 DEF Fits
<1>16. Onward(attempt, attempt2)
  <2>1. ASSUME NEW j \in 1..accepted
        PROVE  /\ written[j] <= written'[j]
               /\ j \in finished => j \in finished' /\ written'[j] = written[j]
    <3>1. written[j] \in 0..MaxData /\ MaxData \in Nat
      BY <1>4, ConstantsAssumption DEF TypeInv, TypeOK
    <3>2. written[j] <= written[j]
      BY <3>1
    <3> QED
      BY <3>2
  <2>2. ASSUME NEW q \in Ports, server'[q].state # "LISTEN"
        PROVE  \/ server'[q].isn \notin 1..accepted
               \/ /\ server[q].state # "LISTEN" /\ server'[q].isn = server[q].isn
                  /\ server[q].rcv_nxt[2] <= server'[q].rcv_nxt[2]
    <3>1. CASE q = p.port
      BY <1>1, <1>2, <1>4, <1>8, <3>1 DEF Turns
    <3>2. CASE q # p.port
      <4>1. server'[q] = server[q] /\ server[q].rcv_nxt[2] \in Nat
        BY <1>1, <1>2, <3>2 DEF Turns, ServerConnection, Seqs
      <4> QED
        BY <2>2, <4>1
    <3> QED
      BY <3>1, <3>2
  <2> QED
    BY <1>3, <1>4, <1>5, <2>1, <2>2 DEF Onward
<1>17. ToClientInv(attempt2, choice)'
  BY <1>3, <1>5, <1>16, OnwardToClient DEF StreamInv
<1>18. StreamInv(uip, attempt2, choice)'
  BY <1>1, <1>2, <1>5, <1>11, <1>12, <1>15, <1>17, TurnsStream
<1> QED
  BY <1>5, <1>18

\* Whatever the server makes of a segment, the stream is kept.
LEMMA ServerReceivesStream ==
  ASSUME TypeInv, TypeInv', NEW p \in toServer, ServerReceives(p),
         NEW attempt \in Attempts, NEW choice \in Choices, StreamInv(uip, attempt, choice)
  PROVE  \E attempt2 \in Attempts : StreamInv(uip, attempt2, choice)'
<1>1. uip' = uip /\ written' = written /\ finished' = finished /\ toServer' \subseteq toServer
  BY DEF ServerReceives, UipVars
<1>2. p \in Segments /\ p.port \in Ports
  BY DEF TypeInv, TypeOK, Segments
<1>3. SameTable(uip, uip') /\ SameHistory(uip, uip')
  BY <1>1 DEF SameTable, SameHistory
<1>4. CASE ServerAccepts(p)
  BY <1>1, <1>4, AcceptsStream
<1>5. CASE ServerRefuses(p)
  <2>1. /\ server' = server /\ accepted' = accepted
        /\ toClient' \subseteq toClient \cup {q \in Segments : ~Ordinary(q)}
    BY <1>5, ServerRefusesEffect
  <2>2. ToClientInv(attempt, choice)'
    BY <1>1, <2>1 DEF StreamInv, ToClientInv, Answers, Known
  <2>3. StreamInv(uip, attempt, choice)'
    BY <1>1, <1>3, <2>1, <2>2, StillStream DEF ServerVars
  <2> QED
    BY <2>3
<1>6. CASE ServerUpdates(p)
  <2>1. accepted' = accepted /\ toClient' = toClient
    BY <1>6 DEF ServerUpdates
  <2>2. CASE server' = server
    <3>1. StreamInv(uip, attempt, choice)'
      BY <1>1, <1>3, <2>1, <2>2, RestStream DEF ServerVars
    <3> QED
      BY <3>1
  <2>3. CASE Turns(p.port, Listening)
    <3>1. StreamInv(uip, attempt, choice)'
      BY <1>1, <1>2, <2>1, <2>3, ListeningStream
    <3> QED
      BY <3>1
  <2>4. CASE /\ Ordinary(p) /\ "SYN" \notin p.flags
             /\ server[p.port].state # "LISTEN"
             /\ \E sv2 : Turns(p.port, sv2) /\ Takes(server[p.port], p, sv2)
    <3>1. PICK sv2 : Turns(p.port, sv2) /\ Takes(server[p.port], p, sv2)
      BY <2>4
    <3>2. StreamInv(uip, attempt, choice)'
      BY <1>1, <2>1, <2>4, <3>1, TakesStream
    <3> QED
      BY <3>2
  <2> QED
    BY <1>6, <2>2, <2>3, <2>4, ServerUpdatesEffect
<1> QED
  BY <1>4, <1>5, <1>6 DEF ServerReceives

\* The handlers of the periodic timer and of a segment keep the stream.
LEMMA HandlersStream ==
  ASSUME TypeInv, NEW attempt \in Attempts, NEW choice \in Choices,
         StreamInv(uip, attempt, choice),
         \/ \E c \in Slots : Periodic(c)
         \/ \E p \in toClient, c \in Slots, rtt \in Rtos : ReceiveFound(p, c, rtt)
         \/ \E p \in toClient : ReceiveStray(p)
  PROVE  \E choice2 \in Choices : StreamInv(uip, attempt, choice2)'
<1>1. uip \in UipState /\ \A d \in Slots : Sound(uip.conns[d])
  BY DEF TypeInv, TypeOK
<1>2. ASSUME NEW c \in Slots, Periodic(c)
      PROVE  \E choice2 \in Choices : StreamInv(uip, attempt, choice2)'
  <2>1. PICK t : Leaves(t) /\ Quiet(uip, t, c)
    BY <1>2, PeriodicLeaves
  <2>2. StreamInv(t, attempt, choice) /\ (OnlyResets(t.out) \/ Says(t.conns[c], t.out))
    BY <1>1, <2>1, QuietGoes
  <2>3. t \in UipState /\ \A d \in Slots : Sound(t.conns[d])
    BY <1>1, <2>1, QuietProper DEF Proper
  <2>4. StreamInv(uip, attempt, choice)'
    BY <2>1, <2>2, <2>3, LeavesStream
  <2> QED
    BY <2>4
<1>3. ASSUME NEW p \in toClient, NEW c \in Slots, NEW rtt \in Rtos, ReceiveFound(p, c, rtt)
      PROVE  \E choice2 \in Choices : StreamInv(uip, attempt, choice2)'
  <2>1. PICK t : Leaves(t) /\ Handles(uip, t, c, p) /\ (~Ordinary(p) => Quiet(uip, t, c))
    BY <1>3, ReceiveFoundLeaves
  <2>2. PICK choice2 \in Choices :
          /\ StreamInv(t, attempt, choice2)
          /\ t \in UipState /\ (OnlyResets(t.out) \/ Says(t.conns[c], t.out))
    BY <1>1, <2>1, HandlesStream
  <2>3. t \in UipState /\ \A d \in Slots : Sound(t.conns[d])
    BY <1>1, <2>1, HandlesProper DEF Proper
  <2>4. StreamInv(uip, attempt, choice2)'
    BY <2>1, <2>2, <2>3, LeavesStream
  <2> QED
    BY <2>4
<1>4. ASSUME NEW p \in toClient, ReceiveStray(p)
      PROVE  \E choice2 \in Choices : StreamInv(uip, attempt, choice2)'
  <2>1. PICK t : Leaves(t) /\ SameTable(uip, t) /\ SameHistory(uip, t) /\ OnlyResets(t.out)
    BY <1>4, ReceiveStrayLeaves
  <2>2. StreamInv(t, attempt, choice)
    BY <2>1, SameStream
  <2>3. t \in UipState /\ \A d \in Slots : Sound(t.conns[d])
    BY <1>1, <2>1 DEF Leaves, SameTable
  <2>4. 0 \in Slots
    BY ConstantsAssumption DEF Slots
  <2>5. StreamInv(uip, attempt, choice)'
    BY <2>1, <2>2, <2>3, <2>4, LeavesStream
  <2> QED
    BY <2>5
<1> QED
  BY <1>2, <1>3, <1>4

\* Every step within a boot keeps the stream.
LEMMA StepStream == IInv /\ [WithinBoot]_vars => IInv'
<1> SUFFICES ASSUME IInv, [WithinBoot]_vars
             PROVE  IInv'
  OBVIOUS
<1>1. TypeInv /\ TypeInv'
  BY StepType DEF IInv, Next
<1>2. PICK attempt \in Attempts, choice \in Choices : StreamInv(uip, attempt, choice)
  BY DEF IInv
<1>3. ASSUME NEW attempt2 \in Attempts, NEW choice2 \in Choices,
             StreamInv(uip, attempt2, choice2)'
      PROVE  IInv'
  BY <1>1, <1>3 DEF IInv
<1>4. CASE TCPIP_ConnectToRemoteHost \/ TCPIP_TCPIPTask \/ Tick \/ Reinitialize
  BY <1>1, <1>2, <1>3, <1>4, OursStream
<1>5. CASE \/ \E c \in Slots : Periodic(c)
           \/ \E p \in toClient, c \in Slots, rtt \in Rtos : ReceiveFound(p, c, rtt)
           \/ \E p \in toClient : ReceiveStray(p)
  <2>1. PICK choice2 \in Choices : StreamInv(uip, attempt, choice2)'
    BY <1>1, <1>2, <1>5, HandlersStream
  <2> QED
    BY <1>3, <2>1
<1>6. ASSUME NEW port \in Ports, ServerSends(port) PROVE IInv'
  BY <1>1, <1>2, <1>3, <1>6, ServerSendsStream
<1>7. ASSUME NEW port \in Ports, ServerWrites(port) \/ ServerFinishes(port) PROVE IInv'
  BY <1>1, <1>2, <1>3, <1>7, ServerSaysStream
<1>8. ASSUME NEW port \in Ports, ServerForgets(port) PROVE IInv'
  <2>1. /\ Turns(port, Listening)
        /\ toClient' \subseteq toClient \cup {p \in Segments : ~Ordinary(p)}
    BY <1>1, <1>8, ServerForgetsEffect
  <2>2. /\ uip' = uip /\ accepted' = accepted /\ written' = written /\ finished' = finished
        /\ toServer' \subseteq toServer
    BY <1>8 DEF ServerForgets, UipVars
  <2>3. StreamInv(uip, attempt, choice)'
    BY <1>1, <1>2, <2>1, <2>2, ListeningStream
  <2> QED
    BY <1>3, <2>3
<1>9. ASSUME NEW p \in toServer, ServerReceives(p) PROVE IInv'
  <2>1. PICK attempt2 \in Attempts : StreamInv(uip, attempt2, choice)'
    BY <1>1, <1>2, <1>9, ServerReceivesStream
  <2> QED
    BY <1>3, <2>1
<1>10. CASE Lose \/ UNCHANGED vars
  <2>1. /\ UNCHANGED ServerVars /\ SameTable(uip, uip') /\ SameHistory(uip, uip')
        /\ toServer' \subseteq toServer /\ toClient' \subseteq toClient
    BY <1>10 DEF Lose, vars, ServerVars, UipVars, SameTable, SameHistory
  <2>2. StreamInv(uip, attempt, choice)'
    BY <1>2, <2>1, RestStream
  <2> QED
    BY <1>3, <2>2
<1> QED
  BY <1>4, <1>5, <1>6, <1>7, <1>8, <1>9, <1>10 DEF WithinBoot, MainLoop

\* It begins empty.
LEMMA InitStream == Init => IInv
<1> SUFFICES ASSUME Init
             PROVE  IInv
  OBVIOUS
<1> DEFINE attempt == [k \in 1..MaxAccepts |-> 0]
           choice  == [a \in Nat |-> 0]
<1>1. attempt \in Attempts /\ choice \in Choices /\ \A a \in Nat : choice[a] = 0
  BY DEF Attempts, Choices
<1> HIDE DEF attempt, choice
<1>2. /\ \A c \in Slots : /\ uip.conns[c].tcpstate = "CLOSED" /\ uip.conns[c].rcv_nxt = <<0, 0>>
                          /\ uip.conns[c].snd_nxt = <<0, 0>>
      /\ uip.received = [k \in 1..MaxAccepts |-> <<>>] /\ uip.ended = {} /\ uip.iss = 0
  BY DEF Init, UipInit, Closed
<1>3. \A k \in 1..MaxAccepts : Len(uip.received[k]) = 0 /\ High(uip, k) = 1
  BY <1>2 DEF High
<1>4. TableInv(uip, attempt, choice)
  BY <1>1, <1>2 DEF TableInv, EntryInv, Open, Joined
<1>5. HistoryInv(uip, attempt, choice)
  BY <1>2, <1>3 DEF Init, HistoryInv
<1>6. ServerInv(uip, attempt, choice)
  BY DEF Init, Listening, ServerInv
<1>7. ToServerInv(uip, attempt, choice) /\ ToClientInv(attempt, choice)
  BY DEF Init, ToServerInv, ToClientInv
<1> QED
  BY <1>1, <1>4, <1>5, <1>6, <1>7, InitType DEF IInv, StreamInv

\* The invariant gives how far the two ends are.
LEMMA Synchronized == IInv => SynchronizedWithServer
<1> SUFFICES ASSUME IInv, NEW c \in Slots,
                    uip.conns[c].tcpstate \in {"ESTABLISHED", "LAST_ACK"},
                    server[uip.conns[c].lport].state # "LISTEN",
                    server[uip.conns[c].lport].isn = uip.conns[c].rcv_nxt[1]
             PROVE  LET conn == uip.conns[c]
                        sv   == server[conn.lport]
                    IN  /\ sv.una <= conn.rcv_nxt[2] /\ conn.rcv_nxt[2] <= sv.nxt
                        /\ sv.rcv_nxt[1] = conn.snd_nxt[1]
                        /\ conn.snd_nxt[2] <= sv.rcv_nxt[2]
                        /\ sv.rcv_nxt[2] <= conn.snd_nxt[2] + conn.len
  BY DEF SynchronizedWithServer
<1> DEFINE conn == uip.conns[c]
           sv   == server[conn.lport]
           k    == sv.isn
<1>1. PICK attempt \in Attempts, choice \in Choices : StreamInv(uip, attempt, choice)
  BY DEF IInv
<1>2. TypeInv /\ uip \in UipState /\ conn \in Connection /\ Sound(conn) /\ Joined(conn) /\ Open(conn)
  BY DEF IInv, TypeInv, TypeOK, UipState, Joined, Open
<1>3. conn.lport \in Ports
  BY <1>2 DEF Sound
<1>4. /\ sv.isn \in 1..MaxAccepts /\ sv.isn \in 1..accepted
      /\ written[sv.isn] \in 0..MaxData /\ sv.state \in ServerStates
      /\ sv.una \in Nat /\ sv.nxt \in Nat /\ sv.rcv_nxt[1] \in Nat /\ sv.rcv_nxt[2] \in Nat
      /\ PortInv(uip, sv, attempt, choice) /\ Agree(conn, sv)
  BY <1>1, <1>2, <1>3, PortFacts DEF ServerConnection
<1>5. /\ choice[conn.snd_nxt[1]] = k /\ attempt[k] = conn.snd_nxt[1]
      /\ conn.rcv_nxt[2] = High(uip, k)
  BY <1>1, <1>2 DEF StreamInv, TableInv, EntryInv
<1>6. sv.una <= conn.rcv_nxt[2] /\ sv.rcv_nxt[1] = conn.snd_nxt[1]
  BY <1>4, <1>5 DEF PortInv
<1>7. conn.snd_nxt[2] <= sv.rcv_nxt[2] /\ sv.rcv_nxt[2] <= conn.snd_nxt[2] + conn.len
  BY <1>2, <1>4, <1>6 DEF Agree
<1>8. High(uip, k) <= sv.nxt
  <2> DEFINE n == Len(uip.received[k])
             w == written[k]
  <2>1. /\ n <= w
        /\ k \in uip.ended => k \in finished /\ n = w
    BY <1>1, <1>4 DEF StreamInv, HistoryInv
  <2>2. n \in Nat /\ w \in Nat
    <3>1. uip.received[k] \in Seq(Nat \X Nat)
      BY <1>2, <1>4 DEF UipState
    <3>2. w \in Nat
      BY <1>4, ConstantsAssumption
    <3> QED
      BY <3>1, <3>2, LengthType
  <2>3. High(uip, k) = n + 1 + (IF k \in uip.ended THEN 1 ELSE 0)
    BY DEF High
  <2>4. /\ sv.state = "SYN_RCVD" => sv.nxt = 1 /\ w = 0 /\ k \notin finished
        /\ sv.state = "ESTABLISHED" => sv.nxt = w + 1 /\ k \notin finished
        /\ sv.state \in {"FIN_WAIT", "TIME_WAIT"} => sv.nxt = w + 2 /\ k \in finished
    BY <1>4 DEF PortInv
  <2>5. \/ sv.state = "SYN_RCVD" \/ sv.state = "ESTABLISHED" \/ sv.state \in {"FIN_WAIT", "TIME_WAIT"}
    BY <1>4 DEF ServerStates
  <2> HIDE DEF n, w, k, sv
  <2>6. CASE k \in uip.ended
    BY <1>4, <2>1, <2>2, <2>3, <2>4, <2>5, <2>6
  <2>7. CASE k \notin uip.ended
    BY <1>4, <2>1, <2>2, <2>3, <2>4, <2>5, <2>7
  <2> QED
    BY <2>6, <2>7
<1> QED
  BY <1>5, <1>6, <1>7, <1>8

----------------------------------------------------------------------------
(* TCP implements ReliableStream *)

\* Nothing that answers is urgent when the server has nothing urgent to say: the callback
\* is handed all of a segment.
LEMMA NothingUrgent ==
  ASSUME UrgentPointers \subseteq {0}, NEW p \in Segments, NEW attempt, NEW choice,
         Answers(p, attempt, choice)
  PROVE  AppData(p) = DataOf(p)
<1>1. UrgentLength(p) = 0
  BY DEF UrgentLength, Answers
<1>2. p.len \in Nat
  BY DEF Segments
<1> DEFINE n == p.len
           data == DataOf(p)
<1>3. data = [j \in 1..n |-> data[j]]
  BY DEF DataOf
<1>4. n \in Nat
  BY <1>2
<1> HIDE DEF n, data
<1>5. SubSeq(data, 0 + 1, n) = data
  BY <1>3, <1>4
<1> QED
  BY <1>1, <1>5 DEF AppData, n, data

\* What a segment in order carries are the units that follow.
LEMMA UnitsFollow ==
  ASSUME NEW p, p.len \in Nat, NEW k, NEW n \in Nat, p.seq = <<k, n + 1>>
  PROVE  DataOf(p) = Stream!Units(k, n + 1, n + p.len)
<1> DEFINE l == p.len
<1>1. DataOf(p) = [j \in 1..l |-> <<k, n + 1 + j - 1>>]
  BY DEF DataOf
<1>2. Stream!Units(k, n + 1, n + l) = [j \in 1..(n + l - (n + 1) + 1) |-> <<k, n + 1 + j - 1>>]
  BY DEF Stream!Units
<1>3. n + l - (n + 1) + 1 = l
  <2>1. l \in Nat
    OBVIOUS
  <2> HIDE DEF l
  <2> QED
    BY <2>1
<1> HIDE DEF l
<1> QED
  BY <1>1, <1>2, <1>3 DEF l

\* A handler that tells the callback nothing leaves the stream alone.
LEMMA SilentStep ==
  ASSUME UNCHANGED <<written, finished>>, SameHistory(uip, uip')
  PROVE  [Stream!Next]_(Stream!vars)
BY DEF Stream!vars, SameHistory

\* What the callback is handed, and the end it is told of, is a delivery.
LEMMA DeliveryStep ==
  ASSUME TypeInv, UNCHANGED <<written, finished>>, NEW k \in 1..MaxAccepts, k \notin uip.ended,
         NEW n \in Nat, n = Len(uip.received[k]), NEW m \in Nat, n + m <= written[k],
         written[k] \in Nat,
         uip'.received = Appended(uip, k, Stream!Units(k, n + 1, n + m)),
         \/ uip'.ended = uip.ended
         \/ k \in finished /\ n + m = written[k] /\ uip'.ended = uip.ended \cup {k}
  PROVE  [Stream!Next]_(Stream!vars)
<1>1. n + m \in n..written[k]
  BY DEF TypeInv
<1>2. uip'.received = [uip.received EXCEPT ![k] = @ \o Stream!Units(k, Len(@) + 1, n + m)]
  BY DEF Appended
<1> DEFINE l == n + m
<1> HIDE DEF l
<1>3. Stream!Deliver(k, l)
  BY <1>2 DEF Stream!Deliver, l
<1>4. l \in Len(uip.received[k])..written[k]
  BY <1>1 DEF l
<1> QED
  BY <1>3, <1>4 DEF Stream!Next

\* A segment in order is a delivery of all that it carries.
LEMMA SegmentStep ==
  ASSUME UrgentPointers \subseteq {0}, TypeInv, NEW c \in Slots,
         NEW attempt \in Attempts, NEW choice \in Choices, StreamInv(uip, attempt, choice),
         NEW p \in toClient, Ordinary(p), NEW u, UNCHANGED <<written, finished>>,
         Moves(uip, u, c, p) \/ Ends(uip, u, c, p), SameHistory(u, uip')
  PROVE  [Stream!Next]_(Stream!vars)
<1> DEFINE k == uip.conns[c].rcv_nxt[1]
           n == Len(uip.received[k])
<1>1. p \in Segments /\ Sound(uip.conns[c]) /\ uip \in UipState /\ p.len \in Nat
  BY DEF TypeInv, TypeOK, Segments
<1>2. AppData(p) = DataOf(p)
  BY <1>1, NothingUrgent DEF StreamInv, ToClientInv
<1>3. uip'.received = u.received /\ uip'.ended = u.ended
  BY DEF SameHistory
<1>4. CASE u.received = uip.received /\ u.ended = uip.ended
  BY <1>3, <1>4, SilentStep DEF SameHistory
<1>5. CASE /\ uip.conns[c].tcpstate = "ESTABLISHED" /\ p.seq = uip.conns[c].rcv_nxt
           /\ u.received = Appended(uip, k, DataOf(p))
           /\ \/ u.ended = uip.ended
              \/ "FIN" \in p.flags /\ u.ended = uip.ended \cup {k}
  <2>1. /\ k \in 1..MaxAccepts /\ k \notin uip.ended
        /\ p.seq = <<k, n + 1>> /\ n \in Nat /\ written[k] \in Nat
        /\ n + p.len <= written[k]
        /\ "FIN" \in p.flags => k \in finished /\ n + p.len = written[k]
    BY SMTT(40), <1>1, <1>5, InOrder
  <2>2. DataOf(p) = Stream!Units(k, n + 1, n + p.len)
    BY <1>1, <2>1, UnitsFollow
  <2> DEFINE m == p.len
  <2>3. /\ k \in 1..MaxAccepts /\ k \notin uip.ended /\ n \in Nat /\ n = Len(uip.received[k])
        /\ m \in Nat /\ n + m <= written[k] /\ written[k] \in Nat
        /\ uip'.received = Appended(uip, k, Stream!Units(k, n + 1, n + m))
        /\ \/ uip'.ended = uip.ended
           \/ k \in finished /\ n + m = written[k] /\ uip'.ended = uip.ended \cup {k}
    BY <1>1, <1>3, <1>5, <2>1, <2>2
  <2> HIDE DEF k, n, m
  <2> QED
    BY <2>3, DeliveryStep
<1> QED
  BY <1>2, <1>4, <1>5 DEF Moves, Ends

\* Every step within a boot is one of the stream, or leaves it alone.
LEMMA StreamStep ==
  UrgentPointers \subseteq {0} /\ IInv /\ [WithinBoot]_vars => [Stream!Next]_(Stream!vars)
<1> SUFFICES ASSUME UrgentPointers \subseteq {0}, IInv, [WithinBoot]_vars
             PROVE  [Stream!Next]_(Stream!vars)
  OBVIOUS
<1>1. TypeInv /\ uip \in UipState
  BY DEF IInv, TypeInv, TypeOK
<1>2. PICK attempt \in Attempts, choice \in Choices : StreamInv(uip, attempt, choice)
  BY DEF IInv
<1>3. CASE TCPIP_ConnectToRemoteHost \/ TCPIP_TCPIPTask \/ Tick \/ Reinitialize
  <2>1. uip'.received = uip.received /\ uip'.ended = uip.ended
    BY <1>1, <1>3 DEF TCPIP_ConnectToRemoteHost, TCPIP_TCPIPTask, Tick, Reinitialize, UipState,
                      uip_connect, TCPIP_InitializeTCPStack, uip_init
  <2>2. UNCHANGED <<written, finished>>
    BY <1>3 DEF TCPIP_ConnectToRemoteHost, TCPIP_TCPIPTask, Tick, Reinitialize, ServerVars
  <2> QED
    BY <2>1, <2>2, SilentStep DEF SameHistory
<1>4. ASSUME NEW c \in Slots, Periodic(c) PROVE [Stream!Next]_(Stream!vars)
  <2>1. PICK t : Leaves(t) /\ Quiet(uip, t, c)
    BY <1>1, <1>4, PeriodicLeaves
  <2> QED
    BY <2>1, SilentStep DEF Leaves, Quiet, SameHistory, ServerVars
<1>5. ASSUME NEW p \in toClient, NEW c \in Slots, NEW rtt \in Rtos, ReceiveFound(p, c, rtt)
      PROVE  [Stream!Next]_(Stream!vars)
  <2>1. PICK t : Leaves(t) /\ Handles(uip, t, c, p) /\ (~Ordinary(p) => Quiet(uip, t, c))
    BY <1>1, <1>5, ReceiveFoundLeaves
  <2>2. SameHistory(t, uip') /\ UNCHANGED <<written, finished>>
    BY <2>1 DEF Leaves, ServerVars
  <2>3. CASE Quiet(uip, t, c)
    BY <2>2, <2>3, SilentStep DEF Quiet, SameHistory
  <2>4. CASE Reports(uip, t, c)
    <3>1. Quiet(uip, t, c)
      BY <1>1, <1>2, <2>4, ReportsQuiet DEF StreamInv
    <3> QED
      BY <2>3, <3>1
  <2>5. ASSUME Ordinary(p), NEW u, Quiet(u, t, c),
               Joins(uip, u, c, p) \/ Moves(uip, u, c, p) \/ Ends(uip, u, c, p)
        PROVE  [Stream!Next]_(Stream!vars)
    <3>1. SameHistory(u, uip')
      BY <2>2, <2>5 DEF Quiet, SameHistory
    <3>2. CASE Joins(uip, u, c, p)
      BY <2>2, <3>1, <3>2, SilentStep DEF Joins, SameHistory
    <3>3. CASE Moves(uip, u, c, p) \/ Ends(uip, u, c, p)
      BY <1>1, <1>2, <2>2, <2>5, <3>1, <3>3, SegmentStep
    <3> QED
      BY <2>5, <3>2, <3>3
  <2> QED
    BY <2>1, <2>3, <2>4, <2>5 DEF Handles
<1>6. ASSUME NEW p \in toClient, ReceiveStray(p) PROVE [Stream!Next]_(Stream!vars)
  <2>1. PICK t : Leaves(t) /\ SameTable(uip, t) /\ SameHistory(uip, t) /\ OnlyResets(t.out)
    BY <1>1, <1>6, ReceiveStrayLeaves
  <2> QED
    BY <2>1, SilentStep DEF Leaves, SameHistory, ServerVars
<1>7. ASSUME NEW port \in Ports, ServerWrites(port) \/ ServerFinishes(port)
      PROVE  [Stream!Next]_(Stream!vars)
  <2> DEFINE k == server[port].isn
  <2>1. server[port].state = "ESTABLISHED"
    BY <1>7 DEF ServerWrites, ServerFinishes
  <2>2. k \in 1..MaxAccepts /\ k \notin finished
    BY <1>1, <1>2, <2>1, PortFacts DEF PortInv
  <2>3. Stream!Write(k) \/ Stream!Finish(k)
    BY <1>7, <2>2 DEF ServerWrites, ServerFinishes, UipVars, Stream!Write, Stream!Finish
  <2> HIDE DEF k
  <2> QED
    BY <2>2, <2>3 DEF Stream!Next
<1>8. CASE \/ \E port \in Ports : ServerSends(port) \/ ServerForgets(port)
           \/ \E p \in toServer : ServerReceives(p)
           \/ Lose \/ UNCHANGED vars
  <2>1. uip' = uip /\ UNCHANGED <<written, finished>>
    BY <1>8 DEF ServerSends, ServerForgets, ServerReceives, Lose, vars, UipVars, ServerVars
  <2> QED
    BY <2>1, SilentStep DEF SameHistory
<1> QED
  BY <1>3, <1>4, <1>5, <1>6, <1>7, <1>8 DEF WithinBoot, MainLoop

\* The stream begins with nothing written and nothing handed over.
LEMMA StreamInit == Init => Stream!Init
BY DEF Init, UipInit, Stream!Init

\* Without a restart there is one boot only.
LEMMA OneBoot == MaxRestarts = 0 /\ TypeInv /\ [Next]_vars => [WithinBoot]_vars
BY DEF Next, Reboot, TypeInv, TypeOK

\* The invariant holds within a boot: whatever the network loses, duplicates and reorders.
THEOREM WithinBootInvariant == BootSpec => []IInv
<1>1. Init => IInv
  BY InitStream
<1>2. IInv /\ [WithinBoot]_vars => IInv'
  BY StepStream
<1> QED
  BY <1>1, <1>2, PTL DEF BootSpec

\* Within a boot of the board the two ends of a connection agree on how far they are
\* (uip.c:1454-1483), whatever the network does to the segments.
THEOREM SynchronizedWithinBoot == BootSpec => []SynchronizedWithServer
<1>1. IInv => SynchronizedWithServer
  BY Synchronized
<1> QED
  BY <1>1, WithinBootInvariant, PTL

\* A run without a restart is one within a boot.
LEMMA NoRestart ==
  ASSUME MaxRestarts = 0
  PROVE  Spec => BootSpec
<1>1. Init => TypeInv
  BY InitType
<1>2. TypeInv /\ [Next]_vars => TypeInv'
  BY StepType
<1>3. TypeInv /\ [Next]_vars => [WithinBoot]_vars
  BY OneBoot
<1> QED
  BY <1>1, <1>2, <1>3, PTL DEF Spec, BootSpec

\* The same of the specification that the runs check, when the board does not restart.
THEOREM SynchronizedEnds ==
  ASSUME MaxRestarts = 0
  PROVE  Spec => []SynchronizedWithServer
BY NoRestart, SynchronizedWithinBoot, PTL

\* Within a boot TCP implements ReliableStream, as long as the server sends no urgent data,
\* which uIP skips (uip.c:1637-1655): the callback is handed what the server wrote, each unit
\* once and in order, and is told of the end when it was handed all of it (TCPIP.c:57-118).
THEOREM StreamWithinBoot ==
  ASSUME UrgentPointers \subseteq {0}
  PROVE  BootSpec => StreamSpec
<1>1. Init => Stream!Init
  BY StreamInit
<1>2. IInv /\ [WithinBoot]_vars => [Stream!Next]_(Stream!vars)
  BY StreamStep
<1> QED
  BY <1>1, <1>2, WithinBootInvariant, PTL DEF BootSpec, StreamSpec, Stream!Spec

\* The same of the specification that the runs check, when the board does not restart.
THEOREM ImplementsStream ==
  ASSUME UrgentPointers \subseteq {0}, MaxRestarts = 0
  PROVE  Spec => StreamSpec
BY NoRestart, StreamWithinBoot, PTL
=============================================================================
