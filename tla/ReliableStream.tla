---------------------------- MODULE ReliableStream ----------------------------
(***************************************************************************)
(* What uIP promises the application (src/TCPIP.c) about the connections   *)
(* the server accepts: the callback is handed what the server wrote, each  *)
(* unit once and in order, and is told that the connection is closed only  *)
(* when it was handed all of it.  Nothing is promised about the end of a   *)
(* connection that is aborted or given up.  Module TCP implements this.    *)
(***************************************************************************)
EXTENDS Naturals, Sequences

CONSTANTS
  Connections,   \* the connections the server accepts
  MaxData        \* bound: units the server writes on a connection

VARIABLES
  written,       \* how many units the server has written on a connection
  finished,      \* the connections the server has closed
  read,          \* what the callback was handed of a connection
  ended          \* the connections the callback was told are closed

vars == <<written, finished, read, ended>>

\* The n-th to the m-th unit written on connection k
Units(k, n, m) == [j \in 1..(m - n + 1) |-> <<k, n + j - 1>>]

Init ==
  /\ written = [k \in Connections |-> 0]
  /\ finished = {}
  /\ read = [k \in Connections |-> <<>>]
  /\ ended = {}

Write(k) ==
  /\ k \notin finished
  /\ written[k] < MaxData
  /\ written' = [written EXCEPT ![k] = @ + 1]
  /\ UNCHANGED <<finished, read, ended>>

Finish(k) ==
  /\ finished' = finished \cup {k}
  /\ UNCHANGED <<written, read, ended>>

\* The callback is handed what follows, up to unit m; the end comes with the last unit
Deliver(k, m) ==
  /\ k \notin ended
  /\ read' = [read EXCEPT ![k] = @ \o Units(k, Len(@) + 1, m)]
  /\ \/ ended' = ended
     \/ /\ k \in finished
        /\ m = written[k]
        /\ ended' = ended \cup {k}
  /\ UNCHANGED <<written, finished>>

Next ==
  \E k \in Connections :
    \/ Write(k)
    \/ Finish(k)
    \/ \E m \in Len(read[k])..written[k] : Deliver(k, m)

Spec == Init /\ [][Next]_vars
=============================================================================
