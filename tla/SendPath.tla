------------------------------- MODULE SendPath -------------------------------
(***************************************************************************)
(* The way of a frame to the modem: network_send (src/uIP-Contiki/         *)
(* network.c) fills the ring buffer byte by byte, and                      *)
(* USBManagement_SendReceivePipes (src/USBManagement.c) moves it to the    *)
(* OUT pipe and takes what the modem sent from the IN pipe.                *)
(*                                                                         *)
(* Two threads run this code: the main loop, and the interrupt of timer 1, *)
(* whose PPP_LinkTimer sends requests.  The interrupt runs to its end; it  *)
(* can come between any two steps of the main loop.  The buffers, uip_len  *)
(* and the selected pipe are shared.                                       *)
(*                                                                         *)
(* Data: a byte in the send buffer is known by the thread that put it      *)
(* there, its position in the frame and whether it is the closing flag;    *)
(* the receive buffer and the pipes are counted.                           *)
(*                                                                         *)
(* A definition named Mutant... is the next one with a plausible mistake:  *)
(* the properties below are broken when it takes its place.                *)
(***************************************************************************)
EXTENDS Integers, Sequences

CONSTANTS
  BUFFER_SIZE,     \* USBModem.c: bytes of a ring buffer: 128
  FLUSH_LEVEL,     \* network.c: bytes at which the send buffer is flushed: 64
  PIPE_SIZE,       \* USBManagement.c: bytes of the IN pipe's bank: 64
  HEADER,          \* network.c: bytes before the information: 5
  TRAILER,         \* network.c: bytes after it, escapes and closing flag: 5 at most
  MaxLen,          \* bound: bytes of information in a frame
  Preempt          \* whether the interrupt also comes inside these functions

ASSUME ConstantsAssumption ==
  /\ HEADER \in Nat \ {0} /\ TRAILER \in Nat /\ TRAILER >= 3
  /\ FLUSH_LEVEL \in Nat /\ HEADER < FLUSH_LEVEL
  /\ BUFFER_SIZE \in Nat /\ FLUSH_LEVEL + HEADER + 2 * TRAILER <= BUFFER_SIZE + 1
  /\ PIPE_SIZE \in Nat /\ PIPE_SIZE <= BUFFER_SIZE
  /\ MaxLen \in Nat
  /\ Preempt \in BOOLEAN

Threads == {"main", "ISR"}
Labels  == {"idle", "header", "payload", "trailer", "flush", "drain", "receive", "read",
            "notification"}
InPipes == {"IN", "NOTIFICATION"}
Pipes   == InPipes \cup {"OUT"}

\* i is the loop variable, n the bytes put in the buffer of the part of the frame at pc,
\* pos those of the whole frame; ret is where SendReceivePipes returns to
ThreadState == [pc : Labels, i : Nat, n : Nat, pos : Nat, ret : {"payload", "idle"}]

Bytes == [by : Threads, pos : Nat, last : BOOLEAN]

VARIABLES
  thread,          \* the threads' local state
  sendBuffer,      \* Modem_SendBuffer
  receiveCount,    \* how much is in Modem_ReceiveBuffer
  uip_len,
  configured,      \* USB_HostState = HOST_STATE_Configured
  selected,        \* the pipe selected
  bank,            \* what has arrived at the IN and the NOTIFICATION pipe
  lastOut,         \* history: the last byte the modem was sent
  broken,          \* history: it was sent something else than whole frames
  failed           \* history: the device has gone away, or its pipe stayed busy

vars == <<thread, sendBuffer, receiveCount, uip_len, configured, selected, bank, lastOut, broken,
          failed>>

----------------------------------------------------------------------------
(* Steps of a thread *)

\* The interrupt is not interrupted
Running(t) == t = "ISR" \/ thread["ISR"].pc = "idle"

At(t, label) == Running(t) /\ thread[t].pc = label

\* t goes on at a label, at the start of the part of the frame there
Goto(t, label) == [thread EXCEPT ![t].pc = label, ![t].n = 0]

Buffers == <<sendBuffer, receiveCount>>
Usb     == <<configured, selected, bank, lastOut, broken, failed>>

\* k more bytes of the frame
Coming(t, k, last) ==
  [j \in 1..k |-> [by |-> t, pos |-> thread[t].pos + j - 1, last |-> last]]
RingBuffer_Insert(t, k, last) == sendBuffer' = sendBuffer \o Coming(t, k, last)

\* network_send is called for a packet of len bytes.  Bound: a buffer that has overflowed
\* is not followed any further.
network_send(t, len) ==
  /\ At(t, "idle")
  /\ t = "ISR" => Preempt \/ thread["main"].pc = "idle"
  /\ Len(sendBuffer) <= BUFFER_SIZE
  /\ uip_len' = len
  /\ thread' = [thread EXCEPT ![t] = [pc |-> "header", i |-> 0, n |-> 0, pos |-> 0, ret |-> "idle"]]
  /\ UNCHANGED <<Buffers, Usb>>

Header(t) ==
  /\ At(t, "header")
  /\ RingBuffer_Insert(t, 1, FALSE)
  /\ thread' = [thread EXCEPT ![t].n = @ + 1, ![t].pos = @ + 1,
                              ![t].pc = IF thread[t].n + 1 < HEADER THEN "header" ELSE "payload"]
  /\ UNCHANGED <<receiveCount, uip_len, Usb>>

FlushDue(count) == count >= FLUSH_LEVEL

\* One turn of the loop: a byte, perhaps escaped
Payload(t) ==
  /\ At(t, "payload") /\ thread[t].i < uip_len
  /\ \E k \in {1, 2} :
       /\ RingBuffer_Insert(t, k, FALSE)
       /\ thread' = [thread EXCEPT ![t].i = @ + 1, ![t].pos = @ + k, ![t].ret = "payload",
                                   ![t].pc = IF FlushDue(Len(sendBuffer) + k)
                                             THEN "flush" ELSE "payload"]
  /\ UNCHANGED <<receiveCount, uip_len, Usb>>

EndOfPayload(t) ==
  /\ At(t, "payload") /\ thread[t].i >= uip_len
  /\ thread' = Goto(t, "trailer")
  /\ UNCHANGED <<Buffers, uip_len, Usb>>

\* The checksum, perhaps escaped
Checksum(t) ==
  /\ At(t, "trailer") /\ thread[t].n < TRAILER - 1
  /\ RingBuffer_Insert(t, 1, FALSE)
  /\ thread' = [thread EXCEPT ![t].n = @ + 1, ![t].pos = @ + 1]
  /\ UNCHANGED <<receiveCount, uip_len, Usb>>

\* The frame is left in the buffer until the next flush
MutantNoFlush(t) ==
  /\ At(t, "trailer") /\ thread[t].n >= 2
  /\ RingBuffer_Insert(t, 1, TRUE)
  /\ uip_len' = 0
  /\ thread' = Goto(t, "idle")
  /\ UNCHANGED <<receiveCount, Usb>>
\* uip_len is left
MutantClosingFlag(t) ==
  /\ At(t, "trailer") /\ thread[t].n >= 2
  /\ RingBuffer_Insert(t, 1, TRUE)
  /\ uip_len' = uip_len - 1
  /\ thread' = [thread EXCEPT ![t].ret = "idle", ![t].pc = "flush"]
  /\ UNCHANGED <<receiveCount, Usb>>
\* The closing flag, then the buffer is flushed
ClosingFlag(t) ==
  /\ At(t, "trailer") /\ thread[t].n >= 2
  /\ RingBuffer_Insert(t, 1, TRUE)
  /\ uip_len' = 0
  /\ thread' = [thread EXCEPT ![t].ret = "idle", ![t].pc = "flush"]
  /\ UNCHANGED <<receiveCount, Usb>>

\* The end of a turn of the main loop
USBManagement_ManageUSBState ==
  /\ At("main", "idle")
  /\ thread' = IF configured
               THEN [thread EXCEPT !["main"].pc = "flush", !["main"].ret = "idle"] ELSE thread
  /\ UNCHANGED <<Buffers, uip_len, Usb>>

----------------------------------------------------------------------------
(* USBManagement_SendReceivePipes *)

Return(t) == Goto(t, thread[t].ret)

\* The buffer is drained to whatever pipe is selected
MutantSelectOut(t) ==
  /\ At(t, "flush")
  /\ thread' = Goto(t, "drain")
  /\ UNCHANGED <<Buffers, uip_len, configured, selected, bank, lastOut, broken, failed>>
SelectOut(t) ==
  /\ At(t, "flush")
  /\ IF configured THEN thread' = Goto(t, "drain") /\ selected' = "OUT"
                   ELSE thread' = Return(t) /\ selected' = selected
  /\ UNCHANGED <<Buffers, uip_len, configured, bank, lastOut, broken, failed>>

\* Whether a byte is what the modem expects after the last one
Continues(byte) ==
  IF lastOut.last THEN byte.pos = 0
  ELSE byte.by = lastOut.by /\ byte.pos = lastOut.pos + 1

Drain(t) ==
  /\ At(t, "drain") /\ sendBuffer # <<>>
  /\ lastOut' = Head(sendBuffer)
  /\ broken' = (broken \/ selected # "OUT" \/ ~Continues(Head(sendBuffer)))
  /\ sendBuffer' = Tail(sendBuffer)
  /\ UNCHANGED <<thread, receiveCount, uip_len, configured, selected, bank, failed>>

\* The bank is full and the modem does not take it in time
PipeBusy(t) ==
  /\ At(t, "drain") /\ sendBuffer # <<>>
  /\ thread' = Return(t)
  /\ failed' = TRUE
  /\ UNCHANGED <<Buffers, uip_len, configured, selected, bank, lastOut, broken>>

SelectIn(t) ==
  /\ At(t, "drain") /\ sendBuffer = <<>>
  /\ selected' = "IN"
  /\ thread' = Goto(t, "receive")
  /\ UNCHANGED <<Buffers, uip_len, configured, bank, lastOut, broken, failed>>

\* Any space will do
MutantSpaceAvailable(count) == BUFFER_SIZE - count > 0
SpaceAvailable(count) == BUFFER_SIZE - count >= PIPE_SIZE

EmptyBank == [received |-> FALSE, bytes |-> 0]
Bank(pipe) == IF pipe = "OUT" THEN EmptyBank ELSE bank[pipe]

CheckIn(t) ==
  /\ At(t, "receive")
  /\ thread' = Goto(t, IF Bank(selected).received /\ SpaceAvailable(receiveCount)
                       THEN "read" ELSE "notification")
  /\ UNCHANGED <<Buffers, uip_len, Usb>>

ReadByte(t) ==
  /\ At(t, "read") /\ Bank(selected).bytes > 0
  /\ receiveCount' = receiveCount + 1
  /\ bank' = [bank EXCEPT ![selected].bytes = @ - 1]
  /\ UNCHANGED <<thread, sendBuffer, uip_len, configured, selected, lastOut, broken, failed>>

ClearIn(t) ==
  /\ At(t, "read") /\ Bank(selected).bytes = 0
  /\ bank' = [p \in InPipes |-> IF p = selected THEN EmptyBank ELSE bank[p]]
  /\ thread' = Goto(t, "notification")
  /\ UNCHANGED <<Buffers, uip_len, configured, selected, lastOut, broken, failed>>

\* A notification is thrown away
Notification(t) ==
  /\ At(t, "notification")
  /\ selected' = "NOTIFICATION"
  /\ bank' = [bank EXCEPT !["NOTIFICATION"] = EmptyBank]
  /\ thread' = Return(t)
  /\ UNCHANGED <<Buffers, uip_len, configured, lastOut, broken, failed>>

----------------------------------------------------------------------------
(* The surroundings *)

\* network_read, or the dialler, takes bytes from the receive buffer
RingBuffer_Remove ==
  /\ At("main", "idle") /\ receiveCount > 0
  /\ receiveCount' = receiveCount - 1
  /\ UNCHANGED <<thread, sendBuffer, uip_len, Usb>>

\* The modem sends; a bank is filled again when it was cleared
Arrival(pipe) ==
  /\ ~bank[pipe].received
  /\ \E k \in 1..PIPE_SIZE : bank' = [bank EXCEPT ![pipe] = [received |-> TRUE, bytes |-> k]]
  /\ UNCHANGED <<thread, Buffers, uip_len, configured, selected, lastOut, broken, failed>>

DeviceGoes ==
  /\ configured
  /\ configured' = FALSE
  /\ failed' = TRUE
  /\ UNCHANGED <<thread, Buffers, uip_len, selected, bank, lastOut, broken>>

----------------------------------------------------------------------------
(* The specification *)

Init ==
  /\ thread = [t \in Threads |-> [pc |-> "idle", i |-> 0, n |-> 0, pos |-> 0, ret |-> "idle"]]
  /\ sendBuffer = <<>>
  /\ receiveCount = 0
  /\ uip_len = 0
  /\ configured = TRUE
  /\ selected = "NOTIFICATION"
  /\ bank = [p \in InPipes |-> EmptyBank]
  /\ lastOut = [by |-> "main", pos |-> 0, last |-> TRUE]
  /\ broken = FALSE
  /\ failed = FALSE

SendReceivePipes(t) ==
  \/ SelectOut(t) \/ Drain(t) \/ PipeBusy(t) \/ SelectIn(t)
  \/ CheckIn(t) \/ ReadByte(t) \/ ClearIn(t) \/ Notification(t)

Sending(t) ==
  \/ \E len \in 0..MaxLen : network_send(t, len)
  \/ Header(t) \/ Payload(t) \/ EndOfPayload(t) \/ Checksum(t) \/ ClosingFlag(t)

Next ==
  \/ \E t \in Threads : Sending(t) \/ SendReceivePipes(t)
  \/ USBManagement_ManageUSBState
  \/ RingBuffer_Remove
  \/ \E p \in InPipes : Arrival(p)
  \/ DeviceGoes

Spec == Init /\ [][Next]_vars

----------------------------------------------------------------------------
(* Properties *)

TypeOK ==
  /\ thread \in [Threads -> ThreadState]
  /\ sendBuffer \in Seq(Bytes)
  /\ receiveCount \in Nat
  /\ uip_len \in 0..MaxLen
  /\ configured \in BOOLEAN
  /\ selected \in Pipes
  /\ bank \in [InPipes -> [received : BOOLEAN, bytes : 0..PIPE_SIZE]]
  /\ lastOut \in Bytes
  /\ broken \in BOOLEAN
  /\ failed \in BOOLEAN

\* As long as the device takes the bytes, the send buffer, which network_send never checks
\* for space (network.c:146-195), does not overflow: not even when the interrupt sends a
\* frame on top of half of one.
SendBufferBounded == ~failed => Len(sendBuffer) <= BUFFER_SIZE

\* The receive buffer does not overflow: space for a whole bank is asked for before one
\* is read (USBManagement.c:143).
ReceiveBufferBounded == receiveCount <= BUFFER_SIZE

\* The modem is sent whole frames, one after the other, with no byte missing, and only
\* through the OUT pipe.
WholeFrames == ~broken
=============================================================================
