---------------------------- MODULE SendPathProofs ----------------------------
(***************************************************************************)
(* Proofs about module SendPath, for any sizes of the buffers and frames   *)
(* that fit as ConstantsAssumption says: neither ring buffer overflows,    *)
(* and the modem is sent whole frames.                                     *)
(* The send buffer is never checked for space; what bounds it is that a    *)
(* thread drains it before it goes on, so that each place in the code has  *)
(* a bound of its own.  Frames stay whole because what has been sent, what *)
(* waits in the pipe and the buffer, and what the thread at work is still  *)
(* to put there follow on one another, byte by byte.                       *)
(***************************************************************************)
EXTENDS SendPath, SequenceTheorems, TLAPS

----------------------------------------------------------------------------
(* Type correctness *)

\* The bytes of a frame to come are a sequence of bytes, as many as asked for.
LEMMA ComingTyped ==
  ASSUME TypeOK, NEW t \in Threads, NEW k \in {1, 2}, NEW last \in BOOLEAN
  PROVE  Coming(t, k, last) \in Seq(Bytes) /\ Len(Coming(t, k, last)) = k
<1>1. thread[t].pos \in Nat
  BY DEF TypeOK, ThreadState
<1>2. Coming(t, k, last) \in [1..k -> Bytes]
  BY <1>1 DEF Coming, Bytes
<1> QED
  BY <1>2

\* Bytes put in the send buffer are added to it.
LEMMA InsertTyped ==
  ASSUME TypeOK, NEW t \in Threads, NEW k \in {1, 2}, NEW last \in BOOLEAN,
         RingBuffer_Insert(t, k, last)
  PROVE  sendBuffer' \in Seq(Bytes) /\ Len(sendBuffer') = Len(sendBuffer) + k
<1> DEFINE c == Coming(t, k, last)
<1>1. sendBuffer \in Seq(Bytes)
  BY DEF TypeOK
<1>2. c \in Seq(Bytes) /\ Len(c) = k
  BY ComingTyped
<1>3. sendBuffer' = sendBuffer \o c
  BY DEF RingBuffer_Insert
<1> HIDE DEF c
<1> QED
  BY <1>1, <1>2, <1>3, ConcatProperties

\* A thread that goes on at a label leaves everything else but n as it was.
LEMMA GotoTyped ==
  ASSUME TypeOK, NEW t \in Threads, NEW label \in Labels
  PROVE  /\ Goto(t, label) \in [Threads -> ThreadState]
         /\ Goto(t, label)[t].pc = label /\ Goto(t, label)[t].n = 0
         /\ \A u \in Threads \ {t} : Goto(t, label)[u] = thread[u]
BY DEF TypeOK, ThreadState, Goto

\* SendReceivePipes returns to a label.
LEMMA ReturnTyped ==
  ASSUME TypeOK, NEW t \in Threads
  PROVE  thread[t].ret \in {"payload", "idle"} /\ thread[t].ret \in Labels
BY DEF TypeOK, ThreadState, Labels

\* The types hold when the program starts.
LEMMA InitTyped == Init => TypeOK
<1> SUFFICES ASSUME Init PROVE TypeOK
  OBVIOUS
<1>1. sendBuffer \in Seq(Bytes)
  BY EmptySeq DEF Init
<1>2. thread \in [Threads -> ThreadState]
  BY DEF Init, ThreadState, Labels
<1>3. bank \in [InPipes -> [received : BOOLEAN, bytes : 0..PIPE_SIZE]]
  BY ConstantsAssumption DEF Init, EmptyBank
<1>4. lastOut \in Bytes
  BY DEF Init, Bytes, Threads
<1>5. receiveCount \in Nat /\ uip_len \in 0..MaxLen
  BY ConstantsAssumption DEF Init
<1>6. configured \in BOOLEAN /\ broken \in BOOLEAN /\ failed \in BOOLEAN /\ selected \in Pipes
  BY DEF Init, Pipes, InPipes
<1> QED
  BY <1>1, <1>2, <1>3, <1>4, <1>5, <1>6 DEF TypeOK

\* A step of network_send keeps the types.
LEMMA SendingTyped ==
  ASSUME TypeOK, NEW t \in Threads, Sending(t)
  PROVE  TypeOK'
<1>1. ASSUME NEW len \in 0..MaxLen, network_send(t, len) PROVE TypeOK'
  <2>1. thread' \in [Threads -> ThreadState]
    BY <1>1 DEF network_send, TypeOK, ThreadState, Labels
  <2> QED
    BY <1>1, <2>1 DEF network_send, TypeOK, Buffers, Usb
<1>2. CASE Header(t)
  <2>1. sendBuffer' \in Seq(Bytes)
    BY <1>2, InsertTyped DEF Header
  <2> DEFINE pc == IF thread[t].n + 1 < HEADER THEN "header" ELSE "payload"
  <2>2. thread' = [thread EXCEPT ![t].n = @ + 1, ![t].pos = @ + 1, ![t].pc = pc]
    BY <1>2 DEF Header
  <2>3. pc \in Labels
    BY DEF Labels
  <2>4. thread' \in [Threads -> ThreadState]
    <3> DEFINE next == [thread[t] EXCEPT !.n = @ + 1, !.pos = @ + 1, !.pc = pc]
    <3> HIDE DEF pc
    <3>1. thread[t] \in ThreadState
      BY DEF TypeOK
    <3>2. next \in ThreadState
      <4>1. thread[t].n + 1 \in Nat /\ thread[t].pos + 1 \in Nat
        BY <3>1 DEF ThreadState
      <4> QED
        BY <3>1, <4>1, <2>3, Zenon DEF ThreadState
    <3>3. thread' = [thread EXCEPT ![t] = next]
      BY <2>2 DEF TypeOK
    <3> HIDE DEF next
    <3> QED
      BY <3>2, <3>3 DEF TypeOK
  <2> QED
    BY <1>2, <2>1, <2>4 DEF Header, TypeOK, Usb
<1>3. CASE Payload(t)
  <2>1. PICK k \in {1, 2} :
          /\ RingBuffer_Insert(t, k, FALSE)
          /\ thread' = [thread EXCEPT ![t].i = @ + 1, ![t].pos = @ + k, ![t].ret = "payload",
                                      ![t].pc = IF FlushDue(Len(sendBuffer) + k)
                                                THEN "flush" ELSE "payload"]
    BY <1>3 DEF Payload
  <2>2. sendBuffer' \in Seq(Bytes)
    BY <2>1, InsertTyped
  <2> DEFINE pc == IF FlushDue(Len(sendBuffer) + k) THEN "flush" ELSE "payload"
  <2>3. pc \in Labels
    BY DEF Labels
  <2>4. thread' = [thread EXCEPT ![t].i = @ + 1, ![t].pos = @ + k, ![t].ret = "payload",
                                 ![t].pc = pc]
    BY <2>1
  <2>5. thread' \in [Threads -> ThreadState]
    <3> DEFINE next == [thread[t] EXCEPT !.i = @ + 1, !.pos = @ + k, !.ret = "payload", !.pc = pc]
    <3> HIDE DEF pc
    <3>1. thread[t] \in ThreadState
      BY DEF TypeOK
    <3>2. next \in ThreadState
      <4>1. thread[t].i + 1 \in Nat /\ thread[t].pos + k \in Nat
        BY <3>1 DEF ThreadState
      <4> QED
        BY <3>1, <4>1, <2>3, Zenon DEF ThreadState
    <3>3. thread' = [thread EXCEPT ![t] = next]
      BY <2>4 DEF TypeOK
    <3> HIDE DEF next
    <3> QED
      BY <3>2, <3>3 DEF TypeOK
  <2> QED
    BY <1>3, <2>2, <2>5 DEF Payload, TypeOK, Usb
<1>4. CASE EndOfPayload(t)
  <2>1. thread' \in [Threads -> ThreadState]
    BY <1>4, GotoTyped DEF EndOfPayload, Labels
  <2> QED
    BY <1>4, <2>1 DEF EndOfPayload, TypeOK, Buffers, Usb
<1>5. CASE Checksum(t)
  <2>1. sendBuffer' \in Seq(Bytes)
    BY <1>5, InsertTyped DEF Checksum
  <2>2. thread' \in [Threads -> ThreadState]
    <3> DEFINE next == [thread[t] EXCEPT !.n = @ + 1, !.pos = @ + 1]
    <3>1. thread[t] \in ThreadState
      BY DEF TypeOK
    <3>2. next \in ThreadState
      <4>1. thread[t].n + 1 \in Nat /\ thread[t].pos + 1 \in Nat
        BY <3>1 DEF ThreadState
      <4> QED
        BY <3>1, <4>1, Zenon DEF ThreadState
    <3>3. thread' = [thread EXCEPT ![t] = next]
      BY <1>5 DEF Checksum, TypeOK
    <3> HIDE DEF next
    <3> QED
      BY <3>2, <3>3 DEF TypeOK
  <2> QED
    BY <1>5, <2>1, <2>2 DEF Checksum, TypeOK, Usb
<1>6. CASE ClosingFlag(t)
  <2>1. sendBuffer' \in Seq(Bytes)
    BY <1>6, InsertTyped DEF ClosingFlag
  <2>2. thread' \in [Threads -> ThreadState]
    BY ZenonT(30), <1>6 DEF ClosingFlag, TypeOK, ThreadState, Labels
  <2> QED
    BY <1>6, <2>1, <2>2, ConstantsAssumption DEF ClosingFlag, TypeOK, Usb
<1> QED
  BY <1>1, <1>2, <1>3, <1>4, <1>5, <1>6 DEF Sending

\* A step of SendReceivePipes keeps the types.
LEMMA PipesTyped ==
  ASSUME TypeOK, NEW t \in Threads, SendReceivePipes(t)
  PROVE  TypeOK'
<1>1. CASE SelectOut(t)
  <2>1. thread' \in [Threads -> ThreadState]
    <3>1. thread' = Goto(t, "drain") \/ thread' = Goto(t, thread[t].ret)
      BY <1>1 DEF SelectOut, Return
    <3>2. "drain" \in Labels /\ thread[t].ret \in Labels
      BY ReturnTyped DEF Labels
    <3> QED
      BY <3>1, <3>2, GotoTyped
  <2> QED
    BY <1>1, <2>1 DEF SelectOut, TypeOK, Buffers, Pipes
<1>2. CASE Drain(t)
  <2>1. Head(sendBuffer) \in Bytes /\ Tail(sendBuffer) \in Seq(Bytes)
    BY <1>2, HeadTailProperties DEF Drain, TypeOK
  <2>2. broken' \in BOOLEAN
    BY <1>2 DEF Drain, TypeOK
  <2> QED
    BY <1>2, <2>1, <2>2 DEF Drain, TypeOK
<1>3. CASE PipeBusy(t)
  <2>1. thread' \in [Threads -> ThreadState]
    BY <1>3, GotoTyped, ReturnTyped DEF PipeBusy, Return
  <2> QED
    BY <1>3, <2>1 DEF PipeBusy, TypeOK, Buffers, Usb
<1>4. CASE SelectIn(t)
  <2>1. thread' \in [Threads -> ThreadState]
    BY <1>4, GotoTyped DEF SelectIn, Labels
  <2> QED
    BY <1>4, <2>1 DEF SelectIn, TypeOK, Buffers, Pipes, InPipes
<1>5. CASE CheckIn(t)
  <2>1. thread' \in [Threads -> ThreadState]
    BY <1>5, GotoTyped DEF CheckIn, Labels
  <2> QED
    BY <1>5, <2>1 DEF CheckIn, TypeOK, Buffers, Usb
<1>6. CASE ReadByte(t)
  <2>1. selected \in InPipes /\ bank[selected].bytes > 0
    BY <1>6 DEF ReadByte, Bank, EmptyBank, TypeOK, Pipes
  <2>2. bank' \in [InPipes -> [received : BOOLEAN, bytes : 0..PIPE_SIZE]]
    <3>1. bank[selected].bytes \in 0..PIPE_SIZE /\ PIPE_SIZE \in Nat
      BY <2>1, ConstantsAssumption DEF TypeOK
    <3>2. bank[selected].bytes - 1 \in 0..PIPE_SIZE
      BY <3>1, <2>1
    <3>3. bank' = [bank EXCEPT ![selected].bytes = @ - 1]
      BY <1>6 DEF ReadByte
    <3> QED
      BY <2>1, <3>2, <3>3 DEF TypeOK
  <2>3. receiveCount' \in Nat
    BY <1>6 DEF ReadByte, TypeOK
  <2> QED
    BY <1>6, <2>2, <2>3 DEF ReadByte, TypeOK
<1>7. CASE ClearIn(t)
  <2>1. thread' \in [Threads -> ThreadState]
    BY <1>7, GotoTyped DEF ClearIn, Labels
  <2>2. bank' \in [InPipes -> [received : BOOLEAN, bytes : 0..PIPE_SIZE]]
    BY <1>7, ConstantsAssumption DEF ClearIn, TypeOK, EmptyBank
  <2> QED
    BY <1>7, <2>1, <2>2 DEF ClearIn, TypeOK, Buffers
<1>8. CASE Notification(t)
  <2>1. thread' \in [Threads -> ThreadState]
    BY <1>8, GotoTyped, ReturnTyped DEF Notification, Return
  <2>2. bank' \in [InPipes -> [received : BOOLEAN, bytes : 0..PIPE_SIZE]]
    BY <1>8, ConstantsAssumption DEF Notification, TypeOK, EmptyBank, InPipes
  <2> QED
    BY <1>8, <2>1, <2>2 DEF Notification, TypeOK, Buffers, Pipes, InPipes
<1> QED
  BY <1>1, <1>2, <1>3, <1>4, <1>5, <1>6, <1>7, <1>8 DEF SendReceivePipes

\* Every step keeps the types.
LEMMA NextTyped == TypeOK /\ [Next]_vars => TypeOK'
<1> SUFFICES ASSUME TypeOK, [Next]_vars PROVE TypeOK'
  OBVIOUS
<1>1. ASSUME NEW t \in Threads, Sending(t) \/ SendReceivePipes(t) PROVE TypeOK'
  BY <1>1, SendingTyped, PipesTyped
<1>2. CASE USBManagement_ManageUSBState
  <2>1. thread' \in [Threads -> ThreadState]
    BY ZenonT(30), <1>2 DEF USBManagement_ManageUSBState, TypeOK, ThreadState, Labels, Threads
  <2> QED
    BY <1>2, <2>1 DEF USBManagement_ManageUSBState, TypeOK, Buffers, Usb
<1>3. CASE RingBuffer_Remove
  BY <1>3 DEF RingBuffer_Remove, TypeOK, Usb
<1>4. ASSUME NEW p \in InPipes, Arrival(p) PROVE TypeOK'
  <2>1. PICK k \in 1..PIPE_SIZE : bank' = [bank EXCEPT ![p] = [received |-> TRUE, bytes |-> k]]
    BY <1>4 DEF Arrival
  <2>2. bank' \in [InPipes -> [received : BOOLEAN, bytes : 0..PIPE_SIZE]]
    BY <2>1, ConstantsAssumption DEF TypeOK
  <2> QED
    BY <1>4, <2>2 DEF Arrival, TypeOK, Buffers
<1>5. CASE DeviceGoes
  BY <1>5 DEF DeviceGoes, TypeOK, Buffers
<1>6. CASE UNCHANGED vars
  BY <1>6 DEF vars, TypeOK
<1> QED
  BY <1>1, <1>2, <1>3, <1>4, <1>5, <1>6 DEF Next

\* TypeOK: the threads, the buffers and the banks keep to their types.
THEOREM TypeCorrect == Spec => []TypeOK
BY InitTyped, NextTyped, PTL DEF Spec
----------------------------------------------------------------------------
(* The send buffer, as long as the device neither goes away nor stays busy *)

\* What is in the buffer when a thread begins a frame, and before it ends one
Base(t) == IF t = "main" THEN 0 ELSE FLUSH_LEVEL - 1 + TRAILER
Peak(t) == IF t = "main" THEN FLUSH_LEVEL - 1 ELSE FLUSH_LEVEL - 1 + TRAILER + HEADER

\* The thread that runs, and how much there can be in the buffer where it is
Active == IF thread["ISR"].pc = "idle" THEN "main" ELSE "ISR"

BoundAt(t, pc, n) ==
  IF pc = "header" THEN Base(t) + n
  ELSE IF pc = "payload" THEN Peak(t)
  ELSE IF pc = "trailer" THEN Peak(t) + n
  ELSE IF pc \in {"flush", "drain"} THEN Peak(t) + TRAILER
  ELSE 0

Bound(t) == BoundAt(t, thread[t].pc, thread[t].n)

PartsBounded(t) ==
  /\ thread[t].pc = "header" => thread[t].n < HEADER
  /\ thread[t].pc = "trailer" => thread[t].n <= TRAILER - 1

\* Each place has a bound of its own; the interrupt's are higher, as it begins its frame
\* over what the main loop has left.  Without a failure every way back to a caller goes
\* through an empty buffer.
SendInv ==
  /\ TypeOK
  /\ configured = TRUE
  /\ \A t \in Threads : PartsBounded(t)
  /\ Len(sendBuffer) <= Bound(Active)

\* The constants are numbers, and the bounds of each place follow from them.
LEMMA Sizes ==
  /\ HEADER \in Nat /\ TRAILER \in Nat /\ FLUSH_LEVEL \in Nat /\ BUFFER_SIZE \in Nat
  /\ PIPE_SIZE \in Nat /\ MaxLen \in Nat
  /\ 0 < HEADER /\ HEADER < FLUSH_LEVEL /\ TRAILER >= 3
  /\ FLUSH_LEVEL + HEADER + 2 * TRAILER <= BUFFER_SIZE + 1
BY ConstantsAssumption

\* No place of the main loop leaves more than the interrupt counts with, and no place of
\* either more than the buffer holds.
LEMMA BoundsFit ==
  ASSUME TypeOK, NEW t \in Threads, PartsBounded(t)
  PROVE  /\ Bound(t) \in Nat
         /\ t = "main" => Bound(t) <= Base("ISR")
         /\ Bound(t) <= BUFFER_SIZE
<1>1. thread[t].n \in Nat
  BY DEF TypeOK, ThreadState
<1>2. t = "main" \/ t = "ISR"
  BY DEF Threads
<1> QED
  BY <1>1, <1>2, Sizes DEF PartsBounded, Bound, BoundAt, Base, Peak

\* A thread that takes a step, other than the beginning of a frame, is the active one.
LEMMA RunningIsActive ==
  ASSUME NEW t \in Threads, NEW label \in Labels, At(t, label), label # "idle"
  PROVE  Active = t
BY DEF At, Running, Active, Threads

\* The send buffer has a length.
LEMMA LengthIsNat == TypeOK => Len(sendBuffer) \in Nat
BY LenProperties DEF TypeOK

\* The bounds on the send buffer hold when the program starts.
LEMMA SendInit == Init => SendInv
<1> SUFFICES ASSUME Init PROVE SendInv
  OBVIOUS
<1>1. TypeOK
  BY InitTyped
<1>2. Active = "main" /\ Bound("main") = 0
  BY DEF Init, Active, Bound, BoundAt, Threads
<1>3. \A t \in Threads : PartsBounded(t)
  BY DEF Init, PartsBounded
<1>4. Len(sendBuffer) = 0 /\ configured = TRUE
  BY EmptySeq DEF Init
<1> QED
  BY <1>1, <1>2, <1>3, <1>4 DEF SendInv

\* A step of the active thread within a frame keeps the invariant when it keeps the bound
\* of the place it goes to; the other thread stays where it is.
LEMMA ActiveSteps ==
  ASSUME SendInv, TypeOK', configured' = TRUE, NEW t \in Threads, Active = t,
         \A u \in Threads \ {t} : thread'[u] = thread[u],
         thread'[t].pc # "idle", PartsBounded(t)', Len(sendBuffer') <= Bound(t)'
  PROVE  SendInv'
<1>1. Active' = t
  BY DEF Active, Threads
<1>2. \A u \in Threads : PartsBounded(u)'
  BY DEF SendInv, PartsBounded
<1> QED
  BY <1>1, <1>2 DEF SendInv

\* A step that leaves the buffer empty keeps the invariant wherever it goes.
LEMMA EmptyingSteps ==
  ASSUME SendInv, TypeOK', configured' = TRUE, sendBuffer' = <<>>,
         \A u \in Threads : PartsBounded(u)'
  PROVE  SendInv'
<1>1. Active' \in Threads
  BY DEF Active, Threads
<1>2. Bound(Active)' \in Nat
  <2>1. \A u \in Threads : thread'[u].n \in Nat
    BY DEF TypeOK, ThreadState
  <2> QED
    BY SMTT(30), <1>1, <2>1, Sizes DEF Bound, BoundAt, Base, Peak, Threads
<1>3. Len(sendBuffer') = 0
  BY EmptySeq
<1> QED
  BY <1>2, <1>3 DEF SendInv

\* A step of network_send keeps the send buffer to the bound of the label it leads to.
LEMMA SendingKeeps ==
  ASSUME SendInv, NEW t \in Threads, Sending(t)
  PROVE  SendInv'
<1>1. TypeOK /\ configured = TRUE /\ Len(sendBuffer) \in Nat
  BY LengthIsNat DEF SendInv
<1>2. TypeOK'
  BY SendingTyped DEF SendInv
<1>3. thread[t].n \in Nat /\ thread \in [Threads -> ThreadState]
  BY DEF SendInv, TypeOK, ThreadState
<1>4. PartsBounded(t) /\ Len(sendBuffer) <= Bound(Active)
  BY DEF SendInv
<1>5. ASSUME NEW len \in 0..MaxLen, network_send(t, len) PROVE SendInv'
  <2>1. /\ thread' = [thread EXCEPT ![t] = [pc |-> "header", i |-> 0, n |-> 0, pos |-> 0,
                                            ret |-> "idle"]]
        /\ sendBuffer' = sendBuffer /\ configured' = configured
        /\ Running(t) /\ thread[t].pc = "idle"
    BY <1>5 DEF network_send, Buffers, Usb, At
  <2>2. thread'[t].pc = "header" /\ thread'[t].n = 0
    BY <2>1, <1>3
  <2>3. \A u \in Threads \ {t} : thread'[u] = thread[u]
    BY <2>1, <1>3
  <2>4. \A u \in Threads : PartsBounded(u)'
    BY <2>2, <2>3, Sizes DEF SendInv, PartsBounded
  <2>5. Active' = t
    BY <2>1, <2>2, <2>3 DEF Active, Running, Threads
  <2>6. Bound(t)' = Base(t)
    BY <2>2, Sizes DEF Bound, BoundAt, Base
  <2>7. Len(sendBuffer) <= Base(t)
    <3>1. CASE t = "main"
      BY <3>1, <1>4, <2>1 DEF Active, Running, Bound, BoundAt, Base
    <3>2. CASE t = "ISR"
      <4>1. Active = "main" /\ PartsBounded("main")
        BY <3>2, <2>1 DEF Active, SendInv, Threads
      <4>2. Bound("main") <= Base("ISR") /\ Bound("main") \in Nat
        BY <4>1, <1>1, BoundsFit DEF Threads
      <4>3. Base("ISR") \in Nat
        BY Sizes DEF Base
      <4> QED
        BY <3>2, <1>1, <1>4, <4>1, <4>2, <4>3
    <3> QED
      BY <3>1, <3>2 DEF Threads
  <2> QED
    BY <1>1, <1>2, <2>1, <2>4, <2>5, <2>6, <2>7 DEF SendInv
<1>6. CASE Header(t)
  <2>1. Active = t /\ thread[t].pc = "header" /\ thread[t].n < HEADER
    BY <1>6, <1>4, RunningIsActive DEF Header, At, Labels, PartsBounded
  <2>2. Len(sendBuffer') = Len(sendBuffer) + 1
    BY <1>6, <1>1, InsertTyped DEF Header
  <2>3. /\ thread'[t].n = thread[t].n + 1
        /\ thread'[t].pc = IF thread[t].n + 1 < HEADER THEN "header" ELSE "payload"
        /\ \A u \in Threads \ {t} : thread'[u] = thread[u]
        /\ configured' = configured
    BY <1>6, <1>3 DEF Header, Usb, ThreadState
  <2>4. Len(sendBuffer) <= Base(t) + thread[t].n
    BY <2>1, <1>4 DEF Bound, BoundAt
  <2>5. Base(t) + HEADER <= Peak(t) /\ Base(t) \in Nat /\ Peak(t) \in Nat
    BY Sizes DEF Base, Peak, Threads
  <2>6. Bound(t)' = IF thread[t].n + 1 < HEADER THEN Base(t) + (thread[t].n + 1) ELSE Peak(t)
    BY <2>3 DEF Bound, BoundAt, Base, Peak
  <2>7. Len(sendBuffer') <= Bound(t)'
    BY <2>1, <2>2, <2>4, <2>5, <2>6, <1>1, <1>3, Sizes
  <2>8. PartsBounded(t)' /\ thread'[t].pc # "idle"
    BY <2>3, <1>3, Sizes DEF PartsBounded
  <2> QED
    BY <2>1, <2>3, <2>7, <2>8, <1>1, <1>2, ActiveSteps
<1>7. CASE Payload(t)
  <2>1. Active = t /\ thread[t].pc = "payload"
    BY <1>7, RunningIsActive DEF Payload, At, Labels
  <2>2. PICK k \in {1, 2} :
          /\ RingBuffer_Insert(t, k, FALSE)
          /\ thread' = [thread EXCEPT ![t].i = @ + 1, ![t].pos = @ + k, ![t].ret = "payload",
                                      ![t].pc = IF FlushDue(Len(sendBuffer) + k)
                                                THEN "flush" ELSE "payload"]
    BY <1>7 DEF Payload
  <2>3. Len(sendBuffer') = Len(sendBuffer) + k
    BY <2>2, <1>1, InsertTyped
  <2>4. /\ thread'[t].pc = IF Len(sendBuffer) + k >= FLUSH_LEVEL THEN "flush" ELSE "payload"
        /\ \A u \in Threads \ {t} : thread'[u] = thread[u]
    BY <2>2, <1>3 DEF FlushDue, ThreadState
  <2>5. configured' = configured
    BY <1>7 DEF Payload, Usb
  <2>6. Len(sendBuffer) <= Peak(t)
    BY <2>1, <1>4 DEF Bound, BoundAt
  <2>7. Peak(t) \in Nat /\ FLUSH_LEVEL - 1 <= Peak(t)
    BY Sizes DEF Peak, Threads
  <2>8. Bound(t)' = IF Len(sendBuffer) + k >= FLUSH_LEVEL THEN Peak(t) + TRAILER ELSE Peak(t)
    BY <2>4 DEF Bound, BoundAt, Peak
  <2>9. Len(sendBuffer') <= Bound(t)'
    BY <2>3, <2>6, <2>7, <2>8, <1>1, Sizes
  <2>10. PartsBounded(t)' /\ thread'[t].pc # "idle"
    BY <2>4 DEF PartsBounded
  <2> QED
    BY <2>1, <2>4, <2>5, <2>9, <2>10, <1>1, <1>2, ActiveSteps
<1>8. CASE EndOfPayload(t)
  <2>1. Active = t /\ thread[t].pc = "payload"
    BY <1>8, RunningIsActive DEF EndOfPayload, At, Labels
  <2>2. /\ thread'[t].pc = "trailer" /\ thread'[t].n = 0
        /\ \A u \in Threads \ {t} : thread'[u] = thread[u]
        /\ configured' = configured /\ sendBuffer' = sendBuffer
    BY <1>8, <1>1, GotoTyped DEF EndOfPayload, Buffers, Usb, Labels
  <2>3. Peak(t) \in Nat /\ Len(sendBuffer) <= Peak(t)
    BY <2>1, <1>4, Sizes DEF Bound, BoundAt, Peak, Threads
  <2>4. Bound(t)' = Peak(t) + 0
    BY <2>2 DEF Bound, BoundAt, Peak
  <2>5. PartsBounded(t)' /\ thread'[t].pc # "idle"
    BY <2>2, Sizes DEF PartsBounded
  <2> QED
    BY <2>1, <2>2, <2>3, <2>4, <2>5, <1>1, <1>2, ActiveSteps
<1>9. CASE Checksum(t)
  <2>1. Active = t /\ thread[t].pc = "trailer" /\ thread[t].n < TRAILER - 1
    BY <1>9, RunningIsActive DEF Checksum, At, Labels
  <2>2. Len(sendBuffer') = Len(sendBuffer) + 1
    BY <1>9, <1>1, InsertTyped DEF Checksum
  <2>3. /\ thread'[t].n = thread[t].n + 1 /\ thread'[t].pc = "trailer"
        /\ \A u \in Threads \ {t} : thread'[u] = thread[u]
        /\ configured' = configured
    BY <1>9, <2>1, <1>3 DEF Checksum, Usb, ThreadState
  <2>4. Peak(t) \in Nat /\ Len(sendBuffer) <= Peak(t) + thread[t].n
    BY <2>1, <1>4, Sizes DEF Bound, BoundAt, Peak, Threads
  <2>5. Bound(t)' = Peak(t) + (thread[t].n + 1)
    BY <2>3 DEF Bound, BoundAt, Peak
  <2>6. Len(sendBuffer') <= Bound(t)'
    BY <2>2, <2>4, <2>5, <1>1, <1>3
  <2>7. PartsBounded(t)' /\ thread'[t].pc # "idle"
    BY <2>1, <2>3, <1>3, Sizes DEF PartsBounded
  <2> QED
    BY <2>1, <2>3, <2>6, <2>7, <1>1, <1>2, ActiveSteps
<1>10. CASE ClosingFlag(t)
  <2>1. Active = t /\ thread[t].pc = "trailer" /\ thread[t].n <= TRAILER - 1
    BY <1>10, <1>4, RunningIsActive DEF ClosingFlag, At, Labels, PartsBounded
  <2>2. Len(sendBuffer') = Len(sendBuffer) + 1
    BY <1>10, <1>1, InsertTyped DEF ClosingFlag
  <2>3. /\ thread'[t].pc = "flush"
        /\ \A u \in Threads \ {t} : thread'[u] = thread[u]
        /\ configured' = configured
    BY <1>10, <1>3 DEF ClosingFlag, Usb, ThreadState
  <2>4. Peak(t) \in Nat /\ Len(sendBuffer) <= Peak(t) + thread[t].n
    BY <2>1, <1>4, Sizes DEF Bound, BoundAt, Peak, Threads
  <2>5. Bound(t)' = Peak(t) + TRAILER
    BY <2>3 DEF Bound, BoundAt, Peak
  <2>6. Len(sendBuffer') <= Bound(t)'
    BY <2>1, <2>2, <2>4, <2>5, <1>1, <1>3, Sizes
  <2>7. PartsBounded(t)' /\ thread'[t].pc # "idle"
    BY <2>3 DEF PartsBounded
  <2> QED
    BY <2>1, <2>3, <2>6, <2>7, <1>1, <1>2, ActiveSteps
<1> QED
  BY <1>5, <1>6, <1>7, <1>8, <1>9, <1>10 DEF Sending

\* So does a step of SendReceivePipes, as long as the device is there.
LEMMA PipesKeep ==
  ASSUME SendInv, ~failed', NEW t \in Threads, SendReceivePipes(t)
  PROVE  SendInv'
<1>1. TypeOK /\ configured = TRUE /\ Len(sendBuffer) \in Nat
  BY LengthIsNat DEF SendInv
<1>2. TypeOK'
  BY PipesTyped DEF SendInv
<1>3. thread[t].n \in Nat /\ thread \in [Threads -> ThreadState]
  BY DEF SendInv, TypeOK, ThreadState
<1>4. PartsBounded(t) /\ Len(sendBuffer) <= Bound(Active)
  BY DEF SendInv
<1>5. CASE SelectOut(t)
  <2>1. Active = t /\ thread[t].pc = "flush"
    BY <1>5, RunningIsActive DEF SelectOut, At, Labels
  <2>2. /\ thread'[t].pc = "drain"
        /\ \A u \in Threads \ {t} : thread'[u] = thread[u]
        /\ configured' = configured /\ sendBuffer' = sendBuffer
    BY <1>5, <1>1, GotoTyped DEF SelectOut, Buffers, Labels
  <2>3. Bound(t)' = Bound(t)
    BY <2>1, <2>2 DEF Bound, BoundAt, Peak
  <2>4. PartsBounded(t)' /\ thread'[t].pc # "idle"
    BY <2>2 DEF PartsBounded
  <2> QED
    BY <2>1, <2>2, <2>3, <2>4, <1>1, <1>2, <1>4, ActiveSteps
<1>6. CASE Drain(t)
  <2>1. Active = t /\ thread[t].pc = "drain"
    BY <1>6, RunningIsActive DEF Drain, At, Labels
  <2>2. thread' = thread /\ configured' = configured
    BY <1>6 DEF Drain
  <2>3. Len(sendBuffer') = Len(sendBuffer) - 1
    BY <1>6, <1>1, HeadTailProperties DEF Drain, TypeOK
  <2>4. Bound(t)' = Bound(t) /\ Bound(t) \in Nat
    BY <2>2, <1>1, <1>4, BoundsFit DEF Bound, BoundAt, Peak, Base
  <2>5. PartsBounded(t)' /\ thread'[t].pc # "idle"
    BY <2>1, <2>2 DEF PartsBounded
  <2> QED
    BY <2>1, <2>2, <2>3, <2>4, <2>5, <1>1, <1>2, <1>4, ActiveSteps
<1>7. ~PipeBusy(t)
  BY DEF PipeBusy    \* it would have failed
<1>8. ASSUME SelectIn(t) \/ CheckIn(t) \/ ReadByte(t) \/ ClearIn(t) \/ Notification(t)
      PROVE  SendInv'
  <2>1. sendBuffer = <<>>
    <3>1. CASE SelectIn(t)
      BY <3>1 DEF SelectIn
    <3>2. CASE CheckIn(t) \/ ReadByte(t) \/ ClearIn(t) \/ Notification(t)
      <4>1. Active = t /\ thread[t].pc \in {"receive", "read", "notification"}
        BY <3>2, RunningIsActive DEF CheckIn, ReadByte, ClearIn, Notification, At, Labels
      <4>2. Len(sendBuffer) = 0
        BY <4>1, <1>1, <1>4 DEF Bound, BoundAt
      <4> QED
        BY <4>2, EmptySeq, <1>1 DEF TypeOK
    <3> QED
      BY <1>8, <3>1, <3>2
  <2>2. sendBuffer' = sendBuffer /\ configured' = configured
    BY <1>8 DEF SelectIn, CheckIn, ReadByte, ClearIn, Notification, Buffers, Usb
  <2>3. \A u \in Threads : PartsBounded(u)'
    <3>1. CASE ReadByte(t)
      BY <3>1 DEF ReadByte, SendInv, PartsBounded
    <3>2. CASE SelectIn(t) \/ CheckIn(t) \/ ClearIn(t) \/ Notification(t)
      <4>1. \E label \in Labels \ {"header"} : thread' = Goto(t, label)
        <5>1. {"receive", "read", "notification", "payload", "idle"} \subseteq Labels \ {"header"}
          BY DEF Labels
        <5> QED
          BY <3>2, <5>1, <1>1, ReturnTyped
          DEF SelectIn, CheckIn, ClearIn, Notification, Return
      <4>2. /\ thread'[t].pc # "header" /\ thread'[t].n = 0
            /\ \A u \in Threads \ {t} : thread'[u] = thread[u]
        BY <4>1, <1>1, GotoTyped
      <4> QED
        BY <4>2, Sizes DEF SendInv, PartsBounded
    <3> QED
      BY <1>8, <3>1, <3>2
  <2> QED
    BY <2>1, <2>2, <2>3, <1>1, <1>2, EmptyingSteps
<1> QED
  BY <1>5, <1>6, <1>7, <1>8 DEF SendReceivePipes

\* What has failed stays failed.
LEMMA FailureLasts == [Next]_vars /\ failed => failed'
BY DEF Next, Sending, network_send, Header, Payload, EndOfPayload, Checksum, ClosingFlag,
       SendReceivePipes, SelectOut, Drain, PipeBusy, SelectIn, CheckIn, ReadByte, ClearIn,
       Notification, USBManagement_ManageUSBState, RingBuffer_Remove, Arrival, DeviceGoes,
       Usb, vars

\* Every step that the device survives keeps those bounds.
LEMMA SendNext == ~failed' /\ SendInv /\ [Next]_vars => SendInv'
<1> SUFFICES ASSUME ~failed', SendInv, [Next]_vars PROVE SendInv'
  OBVIOUS
<1>1. TypeOK'
  BY NextTyped DEF SendInv
<1>2. ASSUME NEW t \in Threads, Sending(t) \/ SendReceivePipes(t) PROVE SendInv'
  BY <1>2, SendingKeeps, PipesKeep
<1>3. CASE USBManagement_ManageUSBState
  <2>1. /\ thread["main"].pc = "idle" /\ thread["ISR"].pc = "idle"
        /\ sendBuffer' = sendBuffer /\ configured' = configured /\ configured = TRUE
    BY <1>3 DEF USBManagement_ManageUSBState, At, Running, Buffers, Usb, SendInv
  <2>2. sendBuffer = <<>>
    <3>1. Len(sendBuffer) <= 0
      BY <2>1 DEF SendInv, Active, Bound, BoundAt
    <3> QED
      BY <3>1, EmptySeq DEF SendInv, TypeOK
  <2>3. /\ thread'["main"].pc = "flush" /\ thread'["ISR"] = thread["ISR"]
    BY <1>3, <2>1 DEF USBManagement_ManageUSBState, SendInv, TypeOK, Threads, ThreadState
  <2>4. \A u \in Threads : PartsBounded(u)'
    BY <2>1, <2>3 DEF PartsBounded, Threads
  <2> QED
    BY <2>1, <2>2, <2>4, <1>1, EmptyingSteps
<1>4. CASE RingBuffer_Remove \/ (\E p \in InPipes : Arrival(p)) \/ UNCHANGED vars
  <2>1. thread' = thread /\ sendBuffer' = sendBuffer /\ configured' = configured
    BY <1>4 DEF RingBuffer_Remove, Arrival, Usb, Buffers, vars
  <2> QED
    BY <2>1, <1>1 DEF SendInv, PartsBounded, Active, Bound
<1>5. ~DeviceGoes
  BY DEF DeviceGoes
<1> QED
  BY <1>2, <1>3, <1>4, <1>5 DEF Next

\* SendBufferBounded: as long as the device stays and takes what it is sent, the send
\* buffer never overflows, though network_send does not check it and whether or not the
\* interrupt puts a frame of its own on top of half of one.
THEOREM SendBufferNeverOverflows == Spec => []SendBufferBounded
<1> DEFINE UntilFailure == ~failed => SendInv
<1>1. UntilFailure => SendBufferBounded
  <2> SUFFICES ASSUME SendInv PROVE Len(sendBuffer) <= BUFFER_SIZE
    BY DEF SendBufferBounded
  <2>1. Active \in Threads /\ PartsBounded(Active)
    BY DEF SendInv, Active, Threads
  <2>2. Bound(Active) \in Nat /\ Bound(Active) <= BUFFER_SIZE
    BY <2>1, BoundsFit DEF SendInv
  <2>3. Len(sendBuffer) \in Nat
    BY LengthIsNat DEF SendInv
  <2> QED
    BY <2>2, <2>3, Sizes DEF SendInv
<1>2. Init => UntilFailure
  BY SendInit
<1>3. UntilFailure /\ [Next]_vars => UntilFailure'
  BY SendNext, FailureLasts
<1> QED
  BY <1>1, <1>2, <1>3, PTL DEF Spec
----------------------------------------------------------------------------
(* The receive buffer, when the interrupt does not come inside these functions *)

Idle(t) == thread[t].pc = "idle"

\* A bank is being read only while it and what is in the buffer fit the buffer together;
\* nobody else then selects a pipe or reads.
ReceiveInv ==
  /\ TypeOK
  /\ Idle("main") \/ Idle("ISR")
  /\ receiveCount <= BUFFER_SIZE
  /\ \A t \in Threads : thread[t].pc = "read" =>
       /\ selected \in InPipes /\ bank[selected].received
       /\ receiveCount + bank[selected].bytes <= BUFFER_SIZE

\* The bounds on the receive buffer hold when the program starts.
LEMMA ReceiveInit == Init => ReceiveInv
<1> SUFFICES ASSUME Init PROVE ReceiveInv
  OBVIOUS
<1>1. \A t \in Threads : thread[t].pc = "idle"
  BY DEF Init
<1> QED
  BY <1>1, InitTyped, Sizes DEF Init, ReceiveInv, Idle, Threads

\* A step of a thread that does not touch the banks keeps the invariant when it does not
\* end in the middle of a reading.
LEMMA OtherSteps ==
  ASSUME ReceiveInv, TypeOK', NEW t \in Threads, \A u \in Threads \ {t} : Idle(u),
         \A u \in Threads \ {t} : thread'[u] = thread[u],
         thread'[t].pc # "read", receiveCount' = receiveCount
  PROVE  ReceiveInv'
<1>1. \A u \in Threads : thread'[u].pc # "read"
  BY DEF Idle
<1>2. (Idle("main") \/ Idle("ISR"))'
  BY DEF Idle, Threads
<1> QED
  BY <1>1, <1>2 DEF ReceiveInv

\* Without preemption every step keeps the bounds on the receive buffer.
LEMMA ReceiveNext == ~Preempt /\ ReceiveInv /\ [Next]_vars => ReceiveInv'
<1> SUFFICES ASSUME ~Preempt, ReceiveInv, [Next]_vars PROVE ReceiveInv'
  OBVIOUS
<1>1. TypeOK /\ TypeOK' /\ receiveCount \in Nat /\ thread \in [Threads -> ThreadState]
  BY NextTyped DEF ReceiveInv, TypeOK
<1>2. ASSUME NEW t \in Threads, Sending(t) PROVE ReceiveInv'
  <2>1. /\ thread'[t].pc # "read" /\ receiveCount' = receiveCount
        /\ \A u \in Threads \ {t} : thread'[u] = thread[u]
    <3>1. ASSUME NEW len \in 0..MaxLen, network_send(t, len)
          PROVE  /\ thread'[t].pc # "read" /\ receiveCount' = receiveCount
                 /\ \A u \in Threads \ {t} : thread'[u] = thread[u]
      BY <3>1, <1>1 DEF network_send, Buffers
    <3>2. CASE Header(t)
      BY <3>2, <1>1 DEF Header, ThreadState
    <3>3. CASE Payload(t)
      BY <3>3, <1>1 DEF Payload, ThreadState
    <3>4. CASE EndOfPayload(t)
      BY <3>4, <1>1, GotoTyped DEF EndOfPayload, Buffers, Labels
    <3>5. CASE Checksum(t)
      BY <3>5, <1>1 DEF Checksum, ThreadState, At
    <3>6. CASE ClosingFlag(t)
      BY <3>6, <1>1 DEF ClosingFlag, ThreadState
    <3> QED
      BY <1>2, <3>1, <3>2, <3>3, <3>4, <3>5, <3>6 DEF Sending
  <2>2. \A u \in Threads \ {t} : Idle(u)
    <3>1. CASE t = "main"
      <4>1. Running(t)
        BY <1>2 DEF Sending, network_send, Header, Payload, EndOfPayload, Checksum,
                    ClosingFlag, At
      <4> QED
        BY <3>1, <4>1 DEF Running, Idle, Threads
    <3>2. CASE t = "ISR" /\ ~Idle("ISR")
      BY <3>2 DEF ReceiveInv, Idle, Threads
    <3>3. CASE t = "ISR" /\ Idle("ISR")
      <4>1. \E len \in 0..MaxLen : network_send(t, len)
        BY <1>2, <3>3 DEF Sending, Header, Payload, EndOfPayload, Checksum, ClosingFlag,
                          At, Idle
      <4> QED
        BY <3>3, <4>1 DEF network_send, Idle, Threads
    <3> QED
      BY <3>1, <3>2, <3>3 DEF Threads
  <2> QED
    BY <2>1, <2>2, <1>1, OtherSteps
<1>3. ASSUME NEW t \in Threads, SendReceivePipes(t) PROVE ReceiveInv'
  <2>1. Running(t) /\ ~Idle(t)
    BY <1>3 DEF SendReceivePipes, SelectOut, Drain, PipeBusy, SelectIn, CheckIn, ReadByte,
                ClearIn, Notification, At, Idle
  <2>2. \A u \in Threads \ {t} : Idle(u)
    BY <2>1 DEF ReceiveInv, Running, Idle, Threads
  <2>3. CASE SelectOut(t) \/ PipeBusy(t) \/ SelectIn(t) \/ ClearIn(t) \/ Notification(t)
    <3>1. \E label \in Labels \ {"read"} : thread' = Goto(t, label)
      <4>1. {"drain", "receive", "notification", "payload", "idle"} \subseteq Labels \ {"read"}
        BY DEF Labels
      <4> QED
        BY <2>3, <4>1, <1>1, ReturnTyped
        DEF SelectOut, PipeBusy, SelectIn, ClearIn, Notification, Return
    <3>2. receiveCount' = receiveCount
      BY <2>3 DEF SelectOut, PipeBusy, SelectIn, ClearIn, Notification, Buffers
    <3> QED
      BY <3>1, <3>2, <2>2, <1>1, GotoTyped, OtherSteps
  <2>4. CASE Drain(t)
    BY <2>4, <2>2, <1>1, OtherSteps DEF Drain, At
  <2>5. CASE CheckIn(t) /\ ~(Bank(selected).received /\ SpaceAvailable(receiveCount))
    <3>1. thread' = Goto(t, "notification") /\ receiveCount' = receiveCount
      BY <2>5 DEF CheckIn, Buffers
    <3> QED
      BY <3>1, <2>2, <1>1, GotoTyped, OtherSteps DEF Labels
  <2>6. CASE CheckIn(t) /\ Bank(selected).received /\ SpaceAvailable(receiveCount)
    <3>1. /\ thread' = Goto(t, "read") /\ receiveCount' = receiveCount
          /\ selected' = selected /\ bank' = bank
      BY <2>6 DEF CheckIn, Buffers, Usb
    <3>2. selected \in InPipes /\ bank[selected].received
      BY <2>6, <1>1 DEF Bank, EmptyBank, TypeOK, Pipes
    <3>3. bank[selected].bytes \in 0..PIPE_SIZE
      BY <3>2, <1>1 DEF TypeOK
    <3>4. receiveCount + bank[selected].bytes <= BUFFER_SIZE
      BY <2>6, <3>3, <1>1, Sizes DEF SpaceAvailable
    <3>5. (Idle("main") \/ Idle("ISR"))'
      BY <3>1, <2>2, <1>1, GotoTyped DEF Idle, Threads, Labels
    <3> QED
      BY <3>1, <3>2, <3>4, <3>5, <1>1 DEF ReceiveInv
  <2>7. CASE ReadByte(t)
    <3>1. /\ thread' = thread /\ receiveCount' = receiveCount + 1 /\ selected' = selected
          /\ bank' = [bank EXCEPT ![selected].bytes = @ - 1]
          /\ thread[t].pc = "read"
      BY <2>7 DEF ReadByte, At
    <3>2. /\ selected \in InPipes /\ bank[selected].received
          /\ receiveCount + bank[selected].bytes <= BUFFER_SIZE
      BY <3>1 DEF ReceiveInv
    <3>3. bank[selected].bytes \in 0..PIPE_SIZE /\ bank[selected].bytes > 0
      BY <2>7, <3>2, <1>1 DEF ReadByte, Bank, TypeOK, Pipes, InPipes
    <3>4. bank'[selected].bytes = bank[selected].bytes - 1 /\ bank'[selected].received
      BY <3>1, <3>2, <1>1 DEF TypeOK
    <3>5. receiveCount' + bank'[selected].bytes <= BUFFER_SIZE /\ receiveCount' <= BUFFER_SIZE
      BY <3>1, <3>2, <3>3, <3>4, <1>1, Sizes
    <3> QED
      BY <3>1, <3>2, <3>4, <3>5, <1>1 DEF ReceiveInv, Idle
  <2> QED
    BY <1>3, <2>3, <2>4, <2>5, <2>6, <2>7 DEF SendReceivePipes
<1>4. CASE USBManagement_ManageUSBState
  <2>1. Idle("main") /\ Idle("ISR") /\ receiveCount' = receiveCount
    BY <1>4 DEF USBManagement_ManageUSBState, At, Running, Idle, Buffers
  <2>2. thread'["ISR"] = thread["ISR"] /\ thread'["main"].pc # "read"
    BY <1>4, <2>1, <1>1 DEF USBManagement_ManageUSBState, Threads, ThreadState, Idle
  <2>3. "main" \in Threads /\ Threads \ {"main"} = {"ISR"}
    BY DEF Threads
  <2> QED
    BY <2>1, <2>2, <2>3, <1>1, OtherSteps
<1>5. CASE RingBuffer_Remove
  <2>1. Idle("main") /\ Idle("ISR") /\ thread' = thread /\ receiveCount' = receiveCount - 1
    BY <1>5 DEF RingBuffer_Remove, At, Running, Idle
  <2>2. \A t \in Threads : thread'[t].pc # "read"
    BY <2>1 DEF Idle, Threads
  <2> QED
    BY <2>1, <2>2, <1>1, Sizes DEF ReceiveInv, Idle
<1>6. ASSUME NEW p \in InPipes, Arrival(p) PROVE ReceiveInv'
  <2>1. /\ ~bank[p].received /\ thread' = thread /\ receiveCount' = receiveCount
        /\ selected' = selected
        /\ \A q \in InPipes \ {p} : bank'[q] = bank[q]
    BY <1>6, <1>1 DEF Arrival, Buffers, TypeOK
  <2> QED
    BY <2>1, <1>1 DEF ReceiveInv, Idle
<1>7. CASE DeviceGoes \/ UNCHANGED vars
  <2>1. /\ thread' = thread /\ receiveCount' = receiveCount /\ selected' = selected
        /\ bank' = bank
    BY <1>7 DEF DeviceGoes, Buffers, vars
  <2> QED
    BY <2>1, <1>1 DEF ReceiveInv, Idle
<1> QED
  BY <1>2, <1>3, <1>4, <1>5, <1>6, <1>7 DEF Next

\* ReceiveBufferBounded: when the interrupt does not come inside these functions, asking
\* for the space of a bank before one is read is enough, whatever the device does.
THEOREM ReceiveBufferNeverOverflows == ~Preempt /\ Spec => []ReceiveBufferBounded
<1>1. ReceiveInv => ReceiveBufferBounded
  BY DEF ReceiveInv, ReceiveBufferBounded
<1> SUFFICES ASSUME ~Preempt PROVE Spec => []ReceiveBufferBounded
  OBVIOUS
<1>2. Init => ReceiveInv
  BY ReceiveInit
<1>3. ReceiveInv /\ [Next]_vars => ReceiveInv'
  BY ReceiveNext
<1> QED
  BY <1>1, <1>2, <1>3, PTL DEF Spec

----------------------------------------------------------------------------
(* The bytes the modem is sent, when the interrupt does not come inside *)

Follows(a, b) == IF a.last THEN b.pos = 0 ELSE b.by = a.by /\ b.pos = a.pos + 1

\* The last byte sent and those to be sent, one after the other
Chain == <<lastOut>> \o sendBuffer
Chained(s) == \A i \in 1..(Len(s) - 1) : Follows(s[i], s[i + 1])
End(s) == s[Len(s)]

\* Thread t has begun a frame and not ended it
InFrame(t) ==
  \/ thread[t].pc \in {"header", "payload", "trailer"}
  \/ thread[t].pc # "idle" /\ thread[t].ret = "payload"

\* The next byte of t's frame follows on byte a
Expects(a, t) == IF a.last THEN thread[t].pos = 0 ELSE a.by = t /\ thread[t].pos = a.pos + 1

FramesInv ==
  /\ TypeOK
  /\ Idle("main") \/ Idle("ISR")
  /\ ~broken
  /\ \A t \in Threads : thread[t].pc = "drain" => selected = "OUT"
  /\ Chained(Chain)
  /\ \A t \in Threads : InFrame(t) => Expects(End(Chain), t)
  /\ (\A t \in Threads : ~InFrame(t)) => End(Chain).last

\* The chain is never empty.
LEMMA ChainTyped ==
  ASSUME TypeOK
  PROVE  /\ Chain \in Seq(Bytes) /\ Len(Chain) = Len(sendBuffer) + 1 /\ Len(sendBuffer) \in Nat
         /\ Chain[1] = lastOut /\ End(Chain) \in Bytes
         /\ \A i \in 1..Len(sendBuffer) : Chain[i + 1] = sendBuffer[i]
<1>1. lastOut \in Bytes /\ sendBuffer \in Seq(Bytes) /\ Len(sendBuffer) \in Nat
  BY LengthIsNat DEF TypeOK
<1>2. <<lastOut>> \in Seq(Bytes) /\ Len(<<lastOut>>) = 1 /\ <<lastOut>>[1] = lastOut
  BY <1>1
<1>3. /\ Chain \in Seq(Bytes) /\ Len(Chain) = 1 + Len(sendBuffer)
      /\ \A i \in 1..(1 + Len(sendBuffer)) :
           Chain[i] = IF i <= 1 THEN <<lastOut>>[i] ELSE sendBuffer[i - 1]
  BY <1>1, <1>2, ConcatProperties DEF Chain
<1>4. Len(Chain) \in 1..Len(Chain) /\ Chain[1] = lastOut
  BY <1>1, <1>2, <1>3
<1>5. End(Chain) \in Bytes
  BY <1>3, <1>4, ElementOfSeq DEF End
<1>6. \A i \in 1..Len(sendBuffer) : Chain[i + 1] = sendBuffer[i]
  BY <1>1, <1>3
<1> QED
  BY <1>1, <1>3, <1>4, <1>5, <1>6

\* A chain stays one without its first element,
LEMMA ChainedTail ==
  ASSUME NEW s \in Seq(Bytes), NEW t \in Seq(Bytes), Len(s) >= 2, Len(t) = Len(s) - 1,
         \A i \in 1..Len(t) : t[i] = s[i + 1], Chained(s)
  PROVE  Chained(t) /\ End(t) = End(s)
<1>1. Len(s) \in Nat /\ Len(t) \in Nat
  BY LenProperties
<1>2. ASSUME NEW i \in 1..(Len(t) - 1) PROVE Follows(t[i], t[i + 1])
  <2>1. i \in 1..Len(t) /\ i + 1 \in 1..Len(t) /\ i + 1 \in 1..(Len(s) - 1)
    BY <1>1
  <2>2. t[i] = s[i + 1] /\ t[i + 1] = s[(i + 1) + 1]
    BY <2>1
  <2> QED
    BY <2>1, <2>2 DEF Chained
<1>3. Len(t) \in 1..Len(t) /\ Len(t) + 1 = Len(s)
  BY <1>1
<1> QED
  BY <1>2, <1>3 DEF Chained, End

\* and with elements that follow on its last.
LEMMA ChainedConcat ==
  ASSUME NEW s \in Seq(Bytes), NEW c \in Seq(Bytes), Len(s) >= 1, Len(c) \in {1, 2},
         Chained(s), Chained(c), Follows(End(s), c[1])
  PROVE  Chained(s \o c) /\ End(s \o c) = End(c)
<1>1. Len(s) \in Nat /\ Len(c) \in Nat
  BY LenProperties
<1>2. /\ Len(s \o c) = Len(s) + Len(c)
      /\ \A i \in 1..(Len(s) + Len(c)) : (s \o c)[i] = IF i <= Len(s) THEN s[i] ELSE c[i - Len(s)]
  BY ConcatProperties
<1> DEFINE d == s \o c
           n == Len(s)
           m == Len(c)
<1>3. n \in Nat /\ m \in Nat /\ n >= 1 /\ m >= 1 /\ Len(d) = n + m
      /\ \A i \in 1..(n + m) : d[i] = IF i <= n THEN s[i] ELSE c[i - n]
  BY <1>1, <1>2
<1>4. /\ \A i \in 1..(n - 1) : Follows(s[i], s[i + 1])
      /\ \A i \in 1..(m - 1) : Follows(c[i], c[i + 1])
      /\ Follows(s[n], c[1])
  BY DEF Chained, End
<1> HIDE DEF d, n, m
<1>5. ASSUME NEW i \in 1..(n + m - 1) PROVE Follows(d[i], d[i + 1])
  <2>1. CASE i < n
    <3>1. i \in 1..(n - 1) /\ d[i] = s[i] /\ d[i + 1] = s[i + 1]
      BY <1>3, <2>1
    <3> QED
      BY <1>4, <3>1
  <2>2. CASE i = n
    <3>1. d[i] = s[n] /\ d[i + 1] = c[1]
      BY <1>3, <2>2
    <3> QED
      BY <1>4, <3>1
  <2>3. CASE i > n
    <3> DEFINE j == i - n
    <3>1. j \in 1..(m - 1) /\ d[i] = c[j] /\ d[i + 1] = c[j + 1]
      BY SMTT(30), <1>3, <2>3
    <3> HIDE DEF j
    <3> QED
      BY <1>4, <3>1
  <2> QED
    BY <1>3, <2>1, <2>2, <2>3
<1>6. d[n + m] = c[m]
  BY <1>3
<1> QED
  BY <1>3, <1>5, <1>6 DEF Chained, End, d, m

\* The bytes of a frame to come are a chain.
LEMMA ComingChained ==
  ASSUME TypeOK, NEW t \in Threads, NEW k \in {1, 2}, NEW last \in BOOLEAN, k = 2 => ~last
  PROVE  /\ Chained(Coming(t, k, last))
         /\ Coming(t, k, last)[1] = [by |-> t, pos |-> thread[t].pos, last |-> last]
         /\ End(Coming(t, k, last)) = [by |-> t, pos |-> thread[t].pos + k - 1, last |-> last]
<1> DEFINE c == Coming(t, k, last)
           n == thread[t].pos
<1>1. n \in Nat
  BY DEF TypeOK, ThreadState
<1>2. Len(c) = k
  BY ComingTyped
<1>3. \A j \in 1..k : c[j] = [by |-> t, pos |-> n + j - 1, last |-> last]
  BY DEF Coming
<1> HIDE DEF c, n
<1>4. c[1] = [by |-> t, pos |-> n, last |-> last]
  BY <1>1, <1>3
<1>5. c[k] = [by |-> t, pos |-> n + k - 1, last |-> last]
  BY <1>3
<1>6. Chained(c)
  <2>1. CASE k = 1
    BY <1>2, <2>1 DEF Chained
  <2>2. CASE k = 2
    <3>1. c[1 + 1] = [by |-> t, pos |-> n + 2 - 1, last |-> last]
      BY <1>3, <2>2
    <3>2. Follows(c[1], c[1 + 1])
      BY <1>1, <1>4, <2>2, <3>1 DEF Follows
    <3>3. \A i \in 1..(k - 1) : i = 1
      BY <2>2
    <3> QED
      BY <1>2, <3>2, <3>3 DEF Chained
  <2> QED
    BY <2>1, <2>2
<1> QED
  BY <1>2, <1>4, <1>5, <1>6 DEF End, c, n

\* What the invariant says of the chain, when the other thread is idle and t is in a frame
\* or not.
LEMMA FramesKept ==
  ASSUME TypeOK', ~broken', NEW t \in Threads, \A u \in Threads \ {t} : thread'[u].pc = "idle",
         thread'[t].pc = "drain" => selected' = "OUT",
         Chained(Chain)',
         IF InFrame(t)' THEN Expects(End(Chain), t)' ELSE End(Chain)'.last
  PROVE  FramesInv'
<1>1. \A u \in Threads \ {t} : ~InFrame(u)' /\ thread'[u].pc # "drain"
  BY DEF InFrame
<1>2. (Idle("main") \/ Idle("ISR"))'
  BY DEF Idle, Threads
<1>3. \A u \in Threads : InFrame(u)' => Expects(End(Chain), u)'
  BY <1>1
<1>4. (\A u \in Threads : ~InFrame(u)') => End(Chain)'.last
  OBVIOUS
<1>5. \A u \in Threads : thread'[u].pc = "drain" => selected' = "OUT"
  BY <1>1
<1> QED
  BY <1>2, <1>3, <1>4, <1>5 DEF FramesInv

\* A thread that is running is alone.
LEMMA RunningAlone ==
  ASSUME FramesInv, NEW t \in Threads, Running(t), thread[t].pc # "idle"
  PROVE  /\ \A u \in Threads \ {t} : thread[u].pc = "idle" /\ ~InFrame(u)
         /\ IF InFrame(t) THEN Expects(End(Chain), t) ELSE End(Chain).last
<1>1. \A u \in Threads \ {t} : thread[u].pc = "idle" /\ ~InFrame(u)
  BY DEF FramesInv, Running, Idle, Threads, InFrame
<1>2. InFrame(t) => Expects(End(Chain), t)
  BY DEF FramesInv
<1>3. ~InFrame(t) => \A u \in Threads : ~InFrame(u)
  BY <1>1
<1> QED
  BY <1>1, <1>2, <1>3 DEF FramesInv

\* A step that puts bytes of the frame in the buffer keeps the invariant.
LEMMA InsertKeeps ==
  ASSUME FramesInv, TypeOK', NEW t \in Threads, Running(t), thread[t].pc # "idle", InFrame(t),
         NEW k \in {1, 2}, NEW last \in BOOLEAN, k = 2 => ~last, RingBuffer_Insert(t, k, last),
         lastOut' = lastOut, broken' = broken,
         \A u \in Threads \ {t} : thread'[u] = thread[u], thread'[t].pc # "drain",
         IF last THEN ~InFrame(t)' ELSE InFrame(t)' /\ thread'[t].pos = thread[t].pos + k
  PROVE  FramesInv'
<1>1. TypeOK /\ ~broken /\ Chained(Chain) /\ Expects(End(Chain), t)
  BY DEF FramesInv
<1> DEFINE c == Coming(t, k, last)
           a == [by |-> t, pos |-> thread[t].pos, last |-> last]
           z == [by |-> t, pos |-> thread[t].pos + k - 1, last |-> last]
<1>2. c \in Seq(Bytes) /\ Len(c) = k /\ Chained(c) /\ c[1] = a /\ End(c) = z
  BY <1>1, ComingTyped, ComingChained
<1>3. Follows(End(Chain), c[1])
  BY <1>1, <1>2 DEF Follows, Expects
<1>4. Chain' = Chain \o c
  <2>1. sendBuffer \in Seq(Bytes) /\ <<lastOut>> \in Seq(Bytes)
    BY <1>1 DEF TypeOK
  <2>2. sendBuffer' = sendBuffer \o c
    BY DEF RingBuffer_Insert
  <2> HIDE DEF c
  <2>3. <<lastOut>> \o (sendBuffer \o c) = (<<lastOut>> \o sendBuffer) \o c
    BY <1>2, <2>1, ConcatAssociative
  <2> QED
    BY <2>2, <2>3 DEF Chain
<1> HIDE DEF c
<1>5. Chain \in Seq(Bytes) /\ Len(Chain) >= 1
  BY <1>1, ChainTyped
<1>6. Chained(Chain \o c) /\ End(Chain \o c) = End(c)
  BY <1>1, <1>2, <1>3, <1>5, ChainedConcat
<1>7. Chained(Chain)' /\ End(Chain)' = z
  BY <1>2, <1>4, <1>6 DEF Chained, End
<1>8. IF InFrame(t)' THEN Expects(End(Chain), t)' ELSE End(Chain)'.last
  <2>1. thread[t].pos \in Nat
    BY <1>1 DEF TypeOK, ThreadState
  <2> DEFINE n == thread[t].pos
  <2>2. z.last = last /\ z.by = t /\ z.pos = n + k - 1
    OBVIOUS
  <2> HIDE DEF z
  <2>3. CASE last
    BY <1>7, <2>2, <2>3
  <2>4. CASE ~last
    <3>1. thread'[t].pos = n + k
      BY <2>4
    <3> HIDE DEF n
    <3>2. n \in Nat
      BY <2>1 DEF n
    <3>3. thread'[t].pos = z.pos + 1
      BY <2>2, <3>1, <3>2
    <3>4. Expects(End(Chain), t)'
      BY <1>7, <2>2, <2>4, <3>3 DEF Expects
    <3> QED
      BY <2>4, <3>4
  <2> QED
    BY <2>3, <2>4
<1>9. \A u \in Threads \ {t} : thread'[u].pc = "idle"
  BY RunningAlone
<1> QED
  BY <1>1, <1>7, <1>8, <1>9, FramesKept

\* A step that leaves the chain alone keeps the invariant when it neither begins nor ends a
\* frame.
LEMMA MoveKeeps ==
  ASSUME FramesInv, TypeOK', NEW t \in Threads, Running(t), thread[t].pc # "idle",
         sendBuffer' = sendBuffer, lastOut' = lastOut, broken' = broken,
         \A u \in Threads \ {t} : thread'[u] = thread[u],
         thread'[t].pc = "drain" => selected' = "OUT",
         InFrame(t)' <=> InFrame(t), thread'[t].pos = thread[t].pos
  PROVE  FramesInv'
<1>1. Chain' = Chain /\ Chained(Chain) /\ ~broken
  BY DEF Chain, FramesInv
<1>2. Chained(Chain)' /\ End(Chain)' = End(Chain)
  BY <1>1 DEF Chained, End
<1>3. Expects(End(Chain), t)' <=> Expects(End(Chain), t)
  BY <1>2 DEF Expects
<1>4. /\ \A u \in Threads \ {t} : thread[u].pc = "idle"
      /\ IF InFrame(t) THEN Expects(End(Chain), t) ELSE End(Chain).last
  BY RunningAlone
<1> QED
  BY <1>1, <1>2, <1>3, <1>4, FramesKept

\* A frame is put together byte by byte.
LEMMA SendingFrames ==
  ASSUME ~Preempt, FramesInv, NEW t \in Threads, Sending(t)
  PROVE  FramesInv'
<1>1. TypeOK /\ TypeOK' /\ thread \in [Threads -> ThreadState] /\ thread[t] \in ThreadState
  BY SendingTyped DEF FramesInv, TypeOK
<1>2. ASSUME NEW len \in 0..MaxLen, network_send(t, len) PROVE FramesInv'
  <2>1. /\ thread' = [thread EXCEPT ![t] = [pc |-> "header", i |-> 0, n |-> 0, pos |-> 0,
                                            ret |-> "idle"]]
        /\ Chain' = Chain /\ broken' = broken /\ Running(t) /\ thread[t].pc = "idle"
        /\ t = "ISR" => thread["main"].pc = "idle"
    BY <1>2 DEF network_send, Buffers, Usb, At, Chain
  <2>2. \A u \in Threads : thread[u].pc = "idle" /\ ~InFrame(u)
    BY <2>1 DEF Running, Threads, InFrame
  <2>3. End(Chain).last /\ Chained(Chain) /\ ~broken
    BY <2>2 DEF FramesInv
  <2>4. Chained(Chain)' /\ End(Chain)' = End(Chain)
    BY <2>1, <2>3 DEF Chained, End
  <2>5. /\ thread'[t].pc = "header" /\ thread'[t].pos = 0
        /\ \A u \in Threads \ {t} : thread'[u].pc = "idle"
    BY <1>1, <2>1, <2>2
  <2>6. InFrame(t)' /\ Expects(End(Chain), t)'
    BY <2>3, <2>4, <2>5 DEF InFrame, Expects
  <2> QED
    BY <1>1, <2>1, <2>3, <2>4, <2>5, <2>6, FramesKept
<1>3. CASE Header(t)
  <2>1. /\ Running(t) /\ thread[t].pc = "header" /\ InFrame(t)
        /\ RingBuffer_Insert(t, 1, FALSE) /\ lastOut' = lastOut /\ broken' = broken
    BY <1>3 DEF Header, At, Usb, InFrame
  <2>2. /\ thread'[t].pc \in {"header", "payload"} /\ thread'[t].pos = thread[t].pos + 1
        /\ \A u \in Threads \ {t} : thread'[u] = thread[u]
    BY <1>1, <1>3 DEF Header, ThreadState
  <2>3. InFrame(t)' /\ thread'[t].pc # "drain"
    BY <2>2 DEF InFrame
  <2> QED
    BY <1>1, <2>1, <2>2, <2>3, InsertKeeps
<1>4. CASE Payload(t)
  <2>1. PICK k \in {1, 2} :
          /\ RingBuffer_Insert(t, k, FALSE)
          /\ thread' = [thread EXCEPT ![t].i = @ + 1, ![t].pos = @ + k, ![t].ret = "payload",
                                      ![t].pc = IF FlushDue(Len(sendBuffer) + k)
                                                THEN "flush" ELSE "payload"]
    BY <1>4 DEF Payload
  <2>2. Running(t) /\ thread[t].pc = "payload" /\ InFrame(t) /\ lastOut' = lastOut /\ broken' = broken
    BY <1>4 DEF Payload, At, Usb, InFrame
  <2>3. /\ thread'[t].pc \in {"flush", "payload"} /\ thread'[t].pos = thread[t].pos + k
        /\ thread'[t].ret = "payload" /\ \A u \in Threads \ {t} : thread'[u] = thread[u]
    BY <1>1, <2>1 DEF ThreadState
  <2>4. InFrame(t)' /\ thread'[t].pc # "drain"
    BY <2>3 DEF InFrame
  <2> QED
    BY ZenonT(30), <1>1, <2>1, <2>2, <2>3, <2>4, InsertKeeps
<1>5. CASE EndOfPayload(t)
  <2>1. /\ Running(t) /\ thread[t].pc = "payload" /\ InFrame(t)
        /\ sendBuffer' = sendBuffer /\ lastOut' = lastOut /\ broken' = broken
    BY <1>5 DEF EndOfPayload, At, Usb, Buffers, InFrame
  <2>2. /\ thread'[t].pc = "trailer" /\ thread'[t].pos = thread[t].pos
        /\ \A u \in Threads \ {t} : thread'[u] = thread[u]
    BY <1>1, <1>5 DEF EndOfPayload, Goto, ThreadState
  <2>3. InFrame(t)'
    BY <2>2 DEF InFrame
  <2> QED
    BY <1>1, <2>1, <2>2, <2>3, MoveKeeps
<1>6. CASE Checksum(t)
  <2>1. /\ Running(t) /\ thread[t].pc = "trailer" /\ InFrame(t)
        /\ RingBuffer_Insert(t, 1, FALSE) /\ lastOut' = lastOut /\ broken' = broken
    BY <1>6 DEF Checksum, At, Usb, InFrame
  <2>2. /\ thread'[t].pc = "trailer" /\ thread'[t].pos = thread[t].pos + 1
        /\ \A u \in Threads \ {t} : thread'[u] = thread[u]
    BY <1>1, <1>6, <2>1 DEF Checksum, ThreadState
  <2>3. InFrame(t)' /\ thread'[t].pc # "drain"
    BY <2>2 DEF InFrame
  <2> QED
    BY <1>1, <2>1, <2>2, <2>3, InsertKeeps
<1>7. CASE ClosingFlag(t)
  <2>1. /\ Running(t) /\ thread[t].pc = "trailer" /\ InFrame(t)
        /\ RingBuffer_Insert(t, 1, TRUE) /\ lastOut' = lastOut /\ broken' = broken
    BY <1>7 DEF ClosingFlag, At, Usb, InFrame
  <2>2. /\ thread'[t].pc = "flush" /\ thread'[t].ret = "idle"
        /\ \A u \in Threads \ {t} : thread'[u] = thread[u]
    BY <1>1, <1>7 DEF ClosingFlag, ThreadState
  <2>3. ~InFrame(t)' /\ thread'[t].pc # "drain"
    BY <2>2 DEF InFrame
  <2> DEFINE last == TRUE
             k == 1
  <2>4. last \in BOOLEAN /\ last /\ k \in {1, 2} /\ k # 2
    OBVIOUS
  <2>5. RingBuffer_Insert(t, k, last)
    BY <2>1, Zenon
  <2> HIDE DEF last, k
  <2> QED
    BY <1>1, <2>1, <2>2, <2>3, <2>4, <2>5, InsertKeeps
<1> QED
  BY <1>2, <1>3, <1>4, <1>5, <1>6, <1>7 DEF Sending

\* The modem is sent the next byte of the chain.
LEMMA DrainFrames ==
  ASSUME FramesInv, NEW t \in Threads, Drain(t)
  PROVE  FramesInv'
<1>1. /\ TypeOK /\ TypeOK' /\ Running(t) /\ thread[t].pc = "drain" /\ thread' = thread
      /\ sendBuffer # <<>> /\ lastOut' = Head(sendBuffer) /\ sendBuffer' = Tail(sendBuffer)
      /\ selected' = selected /\ selected = "OUT" /\ ~broken /\ Chained(Chain)
      /\ broken' = (broken \/ selected # "OUT" \/ ~Continues(Head(sendBuffer)))
  BY PipesTyped DEF FramesInv, Drain, At, SendReceivePipes
<1>2. /\ Chain \in Seq(Bytes) /\ Len(Chain) = Len(sendBuffer) + 1 /\ Len(sendBuffer) \in Nat
      /\ Chain[1] = lastOut /\ \A i \in 1..Len(sendBuffer) : Chain[i + 1] = sendBuffer[i]
  BY <1>1, ChainTyped
<1>3. sendBuffer \in Seq(Bytes) /\ Len(sendBuffer) >= 1 /\ Head(sendBuffer) = sendBuffer[1]
  BY <1>1, <1>2, HeadTailProperties, EmptySeq DEF TypeOK
<1>4. Follows(Chain[1], Chain[1 + 1])
  <2>1. 1 \in 1..(Len(Chain) - 1)
    BY <1>2, <1>3
  <2> QED
    BY <1>1, <2>1 DEF Chained
<1>5. Chain[1 + 1] = Head(sendBuffer)
  BY <1>2, <1>3
<1>6. ~broken'
  BY <1>1, <1>2, <1>4, <1>5 DEF Continues, Follows
<1>7. Chain' = sendBuffer
  <2> DEFINE h == Head(sendBuffer)
             r == Tail(sendBuffer)
  <2>1. h \in Bytes /\ r \in Seq(Bytes) /\ Len(r) = Len(sendBuffer) - 1
        /\ \A i \in 1..Len(r) : r[i] = sendBuffer[i + 1]
    BY <1>1, <1>3, HeadTailProperties
  <2>2. h = sendBuffer[1]
    BY <1>3
  <2>3. Chain' = <<h>> \o r
    BY <1>1 DEF Chain
  <2> HIDE DEF h, r
  <2>4. <<h>> \in Seq(Bytes) /\ Len(<<h>>) = 1 /\ <<h>>[1] = h
    BY <2>1
  <2>5. /\ <<h>> \o r \in Seq(Bytes) /\ Len(<<h>> \o r) = 1 + Len(r)
        /\ \A i \in 1..(1 + Len(r)) : (<<h>> \o r)[i] = IF i <= 1 THEN <<h>>[i] ELSE r[i - 1]
    BY <2>1, <2>4, ConcatProperties
  <2>6. Len(<<h>> \o r) = Len(sendBuffer)
    BY <1>2, <2>1, <2>5
  <2>7. \A i \in 1..Len(sendBuffer) : (<<h>> \o r)[i] = sendBuffer[i]
    BY <1>2, <2>1, <2>2, <2>4, <2>5
  <2> QED
    BY <1>3, <2>3, <2>5, <2>6, <2>7, SeqEqual
<1>8. Chained(sendBuffer) /\ End(sendBuffer) = End(Chain)
  <2>1. Len(Chain) >= 2 /\ Len(sendBuffer) = Len(Chain) - 1
        /\ \A i \in 1..Len(sendBuffer) : sendBuffer[i] = Chain[i + 1]
    BY <1>2, <1>3
  <2> QED
    BY <1>1, <1>2, <1>3, <2>1, ChainedTail
<1>9. Chained(Chain)' /\ End(Chain)' = End(Chain)
  BY <1>7, <1>8 DEF Chained, End
<1>10. /\ \A u \in Threads \ {t} : thread[u].pc = "idle"
       /\ IF InFrame(t) THEN Expects(End(Chain), t) ELSE End(Chain).last
  BY <1>1, RunningAlone
<1>11. IF InFrame(t)' THEN Expects(End(Chain), t)' ELSE End(Chain)'.last
  BY <1>1, <1>9, <1>10 DEF InFrame, Expects
<1> QED
  BY <1>1, <1>6, <1>9, <1>10, <1>11, FramesKept

\* The other steps of SendReceivePipes go on to the caller, which is where the frame was.
LEMMA PipesFrames ==
  ASSUME FramesInv, NEW t \in Threads, SendReceivePipes(t)
  PROVE  FramesInv'
<1>1. TypeOK /\ TypeOK' /\ thread \in [Threads -> ThreadState] /\ thread[t] \in ThreadState
  BY PipesTyped DEF FramesInv, TypeOK
<1>2. CASE Drain(t)
  BY <1>2, DrainFrames
<1>3. CASE \/ SelectOut(t) \/ PipeBusy(t) \/ SelectIn(t) \/ CheckIn(t) \/ ReadByte(t)
           \/ ClearIn(t) \/ Notification(t)
  <2>1. /\ Running(t)
        /\ thread[t].pc \in {"flush", "drain", "receive", "read", "notification"}
        /\ sendBuffer' = sendBuffer /\ lastOut' = lastOut /\ broken' = broken
    BY <1>3 DEF SelectOut, PipeBusy, SelectIn, CheckIn, ReadByte, ClearIn, Notification, At,
                Buffers, Usb
  <2>2. \/ thread' = thread /\ thread[t].pc = "read"
        \/ thread' = Goto(t, "drain") /\ selected' = "OUT"
        \/ \E label \in {"receive", "read", "notification", thread[t].ret} :
             thread' = Goto(t, label)
    BY <1>3 DEF SelectOut, PipeBusy, SelectIn, CheckIn, ReadByte, ClearIn, Notification, At,
                Return
  <2>3. /\ thread'[t].pos = thread[t].pos /\ thread'[t].ret = thread[t].ret
        /\ \A u \in Threads \ {t} : thread'[u] = thread[u]
        /\ thread'[t].pc \in {"drain", "receive", "read", "notification", thread[t].ret}
        /\ thread'[t].pc = "drain" => selected' = "OUT"
    <3>1. thread[t].ret \in {"payload", "idle"}
      BY <1>1 DEF ThreadState
    <3>2. CASE thread' = thread /\ thread[t].pc = "read"
      BY <3>2
    <3>3. ASSUME NEW label \in {"drain", "receive", "read", "notification", thread[t].ret},
                 thread' = Goto(t, label), label = "drain" => selected' = "OUT"
          PROVE  /\ thread'[t].pos = thread[t].pos /\ thread'[t].ret = thread[t].ret
                 /\ \A u \in Threads \ {t} : thread'[u] = thread[u]
                 /\ thread'[t].pc \in {"drain", "receive", "read", "notification", thread[t].ret}
                 /\ thread'[t].pc = "drain" => selected' = "OUT"
      BY <1>1, <3>3 DEF Goto, ThreadState
    <3> QED
      BY <2>2, <3>1, <3>2, <3>3
  <2>4. InFrame(t)' <=> InFrame(t)
    BY <1>1, <2>1, <2>3 DEF InFrame, ThreadState
  <2> QED
    BY <1>1, <2>1, <2>3, <2>4, MoveKeeps
<1> QED
  BY <1>2, <1>3 DEF SendReceivePipes

\* The chain of the bytes holds when the program starts.
LEMMA FramesInit == Init => FramesInv
<1> SUFFICES ASSUME Init PROVE FramesInv
  OBVIOUS
<1>1. TypeOK /\ sendBuffer = <<>> /\ lastOut.last /\ ~broken
  BY InitTyped DEF Init
<1>2. Len(sendBuffer) = 0
  BY <1>1, EmptySeq
<1>3. Len(Chain) = 1 /\ Chain[1] = lastOut
  BY <1>1, <1>2, ChainTyped
<1>4. Chained(Chain) /\ End(Chain).last
  BY <1>1, <1>3 DEF Chained, End
<1>5. \A t \in Threads : thread[t].pc = "idle"
  BY DEF Init
<1> QED
  BY <1>1, <1>4, <1>5 DEF FramesInv, InFrame, Idle, Threads

\* Without preemption every step keeps the chain of the bytes.
LEMMA FramesNext == ~Preempt /\ FramesInv /\ [Next]_vars => FramesInv'
<1> SUFFICES ASSUME ~Preempt, FramesInv, [Next]_vars PROVE FramesInv'
  OBVIOUS
<1>1. TypeOK /\ TypeOK' /\ thread \in [Threads -> ThreadState]
  BY NextTyped DEF FramesInv, TypeOK
<1>2. ASSUME NEW t \in Threads, Sending(t) \/ SendReceivePipes(t) PROVE FramesInv'
  BY <1>2, SendingFrames, PipesFrames
<1>3. CASE \/ USBManagement_ManageUSBState \/ RingBuffer_Remove
           \/ (\E p \in InPipes : Arrival(p)) \/ DeviceGoes \/ UNCHANGED vars
  <2>1. /\ sendBuffer' = sendBuffer /\ lastOut' = lastOut /\ broken' = broken
        /\ selected' = selected
    BY <1>3 DEF USBManagement_ManageUSBState, RingBuffer_Remove, Arrival, DeviceGoes, Buffers,
                Usb, vars
  <2>2. Chain' = Chain /\ Chained(Chain)
    BY <2>1 DEF Chain, FramesInv
  <2>3. Chained(Chain)' /\ End(Chain)' = End(Chain)
    BY <2>2 DEF Chained, End
  <2>4. CASE thread' = thread
    <3>1. \A u \in Threads : /\ InFrame(u)' <=> InFrame(u)
                             /\ Expects(End(Chain), u)' <=> Expects(End(Chain), u)
      BY <2>3, <2>4 DEF InFrame, Expects
    <3> QED
      BY <1>1, <2>1, <2>3, <2>4, <3>1 DEF FramesInv, Idle
  <2>5. CASE thread' # thread
    <3>1. /\ thread["main"].pc = "idle" /\ thread["ISR"].pc = "idle"
          /\ thread' = [thread EXCEPT !["main"].pc = "flush", !["main"].ret = "idle"]
      BY <1>3, <2>5 DEF USBManagement_ManageUSBState, RingBuffer_Remove, Arrival, DeviceGoes,
                        vars, At, Running
    <3>2. /\ thread'["main"].pc = "flush" /\ thread'["main"].ret = "idle"
          /\ \A u \in Threads \ {"main"} : thread'[u].pc = "idle"
      BY <1>1, <3>1 DEF Threads, ThreadState
    <3>3. End(Chain).last
      BY <3>1 DEF FramesInv, InFrame, Threads
    <3>4. ~InFrame("main")' /\ "main" \in Threads
      BY <3>2 DEF InFrame, Threads
    <3> QED
      BY <1>1, <2>1, <2>3, <3>2, <3>3, <3>4, FramesKept DEF FramesInv
  <2> QED
    BY <2>4, <2>5
<1> QED
  BY <1>2, <1>3 DEF Next

\* WholeFrames: when the interrupt does not come inside these functions, the modem is sent
\* whole frames through the OUT pipe, also when the device goes away or its pipe stays busy
\* in the middle of one: what was not sent stays in the buffer, and is sent before the rest.
THEOREM FramesStayWhole == ~Preempt /\ Spec => []WholeFrames
<1>1. FramesInv => WholeFrames
  BY DEF FramesInv, WholeFrames
<1> SUFFICES ASSUME ~Preempt PROVE Spec => []WholeFrames
  OBVIOUS
<1>2. Init => FramesInv
  BY FramesInit
<1>3. FramesInv /\ [Next]_vars => FramesInv'
  BY FramesNext
<1> QED
  BY <1>1, <1>2, <1>3, PTL DEF Spec
=============================================================================
