--------------------------- MODULE At90CanProofs ---------------------------
(***************************************************************************)
(* The AT90CAN driver is a FIFO in each direction until an interrupt comes *)
(* into a critical section, for buffers of any size.                       *)
(***************************************************************************)
EXTENDS At90Can, SequenceTheorems, TLAPS

FrameOrNone == Frame \cup {None}

(* The index after the last one is the first. *)
LEMMA StepRange ==
  ASSUME NEW n \in Nat \ {0}, NEW i \in 0 .. n - 1
  PROVE  Step(i, n) \in 0 .. n - 1
BY DEF Step

(* The interrupt's operations keep a ring buffer one. *)
LEMMA RingOps ==
  ASSUME NEW n \in Nat \ {0}, NEW b \in Ring(n)
  PROVE  /\ \A f \in Frame : b.used < n => Enqueued(b, f, n) \in Ring(n)
         /\ b.used > 0 => Dequeued(b, n) \in Ring(n)
<1>1. /\ b.slot \in [0 .. n - 1 -> Frame \cup {None}] /\ b.used \in 0 .. n
      /\ b.head \in 0 .. n - 1 /\ b.tail \in 0 .. n - 1
  BY DEF Ring
<1>2. Step(b.head, n) \in 0 .. n - 1 /\ Step(b.tail, n) \in 0 .. n - 1
  BY <1>1, StepRange
<1>3. ASSUME NEW f \in Frame, b.used < n PROVE Enqueued(b, f, n) \in Ring(n)
  <2>1. /\ [b.slot EXCEPT ![b.head] = f] \in [0 .. n - 1 -> Frame \cup {None}]
        /\ b.used + 1 \in 0 .. n
    BY <1>1, <1>3
  <2> QED BY <1>2, <2>1 DEF Enqueued, Ring
<1>4. ASSUME b.used > 0 PROVE Dequeued(b, n) \in Ring(n)
  <2>1. b.used - 1 \in 0 .. n
    BY <1>1, <1>4
  <2> QED BY <1>2, <2>1 DEF Dequeued, Ring
<1> QED BY <1>3, <1>4

(* Every value a variable takes is of the variable's type, torn or not. *)
THEOREM DriverTypes == Spec => []TypeOK
<1> USE DriverAssumption
<1>1. Init => TypeOK
  <2>1. ASSUME NEW n \in Nat \ {0} PROVE Empty(n) \in Ring(n)
    BY DEF Empty, Ring
  <2>2. Empty(TxSize) \in Ring(TxSize) /\ Empty(RxSize) \in Ring(RxSize)
    BY <2>1
  <2> QED BY <2>2 DEF Init, TypeOK, Pc
<1>2. TypeOK /\ [Next]_vars => TypeOK'
  <2> SUFFICES ASSUME TypeOK, [Next]_vars PROVE TypeOK'
    OBVIOUS
  <2>1. ASSUME NEW f \in Frame, Send(f) PROVE TypeOK'
    <3>1. CASE SendDirect(f)
      BY <2>1, <3>1 DEF Send, SendDirect, TypeOK, Pc
    <3>2. CASE inProgress /\ ~SendDirect(f)
      <4>1. tx' = [tx EXCEPT !.slot[tx.head] = f] /\ tx.used < TxSize
        BY <2>1, <3>2 DEF Send, XmtReady
      <4>2. tx' \in Ring(TxSize) /\ tx'.used = tx.used
        BY <4>1 DEF TypeOK, Ring
      <4> QED BY <2>1, <3>2, <4>1, <4>2 DEF Send, TypeOK, Pc
    <3> QED BY <2>1, <3>1, <3>2 DEF Send
  <2>2. ASSUME NEW f \in Frame, RXOK(f) PROVE TypeOK'
    <3>1. rx' \in Ring(RxSize) /\ rx'.used = rx.used + 1
      <4>1. Enqueued(rx, f, RxSize).used = rx.used + 1
        BY DEF TypeOK, Ring, Enqueued
      <4> QED BY <2>2, <4>1, RingOps DEF RXOK, TypeOK
    <3>2. rx.used \in Nat
      BY DEF TypeOK, Ring
    <3> QED BY <2>2, <3>1, <3>2 DEF RXOK, TypeOK, Torn, loop, Pc
  <2>3. CASE GetFrame
    <3>1. rx.slot[rx.tail] \in Frame \cup {None} /\ rx.used > 0
      BY <2>3 DEF GetFrame, TypeOK, Ring
    <3> QED BY <2>3, <3>1 DEF GetFrame, TypeOK, Pc
  <2>4. CASE Recheck
    BY <2>4 DEF Recheck, SendDirect, TypeOK, Pc
  <2>5. CASE LoadTx
    <3>1. tx.used \in 0 .. TxSize - 1
      BY <2>5 DEF LoadTx, TypeOK, Ring
    <3> QED BY <2>5, <3>1 DEF LoadTx, TypeOK, Pc
  <2>6. CASE StoreTx
    <3>1. tx' \in Ring(TxSize)
      <4>1. Step(tx.head, TxSize) \in 0 .. TxSize - 1 /\ reg + 1 \in 0 .. TxSize
        BY <2>6, StepRange DEF StoreTx, TypeOK, Ring
      <4> QED BY <2>6, <4>1 DEF StoreTx, TypeOK, Ring
    <3> QED BY <2>6, <3>1 DEF StoreTx, TypeOK, Pc
  <2>7. CASE LoadRx
    <3>1. rx.used \in 1 .. RxSize
      BY <2>7 DEF LoadRx, TypeOK, Ring
    <3> QED BY <2>7, <3>1 DEF LoadRx, TypeOK, Pc
  <2>8. CASE StoreRx
    <3>1. rx' \in Ring(RxSize)
      <4>1. Step(rx.tail, RxSize) \in 0 .. RxSize - 1 /\ reg - 1 \in 0 .. RxSize
        BY <2>8, StepRange DEF StoreRx, TypeOK, Ring
      <4> QED BY <2>8, <4>1 DEF StoreRx, TypeOK, Ring
    <3> QED BY <2>8, <3>1 DEF StoreRx, TypeOK, Pc
  <2>9. CASE TXOK
    <3>1. CASE tx.used > 0
      <4>1. mob' \in FrameOrNone
        BY <2>9, <3>1 DEF TXOK, TypeOK, Ring, FrameOrNone
      <4>2. tx' \in Ring(TxSize) /\ tx'.used < tx.used /\ tx.used \in 0 .. TxSize
        <5>1. Dequeued(tx, TxSize).used < tx.used /\ tx.used \in 0 .. TxSize
          BY DEF Dequeued, TypeOK, Ring
        <5> QED BY <2>9, <3>1, <5>1, RingOps DEF TXOK, TypeOK
      <4>3. pc \in {"copied", "enqueue"} => tx'.used < TxSize
        <5>1. tx'.used \in 0 .. TxSize
          BY <4>2 DEF Ring
        <5> QED BY <4>2, <5>1 DEF TypeOK
      <4> QED BY <2>9, <3>1, <4>1, <4>2, <4>3 DEF TXOK, TypeOK, Torn, loop, Pc, FrameOrNone
    <3>2. CASE ~(tx.used > 0)
      BY <2>9, <3>2 DEF TXOK, TypeOK, Torn, loop, Pc
    <3> QED BY <3>1, <3>2
  <2>10. CASE UNCHANGED vars
    BY <2>10 DEF vars, loop, TypeOK
  <2> QED BY <2>1, <2>2, <2>3, <2>4, <2>5, <2>6, <2>7, <2>8, <2>9, <2>10 DEF Next, Resume
<1> QED BY <1>1, <1>2, PTL DEF Spec
----------------------------------------------------------------------------
(* The content of a sound ring buffer is a sequence of frames. *)
LEMMA ContentIsSeq ==
  ASSUME NEW n \in Nat \ {0}, NEW b \in Ring(n), RingSound(b, n)
  PROVE  /\ Content(b, n) \in Seq(Frame)
         /\ Len(Content(b, n)) = b.used
         /\ \A i \in 1 .. b.used : Content(b, n)[i] = At(b, i, n)
<1>1. b.used \in Nat
  BY DEF Ring
<1>2. Content(b, n) \in [1 .. b.used -> Frame]
  BY DEF RingSound, Content
<1>3. Content(b, n) \in Seq(Frame)
  BY <1>1, <1>2, SeqDef
<1>4. Len(Content(b, n)) = b.used
  BY <1>1, <1>2, <1>3, LenProperties
<1> QED BY <1>3, <1>4 DEF Content

(* Enqueuing f appends it to the content. *)
LEMMA RingEnqueue ==
  ASSUME NEW n \in Nat \ {0}, NEW b \in Ring(n), NEW c \in Ring(n), NEW f \in Frame,
         RingSound(b, n), b.used < n,
         c.used = b.used + 1, c.tail = b.tail, c.head = Step(b.head, n),
         c.slot = [b.slot EXCEPT ![b.head] = f]
  PROVE  RingSound(c, n) /\ Content(c, n) = Append(Content(b, n), f)
<1>1. /\ b.used \in 0 .. n - 1 /\ b.head \in 0 .. n - 1 /\ b.tail \in 0 .. n - 1
      /\ b.slot \in [0 .. n - 1 -> Frame \cup {None}]
  BY DEF Ring
<1>2. \A i \in 1 .. b.used : At(c, i, n) = At(b, i, n)
  <2> TAKE i \in 1 .. b.used
  <2>1. /\ Wrapped(b.tail + i - 1, n) \in 0 .. n - 1
        /\ Wrapped(b.tail + i - 1, n) # Wrapped(b.tail + b.used, n)
    BY <1>1 DEF Wrapped
  <2> QED BY <1>1, <2>1 DEF At, RingSound
<1>3. At(c, b.used + 1, n) = f
  <2>1. c.tail + (b.used + 1) - 1 = b.tail + b.used
    BY <1>1
  <2> QED BY <1>1, <2>1 DEF At, RingSound
<1>4. RingSound(c, n)
  <2>1. c.head = Wrapped(c.tail + c.used, n)
    BY <1>1 DEF RingSound, Step, Wrapped
  <2>2. \A i \in 1 .. c.used : At(c, i, n) \in Frame
    BY <1>1, <1>2, <1>3 DEF RingSound
  <2> QED BY <2>1, <2>2 DEF RingSound
<1>5. /\ Append(Content(b, n), f) \in Seq(Frame)
      /\ Len(Append(Content(b, n), f)) = b.used + 1
      /\ \A i \in 1 .. b.used : Append(Content(b, n), f)[i] = At(b, i, n)
      /\ Append(Content(b, n), f)[b.used + 1] = f
  BY ContentIsSeq, AppendProperties
<1>6. \A i \in 1 .. b.used + 1 : Content(c, n)[i] = Append(Content(b, n), f)[i]
  BY <1>1, <1>2, <1>3, <1>4, <1>5, ContentIsSeq
<1>7. Content(c, n) \in Seq(Frame) /\ Len(Content(c, n)) = b.used + 1
  BY <1>4, ContentIsSeq
<1>8. Content(c, n) = Append(Content(b, n), f)
  BY <1>5, <1>6, <1>7, SeqEqual
<1> QED BY <1>4, <1>8

(* Dequeuing takes the oldest frame, the one at the tail. *)
LEMMA RingDequeue ==
  ASSUME NEW n \in Nat \ {0}, NEW b \in Ring(n), NEW c \in Ring(n),
         RingSound(b, n), b.used > 0,
         c.used = b.used - 1, c.tail = Step(b.tail, n), c.head = b.head, c.slot = b.slot
  PROVE  /\ RingSound(c, n)
         /\ Content(b, n) # <<>>
         /\ Content(c, n) = Tail(Content(b, n))
         /\ Head(Content(b, n)) = b.slot[b.tail]
         /\ b.slot[b.tail] \in Frame
<1>1. /\ b.used \in 1 .. n /\ b.head \in 0 .. n - 1 /\ b.tail \in 0 .. n - 1
      /\ b.slot \in [0 .. n - 1 -> Frame \cup {None}]
  BY DEF Ring
<1>2. \A i \in 1 .. b.used - 1 : At(c, i, n) = At(b, i + 1, n)
  <2> TAKE i \in 1 .. b.used - 1
  <2>1. Wrapped(c.tail + i - 1, n) = Wrapped(b.tail + (i + 1) - 1, n)
    BY <1>1 DEF Wrapped, Step
  <2> QED BY <2>1 DEF At
<1>3. RingSound(c, n)
  <2>1. c.head = Wrapped(c.tail + c.used, n)
    BY <1>1 DEF RingSound, Step, Wrapped
  <2>2. \A i \in 1 .. c.used : At(c, i, n) \in Frame
    BY <1>1, <1>2 DEF RingSound
  <2> QED BY <2>1, <2>2 DEF RingSound
<1>4. At(b, 1, n) = b.slot[b.tail] /\ b.slot[b.tail] \in Frame
  <2>1. Wrapped(b.tail + 1 - 1, n) = b.tail
    BY <1>1 DEF Wrapped
  <2> QED BY <1>1, <2>1 DEF At, RingSound
<1>5. Content(b, n) \in Seq(Frame) /\ Len(Content(b, n)) = b.used
  BY ContentIsSeq
<1>6. Content(b, n) # <<>>
  BY <1>1, <1>5, EmptySeq
<1>7. /\ Tail(Content(b, n)) \in Seq(Frame)
      /\ Len(Tail(Content(b, n))) = b.used - 1
      /\ \A i \in 1 .. b.used - 1 : Tail(Content(b, n))[i] = At(b, i + 1, n)
  BY <1>1, <1>5, <1>6, ContentIsSeq, HeadTailProperties
<1>8. Content(c, n) = Tail(Content(b, n))
  <2>1. \A i \in 1 .. b.used - 1 : Content(c, n)[i] = Tail(Content(b, n))[i]
    BY <1>1, <1>2, <1>3, <1>7, ContentIsSeq
  <2> QED BY <1>3, <1>7, <2>1, ContentIsSeq, SeqEqual
<1>9. Head(Content(b, n)) = At(b, 1, n)
  BY <1>1, ContentIsSeq, <1>5
<1> QED BY <1>3, <1>4, <1>6, <1>8, <1>9

(* Writing the slot at the head of a buffer with room changes nothing. *)
LEMMA RingWrite ==
  ASSUME NEW n \in Nat \ {0}, NEW b \in Ring(n), NEW c \in Ring(n), NEW f \in Frame,
         RingSound(b, n), b.used < n, c = [b EXCEPT !.slot[b.head] = f]
  PROVE  RingSound(c, n) /\ Content(c, n) = Content(b, n) /\ c.slot[c.head] = f
<1>1. /\ b.used \in 0 .. n - 1 /\ b.head \in 0 .. n - 1 /\ b.tail \in 0 .. n - 1
      /\ b.slot \in [0 .. n - 1 -> Frame \cup {None}]
  BY DEF Ring
<1>2. /\ c.used = b.used /\ c.head = b.head /\ c.tail = b.tail
      /\ c.slot = [b.slot EXCEPT ![b.head] = f]
  BY DEF Ring
<1>3. \A i \in 1 .. b.used : At(c, i, n) = At(b, i, n)
  <2> TAKE i \in 1 .. b.used
  <2>1. /\ Wrapped(b.tail + i - 1, n) \in 0 .. n - 1
        /\ Wrapped(b.tail + i - 1, n) # Wrapped(b.tail + b.used, n)
    BY <1>1 DEF Wrapped
  <2> QED BY <1>1, <1>2, <2>1 DEF At, RingSound
<1>4. RingSound(c, n)
  BY <1>1, <1>2, <1>3 DEF RingSound
<1>5. Content(c, n) = Content(b, n)
  BY <1>2, <1>3 DEF Content
<1> QED BY <1>1, <1>2, <1>4, <1>5

----------------------------------------------------------------------------
(* What a step does to the rest of the state, when nothing of it concerns  *)
(* the other direction.                                                    *)
TxStep == [TxFifo!Next]_<<TxQueue, sent>>
RxStep == [RxFifo!Next]_<<RxQueue, taken>>

TxSound == FlagTrue /\ RingSound(tx, TxSize)
           /\ (pc \in {"copied", "enqueue", "storeTx"} => frame \in Frame /\ tx.slot[tx.head] = frame)
           /\ (pc \in {"enqueue", "storeTx"} => inProgress)
           /\ (pc = "storeTx" => reg = tx.used)
RxSound == RingSound(rx, RxSize)
           /\ (pc = "storeRx" => reg = rx.used)
           /\ (pc \in {"dequeue", "storeRx"} => taken = rx.slot[rx.tail])

LEMMA SoundParts == DriverSound <=> TxSound /\ RxSound
BY DEF DriverSound, TxSound, RxSound

(* A step outside a receiving call leaves that direction alone. *)
LEMMA RxIdle ==
  ASSUME RxSound, UNCHANGED <<rx, taken>>,
         pc' \notin {"dequeue", "storeRx"}, pc \notin {"dequeue", "storeRx"}
  PROVE  RxSound' /\ RxStep
BY DEF RxSound, RxStep, RxQueue, RingSound, At, Content

LEMMA TxIdle ==
  ASSUME TxSound, UNCHANGED <<tx, mob, inProgress, sent, frame>>,
         pc' \notin {"copied", "enqueue", "storeTx"}, pc \notin {"copied", "enqueue", "storeTx"}
  PROVE  TxSound' /\ TxStep
BY DEF TxSound, TxStep, TxQueue, RingSound, At, Content, FlagTrue

(* A frame put straight into the MOb is the only one on its way. *)
LEMMA DirectStep ==
  ASSUME TypeOK, TxSound, NEW f \in Frame, pc \in {"loop", "copied"}, SendDirect(f)
  PROVE  TxSound' /\ TxStep
<1> USE DriverAssumption
<1>1. mob = None /\ mob' = f /\ f # None /\ tx' = tx /\ inProgress' /\ sent' = sent
  BY DEF SendDirect, TxSound, FlagTrue
<1>2. tx.used = 0 /\ tx \in Ring(TxSize)
  <2>1. tx.used \in Nat /\ tx \in Ring(TxSize)
    BY DEF TypeOK, Ring
  <2> QED BY <2>1 DEF SendDirect, TxSound, FlagTrue
<1>3. Content(tx, TxSize) = <<>>
  BY <1>2, ContentIsSeq, EmptySeq DEF TxSound
<1>4. TxQueue = <<>>
  BY <1>1, <1>3 DEF TxQueue
<1>5. TxQueue' = <<f>> \o <<>>
  BY <1>1, <1>3 DEF TxQueue
<1>6. TxQueue' = Append(TxQueue, f) /\ Len(TxQueue) < TxSize + 1
  BY <1>4, <1>5
<1>7. TxStep
  BY <1>1, <1>6 DEF TxStep, TxFifo!Next, TxFifo!Put
<1>8. TxSound'
  BY <1>1 DEF TxSound, FlagTrue, SendDirect, RingSound, At
<1> QED BY <1>7, <1>8

(* The interrupt that sends takes the oldest frame. *)
LEMMA TXOKStep ==
  ASSUME TypeOK, TxSound, TXOK, ~torn'
  PROVE  TxSound' /\ TxStep
<1> USE DriverAssumption
<1>1. /\ mob \in Frame /\ sent' = mob /\ mob # None
      /\ pc \notin {"enqueue", "storeTx"} /\ UNCHANGED <<pc, frame, reg>>
      /\ tx \in Ring(TxSize) /\ tx.used \in Nat /\ inProgress
  BY DEF TXOK, Torn, TypeOK, loop, TxSound, FlagTrue, Ring
<1>2. Content(tx, TxSize) \in Seq(Frame) /\ TxQueue = <<mob>> \o Content(tx, TxSize)
  BY <1>1, ContentIsSeq DEF TxSound, TxQueue
<1>3. Head(TxQueue) = mob /\ Tail(TxQueue) = Content(tx, TxSize) /\ TxQueue # <<>>
  BY <1>1, <1>2
<1>4. CASE tx.used > 0
  <2>1. tx' = Dequeued(tx, TxSize) /\ mob' = tx.slot[tx.tail] /\ inProgress' = inProgress
    BY <1>4 DEF TXOK
  <2>2. tx' \in Ring(TxSize)
    BY <1>1, <1>4, <2>1, RingOps
  <2>3. /\ tx'.used = tx.used - 1 /\ tx'.tail = Step(tx.tail, TxSize)
        /\ tx'.head = tx.head /\ tx'.slot = tx.slot
    BY <1>1, <2>1 DEF Dequeued, Ring
  <2>4. /\ RingSound(tx', TxSize) /\ Content(tx, TxSize) # <<>>
        /\ Content(tx', TxSize) = Tail(Content(tx, TxSize))
        /\ Head(Content(tx, TxSize)) = mob' /\ mob' \in Frame
    BY <1>1, <1>4, <2>1, <2>2, <2>3, RingDequeue DEF TxSound
  <2>5. TxQueue' = <<mob'>> \o Content(tx', TxSize)
    BY <2>4 DEF TxQueue
  <2>6. TxQueue' = Tail(TxQueue)
    BY <1>2, <1>3, <2>4, <2>5
  <2>7. TxStep
    BY <1>1, <1>3, <2>6 DEF TxStep, TxFifo!Next, TxFifo!Get
  <2> QED BY <1>1, <2>1, <2>3, <2>4, <2>7 DEF TxSound, FlagTrue
<1>5. CASE ~(tx.used > 0)
  <2>1. tx' = tx /\ mob' = None /\ inProgress' = FALSE
    BY <1>5 DEF TXOK
  <2>2. TxQueue' = Content(tx, TxSize)
    BY <2>1 DEF TxQueue
  <2>3. TxStep
    BY <1>1, <1>3, <2>2 DEF TxStep, TxFifo!Next, TxFifo!Get
  <2> QED BY <1>1, <1>5, <2>1, <2>3 DEF TxSound, FlagTrue, RingSound, At
<1> QED BY <1>4, <1>5
--------------------------------------------------------

(* Copying the frame behind the others, before it counts. *)
LEMMA CopyStep ==
  ASSUME TypeOK, TypeOK', TxSound, NEW f \in Frame, Send(f), ~SendDirect(f)
  PROVE  TxSound' /\ TxStep
<1> USE DriverAssumption
<1>1. /\ tx' = [tx EXCEPT !.slot[tx.head] = f] /\ tx.used < TxSize /\ inProgress
      /\ pc' = "copied" /\ frame' = f /\ UNCHANGED <<mob, inProgress, sent>>
      /\ tx \in Ring(TxSize) /\ tx' \in Ring(TxSize)
  BY DEF Send, XmtReady, TypeOK
<1>2. /\ RingSound(tx', TxSize) /\ tx'.slot[tx'.head] = f
      /\ Content(tx', TxSize) = Content(tx, TxSize)
  <2>1. TxSize \in Nat \ {0} /\ RingSound(tx, TxSize)
    BY DEF TxSound, DriverAssumption
  <2> HIDE DriverAssumption
  <2> QED BY <1>1, <2>1, RingWrite
<1>3. TxQueue' = TxQueue
  BY <1>1, <1>2 DEF TxQueue
<1> QED BY <1>1, <1>2, <1>3 DEF TxSound, FlagTrue, TxStep

(* The store puts the frame behind the others. *)
LEMMA StoreTxStep ==
  ASSUME TypeOK, TypeOK', TxSound, StoreTx
  PROVE  TxSound' /\ TxStep
<1> USE DriverAssumption
<1>1. /\ frame \in Frame /\ tx.slot[tx.head] = frame /\ inProgress /\ mob # None
      /\ reg = tx.used /\ reg \in 0 .. TxSize - 1 /\ mob \in Frame
      /\ tx' = [tx EXCEPT !.used = reg + 1, !.head = Step(tx.head, TxSize)]
      /\ UNCHANGED <<mob, inProgress, sent>> /\ pc' = "loop"
      /\ tx \in Ring(TxSize) /\ tx' \in Ring(TxSize)
  BY DEF StoreTx, TxSound, FlagTrue, TypeOK
<1>2. /\ tx'.used = tx.used + 1 /\ tx'.tail = tx.tail /\ tx'.head = Step(tx.head, TxSize)
      /\ tx'.slot = tx.slot
      /\ tx.slot = [tx.slot EXCEPT ![tx.head] = frame]
  BY <1>1 DEF Ring
<1>3. /\ RingSound(tx', TxSize)
      /\ Content(tx', TxSize) = Append(Content(tx, TxSize), frame)
  <2>1. TxSize \in Nat \ {0} /\ RingSound(tx, TxSize) /\ tx.used < TxSize
    BY <1>1 DEF TxSound, DriverAssumption
  <2>2. tx \in Ring(TxSize) /\ tx' \in Ring(TxSize) /\ frame \in Frame
    BY <1>1
  <2>3. tx'.slot = [tx.slot EXCEPT ![tx.head] = frame]
    BY <1>2
  <2>4. tx'.used = tx.used + 1 /\ tx'.tail = tx.tail /\ tx'.head = Step(tx.head, TxSize)
    BY <1>2
  <2> HIDE DriverAssumption
  <2> QED BY <2>1, <2>2, <2>3, <2>4, RingEnqueue
<1>4. Content(tx, TxSize) \in Seq(Frame) /\ Len(Content(tx, TxSize)) < TxSize
  BY <1>1, ContentIsSeq DEF TxSound
<1>5. TxQueue = <<mob>> \o Content(tx, TxSize) /\ TxQueue' = <<mob>> \o Content(tx', TxSize)
  BY <1>1 DEF TxQueue
<1>6. TxQueue' = Append(TxQueue, frame) /\ Len(TxQueue) < TxSize + 1
  BY <1>1, <1>3, <1>4, <1>5
<1>7. TxStep
  BY <1>1, <1>6 DEF TxStep, TxFifo!Next, TxFifo!Put
<1> QED BY <1>1, <1>3, <1>7 DEF TxSound, FlagTrue

(* Receiving: the interrupt appends, ... *)
LEMMA RXOKStep ==
  ASSUME TypeOK, TypeOK', RxSound, NEW f \in Frame, RXOK(f), ~torn'
  PROVE  RxSound' /\ RxStep
<1> USE DriverAssumption
<1>1. /\ rx' = Enqueued(rx, f, RxSize) /\ rx.used < RxSize /\ rx.used \in Nat
      /\ UNCHANGED <<pc, reg, taken>> /\ pc # "storeRx"
      /\ rx \in Ring(RxSize) /\ rx' \in Ring(RxSize)
  <2>1. rx \in Ring(RxSize) /\ rx' \in Ring(RxSize)
    BY DEF TypeOK
  <2>2. rx' = Enqueued(rx, f, RxSize) /\ rx.used < RxSize
    BY DEF RXOK
  <2>3. UNCHANGED <<pc, reg, taken>> /\ pc # "storeRx"
    BY DEF RXOK, Torn, loop
  <2>4. rx.used \in Nat
    BY <2>1 DEF Ring
  <2> QED BY <2>1, <2>2, <2>3, <2>4
<1>2. /\ rx'.used = rx.used + 1 /\ rx'.tail = rx.tail /\ rx'.head = Step(rx.head, RxSize)
      /\ rx'.slot = [rx.slot EXCEPT ![rx.head] = f]
  BY <1>1 DEF Enqueued, Ring
<1>3. /\ RingSound(rx', RxSize)
      /\ Content(rx', RxSize) = Append(Content(rx, RxSize), f)
  <2>1. RxSize \in Nat \ {0} /\ RingSound(rx, RxSize) /\ rx.used < RxSize
    BY <1>1 DEF RxSound, DriverAssumption
  <2>2. rx \in Ring(RxSize) /\ rx' \in Ring(RxSize)
    BY <1>1
  <2> HIDE DriverAssumption
  <2> QED BY <1>2, <2>1, <2>2, RingEnqueue
<1>4. Content(rx, RxSize) \in Seq(Frame) /\ Len(Content(rx, RxSize)) = rx.used
  BY <1>1, ContentIsSeq DEF RxSound
<1>5. CASE pc = "dequeue"
  <2>1. rx.used > 0
    BY <1>5 DEF TypeOK
  <2>2. Content(rx, RxSize) # <<>>
    BY <1>4, <2>1, EmptySeq
  <2>3. Tail(Append(Content(rx, RxSize), f)) = Append(Tail(Content(rx, RxSize)), f)
    BY <1>4, <2>2
  <2>4. RxQueue = Tail(Content(rx, RxSize)) /\ RxQueue' = Append(RxQueue, f)
    BY <1>1, <1>3, <1>5, <2>3 DEF RxQueue
  <2>5. Len(RxQueue) < RxSize
    BY <1>1, <1>4, <2>2, <2>4, HeadTailProperties
  <2>6. rx'.slot[rx'.tail] = rx.slot[rx.tail]
    <3>1. rx.head # rx.tail
      BY <1>1, <2>1 DEF RxSound, RingSound, Wrapped, Ring
    <3> QED BY <1>1, <1>2, <3>1 DEF Ring
  <2> QED BY <1>1, <1>3, <1>5, <2>4, <2>5, <2>6
          DEF RxSound, RxStep, RxFifo!Next, RxFifo!Put
<1>6. CASE pc # "dequeue"
  <2>1. RxQueue = Content(rx, RxSize) /\ RxQueue' = Append(RxQueue, f)
    BY <1>1, <1>3, <1>6 DEF RxQueue
  <2> QED BY <1>1, <1>3, <1>4, <1>6, <2>1 DEF RxSound, RxStep, RxFifo!Next, RxFifo!Put
<1> QED BY <1>5, <1>6

(* ... the loop takes the oldest frame when it copies it, ... *)
LEMMA GetStep ==
  ASSUME TypeOK, RxSound, GetFrame
  PROVE  RxSound' /\ RxStep
<1> USE DriverAssumption
<1>1. /\ rx.used > 0 /\ taken' = rx.slot[rx.tail] /\ pc = "loop" /\ pc' = "dequeue"
      /\ rx' = rx /\ rx \in Ring(RxSize) /\ rx.used \in Nat
  BY DEF GetFrame, TypeOK, Ring
<1>2. Content(rx, RxSize) \in Seq(Frame) /\ Len(Content(rx, RxSize)) = rx.used
  BY <1>1, ContentIsSeq DEF RxSound
<1>3. Content(rx, RxSize) # <<>>
  BY <1>1, <1>2, EmptySeq
<1>4. Head(Content(rx, RxSize)) = rx.slot[rx.tail]
  <2>1. Content(rx, RxSize)[1] = At(rx, 1, RxSize)
    BY <1>1, ContentIsSeq DEF RxSound
  <2>2. Wrapped(rx.tail + 1 - 1, RxSize) = rx.tail
    BY <1>1 DEF Wrapped, Ring
  <2> QED BY <1>2, <1>3, <2>1, <2>2 DEF At
<1>5. RxQueue = Content(rx, RxSize) /\ RxQueue' = Tail(Content(rx, RxSize))
  BY <1>1 DEF RxQueue
<1> QED BY <1>1, <1>3, <1>4, <1>5
        DEF RxSound, RxStep, RxFifo!Next, RxFifo!Get, RingSound, At

(* ... and deletes it later. *)
LEMMA StoreRxStep ==
  ASSUME TypeOK, TypeOK', RxSound, StoreRx
  PROVE  RxSound' /\ RxStep
<1> USE DriverAssumption
<1>1. /\ reg = rx.used /\ reg \in 1 .. RxSize /\ pc = "storeRx" /\ pc' = "loop"
      /\ rx' = [rx EXCEPT !.used = reg - 1, !.tail = Step(rx.tail, RxSize)]
      /\ taken' = taken /\ rx \in Ring(RxSize) /\ rx' \in Ring(RxSize)
  BY DEF StoreRx, RxSound, TypeOK
<1>2. /\ rx'.used = rx.used - 1 /\ rx'.tail = Step(rx.tail, RxSize)
      /\ rx'.head = rx.head /\ rx'.slot = rx.slot
  BY <1>1 DEF Ring
<1>3. RingSound(rx', RxSize) /\ Content(rx', RxSize) = Tail(Content(rx, RxSize))
  <2>1. RxSize \in Nat \ {0} /\ RingSound(rx, RxSize) /\ rx.used > 0
    BY <1>1 DEF RxSound, DriverAssumption
  <2>2. rx \in Ring(RxSize) /\ rx' \in Ring(RxSize)
    BY <1>1
  <2> HIDE DriverAssumption
  <2> QED BY <1>2, <2>1, <2>2, RingDequeue
<1>4. RxQueue' = RxQueue
  BY <1>1, <1>3 DEF RxQueue
<1> QED BY <1>1, <1>3, <1>4 DEF RxSound, RxStep

----------------------------------------------------------------------------
(* Every step keeps the driver sound and is one of both FIFOs, unless it   *)
(* tears a critical section.                                               *)
LEMMA SoundStep ==
  ASSUME TypeOK, TypeOK', DriverSound, [Next]_vars, ~torn'
  PROVE  DriverSound' /\ TxStep /\ RxStep
<1> USE DriverAssumption
<1>0. TxSound /\ RxSound
  BY SoundParts
<1> SUFFICES (TxSound /\ RxSound)' /\ TxStep /\ RxStep
  BY DEF DriverSound, TxSound, RxSound
<1>1. ASSUME NEW f \in Frame, Send(f) PROVE (TxSound /\ RxSound)' /\ TxStep /\ RxStep
  <2>1. RxSound' /\ RxStep
    BY <1>0, <1>1, RxIdle DEF Send, SendDirect
  <2>2. TxSound' /\ TxStep
    BY <1>0, <1>1, DirectStep, CopyStep DEF Send
  <2> QED BY <2>1, <2>2
<1>2. ASSUME NEW f \in Frame, RXOK(f) PROVE (TxSound /\ RxSound)' /\ TxStep /\ RxStep
  <2>1. RxSound' /\ RxStep
    BY <1>0, <1>2, RXOKStep
  <2>2. TxSound' /\ TxStep
    BY <1>0, <1>2 DEF RXOK, loop, TxSound, TxStep, TxQueue, RingSound, At, Content, FlagTrue
  <2> QED BY <2>1, <2>2
<1>3. CASE GetFrame
  <2>1. TxSound' /\ TxStep
    BY <1>0, <1>3, TxIdle DEF GetFrame
  <2> QED BY <1>0, <1>3, <2>1, GetStep
<1>4. CASE Recheck
  <2>1. RxSound' /\ RxStep
    BY <1>0, <1>4, RxIdle DEF Recheck, SendDirect
  <2>2. CASE SendDirect(frame)
    BY <1>0, <1>4, <2>1, <2>2, DirectStep DEF Recheck, TxSound
  <2>3. CASE ~SendDirect(frame)
    BY <1>0, <1>4, <2>1, <2>3
       DEF Recheck, TxSound, TxStep, TxQueue, RingSound, At, Content, FlagTrue
  <2> QED BY <2>2, <2>3
<1>5. CASE LoadTx
  <2>1. RxSound' /\ RxStep
    BY <1>0, <1>5, RxIdle DEF LoadTx
  <2> QED BY <1>0, <1>5, <2>1
          DEF LoadTx, TxSound, TxStep, TxQueue, RingSound, At, Content, FlagTrue
<1>6. CASE StoreTx
  <2>1. RxSound' /\ RxStep
    BY <1>0, <1>6, RxIdle DEF StoreTx
  <2> QED BY <1>0, <1>6, <2>1, StoreTxStep
<1>7. CASE LoadRx
  <2>1. TxSound' /\ TxStep
    BY <1>0, <1>7, TxIdle DEF LoadRx
  <2> QED BY <1>0, <1>7, <2>1 DEF LoadRx, RxSound, RxStep, RxQueue, RingSound, At, Content
<1>8. CASE StoreRx
  <2>1. TxSound' /\ TxStep
    BY <1>0, <1>8, TxIdle DEF StoreRx
  <2> QED BY <1>0, <1>8, <2>1, StoreRxStep
<1>9. CASE TXOK
  <2>1. RxSound' /\ RxStep
    BY <1>0, <1>9 DEF TXOK, loop, RxSound, RxStep, RxQueue, RingSound, At, Content
  <2> QED BY <1>0, <1>9, <2>1, TXOKStep
<1>10. CASE UNCHANGED vars
  BY <1>0, <1>10 DEF vars, loop, RxSound, RxStep, RxQueue, TxSound, TxStep, TxQueue,
     RingSound, At, Content, FlagTrue
<1> QED BY <1>1, <1>2, <1>3, <1>4, <1>5, <1>6, <1>7, <1>8, <1>9, <1>10 DEF Next, Resume

(* Once torn, always torn. *)
LEMMA TornForEver == ASSUME torn, [Next]_vars PROVE torn'
BY DEF Next, vars, Send, SendDirect, RXOK, GetFrame, Resume, Recheck, LoadTx, StoreTx,
   LoadRx, StoreRx, TXOK, Torn

LEMMA InitSound ==
  ASSUME Init
  PROVE  DriverSound /\ TxFifo!Init /\ RxFifo!Init
<1> USE DriverAssumption
<1>1. ASSUME NEW n \in Nat \ {0} PROVE RingSound(Empty(n), n) /\ Empty(n) \in Ring(n)
  BY DEF RingSound, Empty, Wrapped, Ring
<1>2. /\ RingSound(tx, TxSize) /\ RingSound(rx, RxSize)
      /\ tx \in Ring(TxSize) /\ rx \in Ring(RxSize)
  BY <1>1 DEF Init
<1>3. tx.used = 0 /\ rx.used = 0
  BY DEF Init, Empty
<1>4. Content(tx, TxSize) = <<>> /\ Content(rx, RxSize) = <<>>
  BY <1>2, <1>3, ContentIsSeq, EmptySeq
<1>5. DriverSound
  BY <1>2, <1>3 DEF DriverSound, Init, FlagTrue
<1> QED BY <1>4, <1>5 DEF Init, TxFifo!Init, RxFifo!Init, TxQueue, RxQueue

(* Until a critical section is torn, the ring buffers and the flag are     *)
(* sound.                                                                  *)
THEOREM SoundTillTorn == Spec => []SoundUnlessTorn
<1>1. Init => SoundUnlessTorn
  BY InitSound DEF SoundUnlessTorn
<1>2. TypeOK /\ TypeOK' /\ SoundUnlessTorn /\ [Next]_vars => SoundUnlessTorn'
  BY SoundStep, TornForEver DEF SoundUnlessTorn
<1> QED BY <1>1, <1>2, DriverTypes, PTL DEF Spec

(* Until then nothing is left behind in the transmit buffer. *)
THEOREM NothingStranded == Spec => []TransmitterRuns
<1>1. SoundUnlessTorn => TransmitterRuns
  BY DEF SoundUnlessTorn, DriverSound, TransmitterRuns
<1> QED BY <1>1, SoundTillTorn, PTL

(* Until then frames leave in the order they were queued, each once. *)
THEOREM TxIsFifo == Spec => TxImplementsFifo
<1>1. Init => TxFifo!Init
  BY InitSound
<1>2. TypeOK /\ TypeOK' /\ SoundUnlessTorn /\ [Next]_vars
      => [torn' \/ TxFifo!Next]_<<TxQueue, sent>>
  BY SoundStep, TornForEver DEF SoundUnlessTorn, TxStep
<1> QED BY <1>1, <1>2, DriverTypes, SoundTillTorn, PTL DEF Spec, TxImplementsFifo

(* Until then the loop gets the frames that found room, in their order.    *)
THEOREM RxIsFifo == Spec => RxImplementsFifo
<1>1. Init => RxFifo!Init
  BY InitSound
<1>2. TypeOK /\ TypeOK' /\ SoundUnlessTorn /\ [Next]_vars
      => [torn' \/ RxFifo!Next]_<<RxQueue, taken>>
  BY SoundStep, TornForEver DEF SoundUnlessTorn, RxStep
<1> QED BY <1>1, <1>2, DriverTypes, SoundTillTorn, PTL DEF Spec, RxImplementsFifo
============================================================================
