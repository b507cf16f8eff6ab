------------------------------ MODULE At90Can ------------------------------
(***************************************************************************)
(* The AT90CAN driver with its two ring buffers: the loop queues a frame   *)
(* or takes a received one, while the CAN interrupt sends the next queued  *)
(* frame and queues what the bus brings.  CAN_FORCE_TX_ORDER is set: one   *)
(* MOb transmits, and frames queue up behind it.                           *)
(*                                                                         *)
(* ENTER_CRITICAL_SECTION and LEAVE_CRITICAL_SECTION are defined as empty  *)
(* in utils.h, so that the interrupt may come anywhere.  A loop's call is  *)
(* split where that can be told: between the tests of the transmission     *)
(* flag, and within used++ and used--, a load and a store on an AVR.  The  *)
(* history variable torn says whether an interrupt ever came where the     *)
(* code means to exclude it.                                               *)
(***************************************************************************)
EXTENDS Integers, Sequences

CONSTANTS
  Frame, None,
  TxSize,      \* CAN_TX_BUFFER_SIZE
  RxSize       \* CAN_RX_BUFFER_SIZE

ASSUME DriverAssumption ==
  /\ TxSize \in Nat \ {0} /\ RxSize \in Nat \ {0}
  /\ None \notin Frame

VARIABLES
  tx, rx,      \* can_tx_buffer, can_rx_buffer
  mob,         \* the frame in the transmitting MOb, or None
  inProgress,  \* _transmission_in_progress
  pc,          \* where the loop's call stands
  frame,       \* the frame it is sending
  reg,         \* the register with a ring buffer's used
  sent,        \* the last frame on the bus
  taken,       \* the last frame the loop has taken
  torn         \* history: an interrupt came into a critical section

loop == <<pc, frame, reg>>
vars == <<tx, rx, mob, inProgress, loop, sent, taken, torn>>

Ring(size) ==
  [slot : [0 .. size - 1 -> Frame \cup {None}],
   used : 0 .. size, head : 0 .. size - 1, tail : 0 .. size - 1]

Empty(size) ==
  [slot |-> [i \in 0 .. size - 1 |-> None], used |-> 0, head |-> 0, tail |-> 0]

(* ++index, back to 0 at the end of the buffer *)
Step(i, size) == IF i + 1 >= size THEN 0 ELSE i + 1

(* The interrupt's can_buffer_enqueue() and can_buffer_dequeue(), whole. *)
Enqueued(b, f, size) ==
  [b EXCEPT !.slot[b.head] = f, !.used = @ + 1, !.head = Step(@, size)]
Dequeued(b, size) == [b EXCEPT !.used = @ - 1, !.tail = Step(@, size)]

Init ==
  /\ tx = Empty(TxSize) /\ rx = Empty(RxSize)
  /\ mob = None /\ inProgress = FALSE
  /\ pc = "loop" /\ frame = None /\ reg = 0
  /\ sent = None /\ taken = None /\ torn = FALSE

----------------------------------------------------------------------------
(* at90can_send_message(): into the free MOb; _find_free_mob() finds none  *)
(* while the flag is set.                                                  *)
SendDirect(f) ==
  /\ ~inProgress
  /\ mob' = f /\ inProgress' = TRUE
  /\ pc' = "loop" /\ frame' = None
  /\ UNCHANGED <<tx, rx, reg, sent, taken, torn>>

(* Mutant: a mailbox is taken to be free when the buffer is full. *)
XmtReadyLate == tx.used <= TxSize

(* OpenLcb_can_xmt_ready() *)
XmtReady == tx.used < TxSize

(* OpenLcb_can_queue_xmt_immediate(), up to the first test of the flag. *)
Send(f) ==
  /\ pc = "loop" /\ XmtReady
  /\ \/ SendDirect(f)
     \/ /\ inProgress
        /\ tx' = [tx EXCEPT !.slot[tx.head] = f]
        /\ pc' = "copied" /\ frame' = f
        /\ UNCHANGED <<rx, mob, inProgress, reg, sent, taken, torn>>

(* Mutant: the flag is not tested again. *)
NoRecheck ==
  /\ pc = "copied" /\ pc' = "enqueue"
  /\ UNCHANGED <<tx, rx, mob, inProgress, frame, reg, sent, taken, torn>>

(* The second test, at the start of the critical section. *)
Recheck ==
  /\ pc = "copied"
  /\ \/ SendDirect(frame)
     \/ /\ inProgress /\ pc' = "enqueue"
        /\ UNCHANGED <<tx, rx, mob, inProgress, frame, reg, sent, taken, torn>>

(* can_buffer_enqueue() of the loop: used++ is a load ... *)
LoadTx ==
  /\ pc = "enqueue" /\ pc' = "storeTx" /\ reg' = tx.used
  /\ UNCHANGED <<tx, rx, mob, inProgress, frame, sent, taken, torn>>

(* ... and a store. *)
StoreTx ==
  /\ pc = "storeTx"
  /\ tx' = [tx EXCEPT !.used = reg + 1, !.head = Step(@, TxSize)]
  /\ pc' = "loop" /\ frame' = None /\ reg' = 0
  /\ UNCHANGED <<rx, mob, inProgress, sent, taken, torn>>

(* at90can_get_buffered_message(): copy, then can_buffer_dequeue(). *)
GetFrame ==
  /\ pc = "loop" /\ rx.used > 0
  /\ taken' = rx.slot[rx.tail]
  /\ pc' = "dequeue"
  /\ UNCHANGED <<tx, rx, mob, inProgress, frame, reg, sent, torn>>

LoadRx ==
  /\ pc = "dequeue" /\ pc' = "storeRx" /\ reg' = rx.used
  /\ UNCHANGED <<tx, rx, mob, inProgress, frame, sent, taken, torn>>

(* Mutant: the tail stays where it is. *)
StoreRxSameTail ==
  /\ pc = "storeRx"
  /\ rx' = [rx EXCEPT !.used = reg - 1]
  /\ pc' = "loop" /\ reg' = 0
  /\ UNCHANGED <<tx, mob, inProgress, frame, sent, taken, torn>>

StoreRx ==
  /\ pc = "storeRx"
  /\ rx' = [rx EXCEPT !.used = reg - 1, !.tail = Step(@, RxSize)]
  /\ pc' = "loop" /\ reg' = 0
  /\ UNCHANGED <<tx, mob, inProgress, frame, sent, taken, torn>>

----------------------------------------------------------------------------
(* ISR(CANIT_vect) *)
Torn(section) == torn' = (torn \/ pc \in section)

(* Mutant: the flag stays set when the buffer has run empty. *)
TXOKFlagStays ==
  /\ mob # None
  /\ sent' = mob
  /\ \/ tx.used > 0 /\ mob' = tx.slot[tx.tail] /\ tx' = Dequeued(tx, TxSize)
     \/ tx.used = 0 /\ mob' = None /\ UNCHANGED tx
  /\ Torn({"enqueue", "storeTx"})
  /\ UNCHANGED <<rx, inProgress, loop, taken>>

(* A frame has been sent: the next one, or the flag is reset. *)
TXOK ==
  /\ mob # None
  /\ sent' = mob
  /\ \/ /\ tx.used > 0
        /\ mob' = tx.slot[tx.tail] /\ tx' = Dequeued(tx, TxSize)
        /\ UNCHANGED inProgress
     \/ /\ tx.used = 0
        /\ mob' = None /\ inProgress' = FALSE
        /\ UNCHANGED tx
  /\ Torn({"enqueue", "storeTx"})
  /\ UNCHANGED <<rx, loop, taken>>

(* Mutant: one frame more than the buffer holds. *)
RXOKBeyond(f) ==
  /\ rx.used <= RxSize
  /\ rx' = Enqueued(rx, f, RxSize)
  /\ Torn({"storeRx"})
  /\ UNCHANGED <<tx, mob, inProgress, loop, sent, taken>>

(* A frame has been received: into the buffer, or dropped if it is full. *)
RXOK(f) ==
  /\ rx.used < RxSize
  /\ rx' = Enqueued(rx, f, RxSize)
  /\ Torn({"storeRx"})
  /\ UNCHANGED <<tx, mob, inProgress, loop, sent, taken>>

(* The loop's call goes on. *)
Resume == Recheck \/ LoadTx \/ StoreTx \/ LoadRx \/ StoreRx

Next ==
  \/ \E f \in Frame : Send(f) \/ RXOK(f)
  \/ GetFrame \/ Resume \/ TXOK

Spec == Init /\ [][Next]_vars

(* The loop's calls go on, and the controller sends what is in its MOb. *)
FairSpec == Spec /\ WF_vars(Resume) /\ WF_vars(TXOK)

----------------------------------------------------------------------------
Pc == {"loop", "copied", "enqueue", "storeTx", "dequeue", "storeRx"}

(* Types: wherever interrupts come, used, head and tail stay within a ring *)
(* buffer's size, and the loop finds the room or the frame it has seen.    *)
TypeOK ==
  /\ tx \in Ring(TxSize) /\ rx \in Ring(RxSize)
  /\ mob \in Frame \cup {None} /\ frame \in Frame \cup {None}
  /\ inProgress \in BOOLEAN /\ torn \in BOOLEAN
  /\ pc \in Pc
  /\ sent \in Frame \cup {None} /\ taken \in Frame \cup {None}
  /\ pc \in {"copied", "enqueue"} => tx.used < TxSize
  /\ pc = "dequeue" => rx.used > 0
  /\ CASE pc = "storeTx" -> reg \in 0 .. TxSize - 1
       [] pc = "storeRx" -> reg \in 1 .. RxSize
       [] OTHER -> reg = 0

(* The i-th frame in a ring buffer, and all of them. *)
Wrapped(i, size) == IF i < size THEN i ELSE i - size
At(b, i, size) == b.slot[Wrapped(b.tail + i - 1, size)]
Content(b, size) == [i \in 1 .. b.used |-> At(b, i, size)]

(* The frames on their way out: the one in the MOb, then the queued ones. *)
TxQueue ==
  IF mob = None THEN Content(tx, TxSize) ELSE <<mob>> \o Content(tx, TxSize)

(* The received frames that the loop has still to take. *)
RxQueue ==
  IF pc \in {"dequeue", "storeRx"} THEN Tail(Content(rx, RxSize)) ELSE Content(rx, RxSize)

TxFifo == INSTANCE Fifo WITH Cap <- TxSize + 1, q <- TxQueue, out <- sent
RxFifo == INSTANCE Fifo WITH Cap <- RxSize, q <- RxQueue, out <- taken

(* Until an interrupt comes into a critical section, the driver sends what *)
(* it was given in order, each frame once.                                 *)
TxImplementsFifo == TxFifo!Init /\ [][torn' \/ TxFifo!Next]_<<TxQueue, sent>>

(* The same for what it receives. *)
RxImplementsFifo == RxFifo!Init /\ [][torn' \/ RxFifo!Next]_<<RxQueue, taken>>

(* Frames are never left behind in the buffer: the flag says that one is   *)
(* in the MOb, and with the loop outside a critical section none are       *)
(* queued while it says that there is none.                                *)
FlagTrue ==
  /\ inProgress <=> mob # None
  /\ pc \notin {"enqueue", "storeTx"} /\ tx.used > 0 => inProgress
TransmitterRuns == torn \/ FlagTrue

(* Head, tail and used of a ring buffer agree, and what is in it is frames. *)
RingSound(b, size) ==
  /\ b.head = Wrapped(b.tail + b.used, size)
  /\ \A i \in 1 .. b.used : At(b, i, size) \in Frame

(* The invariant behind it: the frame being queued waits at the head, the  *)
(* register is what the loop takes it for.                                 *)
DriverSound ==
  /\ FlagTrue /\ RingSound(tx, TxSize) /\ RingSound(rx, RxSize)
  /\ pc \in {"copied", "enqueue", "storeTx"} => frame \in Frame /\ tx.slot[tx.head] = frame
  /\ pc \in {"enqueue", "storeTx"} => inProgress
  /\ pc = "storeTx" => reg = tx.used
  /\ pc = "storeRx" => reg = rx.used
  /\ pc \in {"dequeue", "storeRx"} => taken = rx.slot[rx.tail]
SoundUnlessTorn == torn \/ DriverSound

(* "Therefore interrupts have to disabled while putting the message to the *)
(* queue": otherwise it "will be queued but not send".                     *)
QueuedIsSent == pc = "loop" /\ tx.used > 0 => inProgress

(* OpenLcb_can_queue_xmt_wait() does not spin for ever, unless an          *)
(* interrupt came into a critical section.                                 *)
SpinEnds == []<>(torn \/ (pc = "loop" /\ XmtReady))
============================================================================
