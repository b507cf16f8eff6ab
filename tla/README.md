# OpenLCB_Arduino: models, checks and proofs

This directory holds TLA+ models of the core of OpenLCB_Arduino, the TLC runs
that check them and TLAPS proofs about them. OpenLCB is a protocol for model
railways: nodes (Arduino boards with a CAN controller) on a shared bus exchange
events, datagrams and configuration data. The program is a set of libraries and
the sketches that use them.

`PROJECT.json` lists the components, the runs, the mutant of each property, the
source lines of each definition, the hazards of the code, the findings and the
theorems.

## 1. The system

There are two protocol stacks. The sketches below `OlcbStarLibraries` use
`OlcbCommonCAN` over `OlcbArduinoCAN`; the sketches at the top level use the
object-oriented library `OpenLCB`. Both use the CAN controller drivers in
`libraries/CAN`. The rest is vendored (Arduino cores, googletest, LocoNet, DCC
and timer libraries).

Everything above the drivers runs in one loop without threads, `Olcb_loop()`:

1. take a frame from the driver's receive buffer, if there is one;
2. `link.check()`, then `link.receivedFrame()` with the frame;
3. if the link is initialized: the frame to the datagram, event, stream, PIP
   and SNII handlers in turn, and a reject if none of them took it;
4. `check()` of every handler, each of which may send a frame.

All handlers build their frames in one `txBuffer`. A frame is either queued when
`OpenLcb_can_xmt_ready()` says that a mailbox is free, or queued in a spin loop
that waits for one. Concurrency comes from the bus, which empties mailboxes and
fills receive buffers between any two steps of the loop, from the other nodes,
from time (`millis()`), and from the power, which may fail between two EEPROM
writes.

| component | state | operations | interacts with | hard behaviours | what makes it correct |
|---|---|---|---|---|---|
| link control | `state`, alias generator, `timer` | `reset`, `check`, `receivedFrame`, `restart` | CAN interface, other nodes, `millis()` | crossing CIM/RIM/AMR frames, lost frames, a mailbox freed during a call, wrapping clock | one holder per alias, when no frames are lost; everybody gets an alias and keeps it |
| CAN interface, loop | `rxBuffer`, `txBuffer`, mailboxes | get, ready, queue (at once, waiting) | drivers, all handlers | full mailboxes, spinning | frames leave once and in order |
| event handler (PCE) | event IDs and flags, `sendEvent` | `newEvent`, `produce`, `sendTeach`, `markToLearn`, `receivedFrame`, `check` | application, node memory, buttons | the index runs past an event; its own teaching | every frame asked for is sent, and no other |
| node memory | EEPROM, `count`, RAM copy of the events | `setup`, `reset`, `store`, `forceInitEvents` | sketch, PCE, configuration, buttons | power failure between writes, a tool's writes behind the node's back | the tag tells the truth; event IDs are never given out twice |
| datagrams | `tbuf`, `sendcount`, `reservedXmt`, `rbuf`, `receiving`, `fromAlias` | reserve, send, `check`, `receivedFrame` | CAN interface, configuration | lost replies, rejection, interleaved senders, the shared header | a datagram arrives whole and once, or its sender is told |
| configuration | one pending request | `receivedDatagram`, `check` | datagrams, EEPROM | a request while one is pending, no buffer for the answer | an acknowledged request is carried out and answered |
| SNII, PIP | progress of a reply, its destination | `receivedFrame`, `check` | CAN interface, EEPROM | two askers, frames of others between the reply's | each asker gets a whole reply or a rejection |
| buttons (BG) | channel chosen, lamps | `check` | PCE, node memory | press orders, long presses | teaches and learns what was chosen |
| CAN drivers | ring buffers, MObs, transmission flag | send, receive, interrupt | hardware | interrupt between test and use, buffer order | a FIFO |
| object-oriented stack | alias table of virtual nodes, cache, datagram and event handlers | update, checkMessage, allocate, release | CAN drivers | several nodes on one controller, stale cache | as above, for each virtual node |

## 2. Modules

| module | models |
|---|---|
| `AliasRegistry` | abstract: a set of nodes, each holding no alias or one; an alias is taken only while nobody else holds it |
| `LinkControl` | N nodes with `LinkControl`, mailboxes, receive buffers, the loop's order and the clock |
| `MCLinkControl` | its instance for TLC: two nodes whose generators start at the same alias |
| `LinkLoss` | extends `LinkControl`: counts the frames of a conflict that full receive buffers drop |
| `MCLinkLoss` | its instance: two nodes, a tool, receive buffers of one frame |
| `LinkControlProofs` | theorems about `LinkControl` |
| `PCE` | the event handler of one node with its application and the bus |
| `MCPCE` | its instance: producer, consumer, producer |
| `PCEProofs` | theorems about `PCE` |
| `NodeMemory` | the EEPROM of one node, write by write |
| `MCNodeMemory` | its instance |
| `NodeMemoryProofs` | theorems about `NodeMemory` |
| `Fifo` | abstract: frames come out in the order they went in, each once; at most `Cap` are inside |
| `At90Can` | the AT90CAN driver: two ring buffers, the loop's calls and the CAN interrupt |
| `At90CanProofs` | theorems about `At90Can` |
| `Datagram` | the `Datagram` objects of several nodes, the bus, crashes, restarts, lost frames, aliases given up |
| `MCDatagram` | its instance: three nodes, datagrams of one to three fragments |
| `DatagramProofs` | theorems about `Datagram` that hold whatever gets lost |
| `DatagramWholeProofs` | the theorem about what is put together while nothing does |
| `Loop` | extends `Datagram`: one node's loop with `Configuration`, PIP and SNII, and tools that ask it |
| `MCLoop` | its instance: a node and three tools |
| `LoopProofs` | theorems about `Loop` |
| `AliasHelper` | boards of the object-oriented stack with virtual nodes that negotiate aliases |
| `MCAliasHelper` | its instance: two boards whose nodes start with the same alias |
| `AliasHelperProofs` | theorems about `AliasHelper` |

### LinkControl

The variables `state`, `timer` and `pos` are the members `state`, `timer` and
the generator (`lfsr1`, `lfsr2`) of each node; the arithmetic of the generator is the constant
`AliasSeq`, the aliases it delivers, repeating. `cur` is `rxBuffer`; `tx` and
`rx` are the frames in the controller; `clock` is `millis()` as far as a waiting
node can tell. `pc` says where the node's pass stands, because the bus may act
between its steps: at the loop's start; inside `check()` between the two polls of
the case that falls through (`"permitted"`); before `receivedFrame()`.

Each case of `check()` is an action (`CheckCIM` ... `CheckInitialized`), and
`receivedFrame()` is four: `DefendAlias` (a CIM with our alias: RIM, waiting for
a mailbox), `GiveUpAlias` (any other frame with our alias: AMR if a mailbox is
free, next alias, start again), `AnswerRequest` (AME or Verify Node ID) and
`IgnoreFrame`. The step that starts a pass takes the frame and runs `check()` at
once: nothing but the bus can tell the difference, and `check()` does not look
at what the bus changes in between except through the one poll it makes. The
idle pass of an initialized node is left out, as it changes nothing.

`Transmit` hands the oldest frame of one controller to all other nodes that are
switched on. With `Overrun` a full receive buffer drops it, as the interrupt
routine does; without, the loops keep up and it is not sent before there is room
everywhere. `Ask` is a tool on the bus.

`LinkLoss` adds to this a history, `lost`: for each node, how many CIM and RIM
frames of its conflict with another were dropped (up to four, the CIM frames of a
claim). When a tool's frames fill the receive buffers at the wrong moments, two
nodes lose all the frames that would tell them of each other and both reserve
the alias. `FourLostForDuplicate` says that this takes four lost frames: each CIM
that arrives is answered, and each RIM that arrives ends the claim.

`VERIFIED` frames are built in `txBuffer` without setting a source alias. The
model gives them the node's current alias, which is what the buffer holds: after
each change of alias `check()` builds a CIM in it before the next frame is looked
at.

Two abstractions of time. `Tick` stands for a good part of 200 ms, while a frame
takes about one and a loop pass less: no tick passes while a frame is queued or
being handled, nor while a node whose time is up has not noticed it. And the
clock runs only for nodes that wait, from any value in `Uptime`.

Mailboxes are FIFO, as the AT90CAN driver with `CAN_FORCE_TX_ORDER` has them.
The MCP2515's buffers are not (see the hazards); with `TxCap = 1`, as checked,
there is no difference.

### PCE

`id`, `flags` and `sendEvent` are the members of the same names. `owed` is a
history variable: the frames each element owes, added by whatever asks for them
and removed when `check()` sends one. `calls` only bounds the number of requests.
A pass of `check()` skips elements with nothing to send and sends one frame:
`SendIdentified`, `SendReport` and `SendTaught` name the element directly
(`First(i)`), and `NothingToSend` is the pass that runs to the end. Constructor
and handlers are as in the code, the loss of the declared roles in the
constructor and the learning from the node's own teaching included. The bus is
not in the model, as a send waits until the frame is queued.

### NodeMemory

`eeprom` is a function from cells to values, a cell being a field (the tag bytes
apart, as their order matters). An operation of the code fills `todo` with its
writes in the order of the code, and `WriteCell` does the next; `PowerOff` may
come between two of them when `Torn`. `edited`, `given` and `gifts` are history.
Addresses behind the events are one cell, `REST`: the 64 bytes that `store()`
clears and the names and descriptions that live there. `Edit` is a tool's write
to space 0xFD: `getWrite()` looks at no address, so that it may hit any cell, the
tag, the count and the node ID included (`Editable`; `Written` is what it puts
there: any bytes of a tag, a count, IDs where IDs belong). A write to space 0xFE
goes to RAM at an address of the tool's choice, which no model can follow.

### At90Can

`tx` and `rx` are `can_tx_buffer` and `can_rx_buffer` with their `used`, `head`
and `tail`; `mob` and `inProgress` are the transmitting message object and
`_transmission_in_progress`, which go together when `CAN_FORCE_TX_ORDER` is set.
`TXOK` and `RXOK` are the two halves of the interrupt routine. A call of the loop
is split where the interrupt can make a difference: `Send` tests the flag and
copies the frame; `Recheck` tests it again; `LoadTx` and `StoreTx` are `used++`,
a load and a store; the same for `used--` of `at90can_get_buffered_message()`.

The macros that should keep the interrupt out are empty (`utils.h:116`), so the
model lets it in everywhere. `torn` remembers that an interrupt came between the
second test and the end of `used++`, or between the load and the store of
`used--`. Up to then the driver is a FIFO, `TxImplementsFifo` and
`RxImplementsFifo` with `TxQueue` (the frame in the message object and those in
the ring) and `RxQueue` as the abstract queue. What happens after is finding 2.

### Datagram

`dg[n]` holds the members of a node's `Datagram` object: `reservedXmt`
(`reserved`), `tbuf`, `sendcount` in fragments (`left`), `receiving`,
`fromAlias` (`from`) and `rbuf`. A fragment carries the datagram it belongs to
and its number, which the code does not see; they let the properties tell what
was put together from what. `receivedFrame()` is one action by what the frame
is: `HearMapping` (an AMD or AMR), `HearAck`, `HearReject`, `HearNak`, `Refuse`, `Store`, `Complete`.
It waits for a mailbox before it answers, as the code spins in the middle of it.

`hdr` is what the last user of the shared `txBuffer` left in the frame type:
`check()` sets only format and destination, so that after an AMD the next
fragment goes out as a control frame. `Enquiry` is the link answering an alias
map enquiry between two fragments. The callback accepts or, at the nodes in
`Refusing`, rejects. This library's rejection has four bytes, which its own
`receivedFrame()` takes for "send again" (`Datagram.cpp:84-90`, `112-114`): two of
its nodes repeat such a datagram for ever. Nodes of other makers send six bytes,
and their rejection is final (`LongNak`). Both kinds are in the instance.

`Crash` empties a node's buffers; `Restart` sends its AMD. The link waits for 200
ms before that, and by then no frame from or to the node is under way (`Quiet`,
`Heard`). `GiveUp` is the link giving its alias up: its AMR goes out behind what
is queued, if there is room, and the node is off until it comes back. A node is
known by its alias; what happens under its next alias, where the code's `Datagram`
object goes on with the old reservation, is left out. `Lose` drops the last
received frame, as a full receive buffer does. The history `cut` records that the
end of a datagram, a reply, an AMD or an AMR got lost, which nothing makes up for:
the code has no timeout.

### Loop

`Loop` adds the other objects of `Olcb_loop()` that keep something between
passes: `cfg` is `Configuration`'s request, `pip` and `snii` are the destination
(and progress) of the two answers. `phase` goes round in the order of the loop:
one frame is heard, then each object may send one frame if it finds a mailbox.
A tool asks (`Ask`) when it has its last answer, for what is in its `Wants`. A read
stands for all requests that are answered by a datagram. A command, a datagram of
two fragments, gets its acknowledgement only: it is a write, which is done at
once, or one for which there is no handler (`Configuration.cpp:64-67`, `208-210`),
which stays pending until the next datagram takes its place; which of them, is
left open. `receivedDatagram()` does not look whether a request is pending
(line 76): with three tools a read may be overwritten, and `overtaken` remembers
whose, as it does for a destination of `PIP` that was replaced. Enquiries, crashes
and losses are left to `Datagram`.

### AliasHelper

`slot[s]` is an entry of `_nodes[]` with its node's `alias` (`nalias`) and
`initialized` (`init`). `Pass` is `OLCB_CAN_Link::update()`: what the board sent
last comes back to itself (`echo`), a received frame is delivered to all slots
(`Checked`, `Verified`), one slot has its turn (`Turn`, with `Does` as the table
of `update()`'s states), and a virtual node may send. `index` goes over all
`Slots` (`CAN_ALIAS_BUFFER_SIZE`), those without a node included
(`OLCB_CAN_Alias_Helper.cpp:196`): a slot has its turn every fifth pass, and in
`RESENDRID` or `VERIFIED` it is deaf until then. While a frame is delivered the
board may reject it (`Rejects`, `OLCB_CAN_Link.cpp:248-252`), under an alias that
may still be negotiated; whether the node handles the message is left open.
`Release` takes the first slot that `operator==` finds (`Found`, `SameID`), which
compares aliases when both nodes have one and so may find another node's.

The whole pass is one step: the bus cannot act on what a pass has in hand. The
RID that answers a CID is called `REPLY`, to let `Waited` say what 500 ms are long
enough for: all CIDs of the alias have been heard, and what they call for has been
sent and heard. A Verify Node ID is for all nodes, not for one; the cache and
messages that handlers send while they handle one are left out.

## 3. What is checked

Two nodes are enough to collide and to disturb each other; each has two aliases,
and both start with the same one. The proofs have no such bounds. `CHECK_DEADLOCK FALSE` is set where the system
comes to rest: all nodes in operation and nothing on the bus, all calls made, or
all operations used up.

| run | bounds | checks | shows |
|---|---|---|---|
| `link_up` | `LinkLoss`: 2 nodes, 4 aliases, `TxCap` 1, `RxCap` 1, overrun, one request for an alias nobody has; 477 thousand states | `TypeOK`, `FourLostForDuplicate`, `EventuallyUp` | on a bus that drops frames an alias is held twice only after four frames of the conflict are lost (which does happen here), and all nodes get into operation |
| `link_requests` | 2 nodes, 3 aliases, `TxCap` 1, `RxCap` 1, no overrun, one request of any kind at any time; 258 thousand states | `ClaimInv`, `StaysUp`, `ImplementsRegistry` | the invariant of the proofs; settled nodes stay in operation; refinement of `AliasRegistry` |
| `link_amd` | `RxCap` 1, no requests | `AMDBeforeInit`, violated | finding 1 |
| `pce` | 3 events, 2 event IDs, 4 requests; 145 thousand states | `TypeOK`, `NoLostReport`, `NoLostIdentify`, `NothingUnasked`, `EverythingSent` | nothing asked for is lost, nothing else is sent, and everything is sent in the end |
| `node_memory` | 2 events, 6 operations, a tool's writes to any cell, no power failure inside an operation; 408 thousand states | `TypeOK`, `TagSound`, `StoredEvents` | the tag is true at every start; RAM and EEPROM agree but for cells a tool has written |
| `memory_unique` | as `node_memory` | `ForeverUnique`, violated | finding 3 |
| `memory_torn` | power failure anywhere | `TagSound`, violated | finding 4 |
| `at90can` | 2 frames, buffers of 2; 148 thousand states | `TypeOK`, `TransmitterRuns`, `SoundUnlessTorn`, `TxImplementsFifo`, `RxImplementsFifo`, `SpinEnds` | until a critical section is interrupted the driver is a FIFO, strands nothing and ends every spin |
| `at90can_torn` | transmit buffer of 1 | `QueuedIsSent`, violated | finding 2 |
| `datagram` | 3 nodes, 2 datagrams of 1 to 3 fragments, two nodes that refuse, one crash, alias given up, loss or enquiry; 78 thousand states | `TypeOK`, `Whole`, `OnceOnly`, `AckMeansDelivered`, `ReceptionEnds`, `EverySendEnds` | datagrams arrive whole and once, acknowledgements are true, sending and receiving end, save for what the properties exempt |
| `loop` | 3 tools, 3 requests; 773 thousand states | `AnswersFit`, `NoGap`, `EveryoneAnswered` | the objects on one transmit buffer do not mix up or break off each other's answers; who is not overtaken is answered |
| `alias_helper` | 2 boards with one node and 5 slots each, 3 aliases, `TxCap` 1, `RxCap` 1, one request, message or removal; 2.6 million states | `TypeOK`, `OwnAlias`, `NoSilentDuplicate` | nodes send under reserved aliases; two READY nodes with one alias have a frame under way that tells |

Three events are what `PCE` needs for one before and one behind an event in
hand; four requests set an element's flags, move the index past it and set them
again. Six operations of `NodeMemory` are twice what any counterexample found
takes.

In `Datagram` two datagrams are what it takes to interleave two senders at one
receiver, to repeat one, or to send again after a restart; one fault at any
place in them is what the code could be expected to survive. `OnceOnly` and
`AckMeansDelivered` hold whatever gets lost; `Whole` only while nothing does,
since no length is checked. `ReceptionEnds` and `EverySendEnds` exempt `cut`: a
spoilt or lost last fragment and a lost reply do leave a sender waiting for ever,
and no doc promises a timeout. `EverySendEnds` further exempts a datagram that a
node with this library does not accept (`NotAccepted`), which is sent again without
end; it says that other senders are not held up by that.

Three tools are what it takes to overwrite a pending read: one whose answer holds
the datagram buffer, one whose read waits for it, and a third that sends a
command. `EveryoneAnswered` exempts who was overtaken in this way
(`Configuration.cpp:76`) or in `PIP` (`PIP.cpp:47`); no doc promises either an
answer.

In `alias_helper` both nodes start with the same alias and draw the same next
ones, and requests come at any time, so that each state in which `checkMessage()`
looks away is met, for up to five passes. `NoSilentDuplicate` speaks of nodes that
are READY: one that is deaf in `RESENDRID` or `VERIFIED` leaves these states with a
frame under its alias, which the other one then hears. With `TxCap` 1 a rejection and
the turn of a slot are never sent in one pass, and with one node on a board
`Release` always finds the right slot; the theorems have no such bounds.

`link_up` starts with `Uptime` 0, so that no clock wraps. A wait that begins in the
last 200 ms of the range of `millis()` ends at once (`LinkControl.cpp:126`), and
nothing is claimed for it.

Fairness. `LinkControl!FairSpec`: each node's loop goes on (weak fairness of
`Pass`), its controller sends what it is given (`Transmit`), each node is
switched on at some time, and time passes. These are weak: none of the steps is
disabled again by another node once it can be taken, and the loop and the
controllers of real nodes do run on. No fairness is assumed of the tool or of
which frame is lost. `PCE!FairSpec`: the loop calls `check()` again and again;
`EverythingSent` says that all is sent once the requests pause, which the bound
`MaxCalls` makes happen; under requests without end an event may starve. `At90Can!FairSpec`: a call of the loop goes on, and the
controller sends what is in its message object. `Datagram!FairSpec`: each
node's loop sends and hears, the bus is shared fairly, and nodes come back after
a crash; sending is strongly fair, as a loop passes `check()` many times while one
frame is on the bus. `Loop!LoopFair`: the pass goes on, so does each tool (it
sends, hears or has its frame carried), and the bus carries the node's frames: all
weak. `AliasHelper` has none: two boards that draw the same aliases may chase
each other for ever.

`EventuallyUp` is checked without requests from a tool, `StaysUp` and the
refinement with them.

## 4. Findings

1. `AMDBeforeInit`: the case of `STATE_ALIAS_ASSIGNED` has no `return`. If
   `sendAMD()` finds no mailbox and one becomes free before
   `sendInitializationComplete()` polls again, the node is in operation without
   having sent its AMD (`LinkControl.cpp:130-140`, comment in line 131).
2. `QueuedIsSent`: the critical sections around the queueing of a frame are empty
   macros (`utils.h:116-117`). A transmission that ends between the second test
   of the flag and the end of `used++` leaves the frame in the buffer with
   nothing to send it, which the comment at `at90can_send_buf_message.c:54-59`
   says must not happen. With one place in the buffer the node stops sending.
3. `ForeverUnique`: with valid memory `setup()` does not read the count of event
   IDs given out; the next `store()` writes 0 over it, and the next user clear
   gives out the same IDs again (`NodeMemory.cpp:49-55`, `NodeMemory.h:87`).
4. `TagSound`: the tag that validates the memory is written before the memory,
   and the node ID is cleared under a tag that says it is valid
   (`NodeMemory.cpp:83`, `98-117`, `NodeMemory.h:23-24`).

## 5. What is proved

All theorems hold for every value of the constants that satisfies the named
assumptions, which ask only for numbers where numbers are meant, at least one
node, alias, mailbox and receive buffer (`LinkAssumption`, `NoneAssumption`,
`PCEAssumption`, `DriverAssumption`, `DatagramAssumption`, `LoopAssumption`,
`WantsAssumption`, `AliasAssumption`), a wait shorter than the clock's range, `None` not a node nor a
frame (`NoFrameAssumption`), aliases drawn that are not zero and differ, and, in `MemoryAssumption`, that a blank or cleared cell can
be told from a tag, a node's ID and an event ID, as 0xFF and 0 can.

`LinkControlProofs`:

- `LinkTypes`: `Spec => []TypeOK`.
- `ClaimsNoticed`: `Spec => []ClaimInv` if loops keep up (`~Overrun`) and no wait
  reaches the end of `millis()`'s range (`NoWrap`).
- `AliasesExclusive`: `Spec => []ExclusiveReservation`, under the same assumptions.
  With overrun it is false, and `link_up` checks what is left of it; with a wait
  across the end of the range it is false too.
- `LinkImplementsRegistry`: `Spec => ImplementsRegistry`, under the same assumptions.

That aliases are exclusive is not inductive: in a state in which two nodes wait
with the same alias and nothing is on the bus, both would reserve it. `ClaimInv`
excludes such states by looking at the frames:

- `ConflictInFlight`: when two nodes both have begun to claim the same alias, a
  frame with that alias is under way to one of them or in its hand. It arises
  with the first CIM of the later one and lasts, because whoever handles such a
  frame either answers a CIM with a RIM, another frame, or gives the alias up.
- `OneSure`: nobody shares the alias of a node that has reserved it or waited
  for one tick. A tick passes only when all mailboxes and receive buffers are
  empty, so that by `ConflictInFlight` no two claims are left then.
- `WaitBounded`: a waiting node has its clock within the wait, so that a RIM is
  sent only after a tick.

The refinement proof needs `OneSure` in the step that sends the RIM: the alias
that `AliasRegistry!Reserve` takes is then free.

`PCEProofs`:

- `TypeCorrect`: `Spec => []TypeOK`.
- `ReportsNeverLost`: `Spec => []NoLostReport`. The invariant is inductive over
  the types: `First(i)` stops at the first busy element, and one that owes
  something is busy.
- `IdentifiesNeverLost`: `Spec => []NoLostIdentify` if no event has both roles
  (`OneRole`): such an event would be identified as a producer only
  (`PCE.cpp:56` says so).
- `NothingUnaskedFor`: `Spec => []NothingUnasked`, with `OneRole`.

`At90CanProofs`, for buffers of any size and any set of frames
(`DriverAssumption`):

- `DriverTypes`: `Spec => []TypeOK`, with no exemption: even after torn counters
  every index and counter stays in its range.
- `SoundTillTorn`: `Spec => []SoundUnlessTorn`. `DriverSound` is the inductive
  invariant: the flag says whether the message object is in use, a frame is
  queued only while it is, head is tail plus used around the ring, the
  register is the counter it was loaded from. An interrupt that would break
  one of these is one that sets `torn`.
- `NothingStranded`: `Spec => []TransmitterRuns`, from it.
- `TxIsFifo`, `RxIsFifo`: `Spec => TxImplementsFifo`, `Spec => RxImplementsFifo`.
  Every step is a `Put`, a `Get` or a stutter of `Fifo`, or sets `torn`. The lemmas on rings say how
  `Content`, the ring read from the tail around, changes when a frame is put in
  or taken out.

`NodeMemoryProofs`, for any number of events and operations:

- `MemoryTypes`: `Spec => []TypeOK`.
- `EventsAreStored`: `Spec => []StoredEvents`, with the power failing anywhere.
- `TagIsSound`: `Spec => []TagSound` if the power fails only between calls
  (`~Torn`). Without that it is false: finding 4.

While the writes of a call are under way the EEPROM satisfies neither, so the
invariants speak of the memory that will be there when they are done:
`Reaches(eeprom, todo, w)` says that `w` has, in each cell, what the last write
to it will leave. `WillHoldEvents` and `WillPromise` are what must hold of `w`.
Since a tool may write the tag too, `WillPromise` asks more of a node that is up
than the tag it has: a valid node ID and events that are set (`Filled`), which
make any tag true.

`DatagramProofs`, for any nodes, routes, lengths of datagrams and buffers:

- `DatagramTypes`: `Spec => []TypeOK`.
- `DeliveredOnce`: `Spec => []OnceOnly`.
- `AcksAreTrue`: `Spec => []AckMeansDelivered`.

Losses, crashes, restarts, enquiries and aliases given up are all in these. `DatagramInv` is the
invariant. Most of it (`Exchange`) is about the set of frames under way (`Air`), in
buffers of senders or receivers: the fragments of a running node are of the
datagram in its buffer and sent already (`Sending`), a reply is under way only
when no fragment and no other reply is (`ReplyLast`, `OneReplier`, `Waiting`), of a
datagram being received or delivered no first fragment comes again (`PastFirst`,
`NotAgain`), because its sender neither has it to send again nor will be told to
(`GoesOn`, `DoneWith`), and an acknowledgement under way to a node is for what it
has in its buffer (`TrueAcks`). Frames may go from the set at any time, which is
why losses do no harm. Of the order of frames it needs little (`Precedes`): a node's
fragments come with increasing numbers, and no two replies to one node are under
way. What is taken from a buffer is then known to come before all that is left.

`DatagramWholeProofs`:

- `DeliveredWhole`: `Spec => []Whole`.

Here the order is all. For each sender n and receiver m, `Chain` walks along the
frames from n that matter to m: from the fragment m has put to the others, through
m's driver and n's transmit buffer, to the fragment n has sent last (`Ends`). A
fragment that is not the last of its datagram is followed by the next one, or by
an AMD or AMR (`Follows`). So m, when it takes a fragment that fits in, takes the next one,
and what it has is the beginning of one datagram (`Prefixes`). A crash of n cuts the
walk off, and the AMD of its restart goes on with it; an AMD sent between two
fragments ends the reception, after which m refuses the rest. Once a frame is
lost the walk breaks, and the invariant says nothing (`lost`).

`LoopProofs`, for any number of tools and requests, node information of any
number of frames and transmit buffers of any size:

- `LoopInvariant`: `LoopSpec => []LoopInv`, the inductive invariant.
- `AnswersAlwaysFit`: `LoopSpec => []AnswersFit`.
- `InformationWithoutGaps`: `LoopSpec => NoGap`.

`AnswersFit` says that a tool that is about to hear an answer waits for it. That
is not inductive: it must be known that there is no second answer behind the
first, and no question left that would call for one. `LoopInv` therefore says
where a tool's question and the answer to it can be, in one place at a time: in
the tool's hands, under way, with the object that is to answer, in the answer's
frames. `ReadFits` says it of a read request and `Configuration`, `PipFits` of
`PIP`, `InfoFits` of `SNII`, whose frames from the last one heard up to the last
one sent must all be under way (`Told`); this is what `NoGap` follows from. `Own`
ties fragments and replies to the datagram in the buffer of the `Datagram` object
that they belong to, and `Pending` says that the node's reserved buffer is waiting
for something. As in `DatagramProofs` the frames under way are a set (`Air`), and
of their order only `Before` is needed (`InOrder`): fragments come by their
numbers and so does node information. A tool whose read was overwritten, or whose
destination in `PIP` was, waits with its question nowhere, and the invariant allows
for that. TLC checked `LoopInv` on an instance before it was proved.

`AliasHelperProofs`, for any boards, numbers of nodes on them and slots:

- `BoardTypes`: `Spec => []TypeOK`.
- `NodesOwnTheirAlias`: `Spec => []OwnAlias`. The invariant (`Settled`) says that a
  node knows the slot's alias in every state but `RELEASING` and `CID1`, and may
  speak only in the states in which the slot has that alias for good. `Release` may
  take any slot of the board, so that the slot found does not matter.
- `DuplicatesAreNoticed`: `Spec => []NoSilentDuplicate`.

The last is inductive with the two before. A board's pass either queues a frame
under the alias with which a slot becomes `READY`, or the slot was `READY` with it
before and has heard no such frame in the pass (`Stays`, `PassTells`); what the pass
takes from the board's buffer would have made it give way. The bus only brings a
frame from one of the two boards to the other (`BusTells`).

Only model-checked:

- liveness (`EventuallyUp`, `EverythingSent`, `StaysUp`, `SpinEnds`, `ReceptionEnds`,
  `EverySendEnds`, `EveryoneAnswered`), since the prover has no rule for fairness
  here;
- `FourLostForDuplicate`, what is left of exclusive aliases under overrun, where
  `ConflictInFlight` does not hold, because the frame that would tell of the conflict
  may be dropped.

## 6. Not modelled, and what is left

Left to do, in this order: the object-oriented datagram handler with its timeouts
and the alias cache; the button dialogue (`BG`), composed of `PCE` and
`NodeMemory`; `PCE` in `Loop`; two nodes of one board with the same alias in
`AliasHelper`.

Known and without a property:

- `receivedFrame()` of the link restarts without an AMR when no mailbox is free
  (`LinkControl.cpp:170-172`, comment in line 170). `GiveUpAlias` has the step.
- In `PCE`, an event re-taught after it was produced is reported with its new ID
  (`PCE.cpp:185`); one with both roles is identified as a producer only
  (`PCE.cpp:56`); `isMarkedToLearn()` compares all flags (`PCE.cpp:102`).
- `NodeMemory::store()` clears 64 bytes behind the events (`NodeMemory.cpp:127`),
  and the mixed tag between the two writes of `forceInitEvents()` means that
  nothing is valid (line 26).
- In the alias helper a CID that comes in `INIT_COMPLETE` leads past
  Initialization Complete to `READY`, and the node stays silent
  (`OLCB_CAN_Alias_Helper.cpp:61-63`, `155-158`); a removed node takes an alias
  again; a Verify request overwrites a RID owed. `isAME()` compares the MTI with
  a variable field (`OLCB_CAN_Buffer.cpp:255`), and AME is not modelled.
- The MCP2515's transmit buffers may leave in another order than they were
  filled, and its receive buffers be read in another than they were. The first
  depends on the controller's settings, the second on SPI timing.

Not to be modelled: streams (empty methods), USB and Ethernet adapters (text
conversion and I/O), the sketches' own train and clock logic, vendored code.
Within the modelled components: frame headers and data bytes, the arithmetic of
the alias generator, the extra data of `NodeMemory::store` (no sketch has any),
and the application's callback for consumed events.

The models cover the protocol code, a few thousand lines. Most of the repository
is vendored: googletest, Arduino cores, LocoNet, DCC and timer libraries. The share
of all its lines that a definition models is therefore small and will remain so.
