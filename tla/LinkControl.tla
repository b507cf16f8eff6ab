---------------------------- MODULE LinkControl ----------------------------
(***************************************************************************)
(* Alias allocation on a CAN segment: N nodes, each running the loop of    *)
(* OlcbArduinoCAN.h with the LinkControl state machine in it.              *)
(*                                                                         *)
(* A loop pass takes a frame from the receive buffers, runs link.check()   *)
(* (the Check actions) and then hands the frame to link.receivedFrame().   *)
(* The bus takes frames out of the transmit mailboxes between these steps, *)
(* so that each poll of OpenLcb_can_xmt_ready() may find something else.   *)
(***************************************************************************)
EXTENDS Integers, Sequences

CONSTANTS
  Node,        \* the nodes of the segment
  Alias,       \* the 12-bit aliases that occur
  AliasSeq,    \* the aliases each node's generator delivers, repeating
  Wait,        \* CONFIRM_WAIT_TIME, in ticks
  Wrap,        \* the width of millis(): one more than its largest value
  TxCap,       \* transmit mailboxes of the CAN controller
  RxCap,       \* receive buffers of the CAN controller
  Everyone,    \* destination of a request without a node ID
  ToolAlias,   \* the alias of the tool that sends requests
  Asked,       \* whom the tool asks: nodes, aliases, Everyone
  Requests,    \* bound: how many requests the tool sends
  Uptime,      \* the values millis() has when a wait starts
  Overrun,     \* may frames come faster than the loop takes them
  None

ASSUME LinkAssumption ==
  /\ Node # {} /\ Alias # {}
  /\ AliasSeq \in [Node -> Seq(Alias)]
  /\ \A n \in Node : Len(AliasSeq[n]) > 0
  /\ Wait \in Nat \ {0} /\ Wrap \in Nat /\ Wrap > Wait
  /\ TxCap \in Nat \ {0} /\ RxCap \in Nat \ {0}
  /\ Asked \subseteq Node \cup Alias \cup {Everyone}
  /\ Requests \in Nat /\ Overrun \in BOOLEAN
  /\ Uptime # {} /\ Uptime \subseteq 0 .. Wrap - 1
  /\ ToolAlias \notin Alias

VARIABLES
  on,      \* has reset() been called since the power came on
  state,   \* LinkControl::state
  pos,     \* how far the node's alias generator has advanced
  timer,   \* LinkControl::timer
  clock,   \* millis() of a node that waits, 0 when it does not
  pc,      \* where the node's loop pass stands
  cur,     \* rxBuffer: the frame taken at the start of the pass
  tx,      \* the frames in the transmit mailboxes, oldest first
  rx,      \* the frames in the receive buffers, oldest first
  asked    \* how many requests the tool has sent

vars == <<on, state, pos, timer, clock, pc, cur, tx, rx, asked>>
time == <<timer, clock>>

(***************************************************************************)
(* The values of LinkControl::state: STATE_INITIAL + 0 .. 4 counts the CIM *)
(* frames sent.                                                            *)
(***************************************************************************)
INITIAL        == 0
WAIT_CONFIRM   == 10
ALIAS_ASSIGNED == 20
PERMITTED      == 25
INITIALIZED    == 30
State == (INITIAL .. INITIAL + 4) \cup
         {WAIT_CONFIRM, ALIAS_ASSIGNED, PERMITTED, INITIALIZED}

(* The alias the node's generator stands at. *)
getAlias(n) == AliasSeq[n][pos[n] + 1]

(***************************************************************************)
(* A frame is its kind, its source alias and, for a request, whom it asks: *)
(* a node by its ID, an alias, or Everyone.                                *)
(***************************************************************************)
Kind == {"CIM", "RIM", "AMD", "AMR", "AME", "INIT", "VERIFY", "VERIFIED"}
Target == Node \cup Alias \cup {Everyone, None}
Frame == [kind : Kind, src : Alias \cup {ToolAlias}, dst : Target]
Fr(k, a) == [kind |-> k, src |-> a, dst |-> None]

ASSUME NoneAssumption == None \notin Frame /\ None \notin Alias

(* Mutant: frames are queued without a look at the mailboxes. *)
XmtReadyAlways(n) == TRUE

(* OpenLcb_can_xmt_ready: a mailbox is free. *)
XmtReady(n) == Len(tx[n]) < TxCap

(* The effect of can_send_message on the mailboxes of n. *)
Send(n, f) == tx' = [tx EXCEPT ![n] = Append(@, f)]

Init ==
  /\ on = [n \in Node |-> FALSE]
  /\ state = [n \in Node |-> INITIAL]
  /\ pos = [n \in Node |-> 0]
  /\ timer = [n \in Node |-> 0]
  /\ clock = [n \in Node |-> 0]
  /\ pc = [n \in Node |-> "loop"]
  /\ cur = [n \in Node |-> None]
  /\ tx = [n \in Node |-> << >>]
  /\ rx = [n \in Node |-> << >>]
  /\ asked = 0

(* Power on: Olcb_setup() opens the CAN controller and calls reset(). *)
Boot(n) ==
  /\ ~on[n]
  /\ on' = [on EXCEPT ![n] = TRUE]
  /\ pos' = [pos EXCEPT ![n] = 0]
  /\ UNCHANGED <<state, time, pc, cur, tx, rx, asked>>

----------------------------------------------------------------------------
(* A loop pass starts and takes the oldest frame received, if any.  A pass *)
(* of an initialized node without a frame does nothing.                    *)
Taken(n) == IF rx[n] = << >> THEN None ELSE Head(rx[n])

StartPass(n) ==
  /\ on[n] /\ pc[n] = "loop"
  /\ rx[n] # << >> \/ state[n] # INITIALIZED
  /\ cur' = [cur EXCEPT ![n] = Taken(n)]
  /\ rx' = [rx EXCEPT ![n] = IF @ = << >> THEN @ ELSE Tail(@)]

(* check() returns; with the frame f the pass goes on to receivedFrame(). *)
EndCheck(n, f) == pc' = [pc EXCEPT ![n] = IF f = None THEN "loop" ELSE "receive"]

(* sendFrame() of f: when a mailbox is free f is queued and the state      *)
(* becomes s; otherwise nothing changes.                                   *)
TrySend(n, f, s) ==
  IF XmtReady(n)
  THEN Send(n, f) /\ state' = [state EXCEPT ![n] = s]
  ELSE UNCHANGED <<tx, state>>

CheckCIM(n) ==
  /\ StartPass(n) /\ state[n] \in INITIAL .. INITIAL + 3
  /\ TrySend(n, Fr("CIM", getAlias(n)), state[n] + 1)
  /\ EndCheck(n, Taken(n))
  /\ UNCHANGED <<on, pos, time, asked>>

(* timer = millis().  The node may have been up for any time in Uptime. *)
StartTimer(n) ==
  /\ StartPass(n) /\ state[n] = INITIAL + 4
  /\ \E t \in Uptime : /\ clock' = [clock EXCEPT ![n] = t]
                       /\ timer' = [timer EXCEPT ![n] = t]
  /\ state' = [state EXCEPT ![n] = WAIT_CONFIRM]
  /\ EndCheck(n, Taken(n))
  /\ UNCHANGED <<on, pos, tx, asked>>

(* The clock and the timer are not read again before the next StartTimer. *)
StopTimer(n) == /\ clock' = [clock EXCEPT ![n] = 0]
                /\ timer' = [timer EXCEPT ![n] = 0]

(* millis() > timer + CONFIRM_WAIT_TIME, in unsigned arithmetic. *)
TimeUp(n) == clock[n] > (timer[n] + Wait) % Wrap

CheckWait(n) ==
  /\ StartPass(n) /\ state[n] = WAIT_CONFIRM
  /\ IF TimeUp(n) /\ XmtReady(n)
     THEN /\ Send(n, Fr("RIM", getAlias(n)))
          /\ state' = [state EXCEPT ![n] = ALIAS_ASSIGNED]
          /\ StopTimer(n)
     ELSE UNCHANGED <<tx, state, time>>
  /\ EndCheck(n, Taken(n))
  /\ UNCHANGED <<on, pos, asked>>

(* The case of ALIAS_ASSIGNED has no break: whether or not the AMD could   *)
(* be queued, the call goes on with the case of PERMITTED.                 *)
CheckAssigned(n) ==
  /\ StartPass(n) /\ state[n] = ALIAS_ASSIGNED
  /\ TrySend(n, Fr("AMD", getAlias(n)), PERMITTED)
  /\ pc' = [pc EXCEPT ![n] = "permitted"]
  /\ UNCHANGED <<on, pos, time, asked>>

FallThrough(n) ==
  /\ pc[n] = "permitted"
  /\ TrySend(n, Fr("INIT", getAlias(n)), INITIALIZED)
  /\ EndCheck(n, cur[n])
  /\ UNCHANGED <<on, pos, time, cur, rx, asked>>

CheckPermitted(n) ==
  /\ StartPass(n) /\ state[n] = PERMITTED
  /\ TrySend(n, Fr("INIT", getAlias(n)), INITIALIZED)
  /\ EndCheck(n, Taken(n))
  /\ UNCHANGED <<on, pos, time, asked>>

CheckInitialized(n) ==
  /\ StartPass(n) /\ state[n] = INITIALIZED
  /\ EndCheck(n, Taken(n))
  /\ UNCHANGED <<on, state, pos, time, tx, asked>>

Check(n) ==
  \/ CheckCIM(n) \/ StartTimer(n) \/ CheckWait(n) \/ CheckAssigned(n)
  \/ FallThrough(n) \/ CheckPermitted(n) \/ CheckInitialized(n)

----------------------------------------------------------------------------
(* receivedFrame(cur) ends, and with it the pass. *)
EndPass(n) ==
  /\ pc' = [pc EXCEPT ![n] = "loop"]
  /\ cur' = [cur EXCEPT ![n] = None]

Receiving(n) == pc[n] = "receive"

(* Mutant: the destination is taken for the source. *)
OwnAliasAnywhere(n) == getAlias(n) \in {cur[n].src, cur[n].dst}

OwnAlias(n) == cur[n].src = getAlias(n)

(* Mutant: only an alias that has been reserved is defended. *)
DefendReserved(n) ==
  /\ Receiving(n) /\ OwnAlias(n)
  /\ cur[n].kind = "CIM"
  /\ IF state[n] \in {ALIAS_ASSIGNED, PERMITTED, INITIALIZED}
     THEN XmtReady(n) /\ Send(n, Fr("RIM", getAlias(n)))
     ELSE UNCHANGED tx
  /\ EndPass(n)
  /\ UNCHANGED <<on, state, pos, time, rx, asked>>

(* while (!sendRIM()) {}: the loop does not go on without a mailbox. *)
DefendAlias(n) ==
  /\ Receiving(n) /\ OwnAlias(n)
  /\ cur[n].kind = "CIM"
  /\ XmtReady(n)
  /\ Send(n, Fr("RIM", getAlias(n)))
  /\ EndPass(n)
  /\ UNCHANGED <<on, state, pos, time, rx, asked>>

(* Mutant: restart() does not take the next alias. *)
GiveUpNothing(n) ==
  /\ Receiving(n) /\ OwnAlias(n)
  /\ cur[n].kind # "CIM"
  /\ IF XmtReady(n) THEN Send(n, Fr("AMR", getAlias(n))) ELSE UNCHANGED tx
  /\ state' = [state EXCEPT ![n] = INITIAL]
  /\ StopTimer(n)
  /\ EndPass(n)
  /\ UNCHANGED <<on, pos, rx, asked>>

(* Mutant: restart() takes the next alias without a new reservation. *)
GiveUpAliasOnly(n) ==
  /\ Receiving(n) /\ OwnAlias(n)
  /\ cur[n].kind # "CIM"
  /\ IF XmtReady(n) THEN Send(n, Fr("AMR", getAlias(n))) ELSE UNCHANGED tx
  /\ pos' = [pos EXCEPT ![n] = (@ + 1) % Len(AliasSeq[n])]
  /\ EndPass(n)
  /\ UNCHANGED <<on, state, time, rx, asked>>

(* sendAMR(), whose result is not looked at, and restart(). *)
GiveUpAlias(n) ==
  /\ Receiving(n) /\ OwnAlias(n)
  /\ cur[n].kind # "CIM"
  /\ IF XmtReady(n) THEN Send(n, Fr("AMR", getAlias(n))) ELSE UNCHANGED tx
  /\ state' = [state EXCEPT ![n] = INITIAL]
  /\ pos' = [pos EXCEPT ![n] = (@ + 1) % Len(AliasSeq[n])]
  /\ StopTimer(n)
  /\ EndPass(n)
  /\ UNCHANGED <<on, rx, asked>>

(* A request is for this node: by its ID, by its alias, or for all. *)
ForMe(n, f) ==
  \/ f.kind = "AME" /\ f.dst \in {Everyone, n}
  \/ f.kind = "VERIFY" /\ f.dst \in {Everyone, n, getAlias(n)}

Reply(f) == IF f.kind = "AME" THEN "AMD" ELSE "VERIFIED"

(* The answers wait for a mailbox (OpenLcb_can_queue_xmt_wait) and are     *)
(* given in every link state.                                              *)
AnswerRequest(n) ==
  /\ Receiving(n) /\ ~OwnAlias(n) /\ ForMe(n, cur[n])
  /\ XmtReady(n)
  /\ Send(n, Fr(Reply(cur[n]), getAlias(n)))
  /\ EndPass(n)
  /\ UNCHANGED <<on, state, pos, time, rx, asked>>

IgnoreFrame(n) ==
  /\ Receiving(n) /\ ~OwnAlias(n) /\ ~ForMe(n, cur[n])
  /\ EndPass(n)
  /\ UNCHANGED <<on, state, pos, time, tx, rx, asked>>

receivedFrame(n) ==
  DefendAlias(n) \/ GiveUpAlias(n) \/ AnswerRequest(n) \/ IgnoreFrame(n)

----------------------------------------------------------------------------
(* The frame f reaches every powered node but its sender.  When the loops  *)
(* keep up with the bus (Overrun = FALSE) all of them have room for it;    *)
(* otherwise the interrupt routine drops it where the buffer is full.      *)
Broadcast(n, f) ==
  /\ Overrun \/ \A m \in Node \ {n} : Len(rx[m]) < RxCap
  /\ rx' = [m \in Node |->
             IF on[m] /\ m # n /\ Len(rx[m]) < RxCap THEN Append(rx[m], f) ELSE rx[m]]

(* The controller of n wins arbitration and sends its oldest frame. *)
Transmit(n) ==
  /\ tx[n] # << >>
  /\ Broadcast(n, Head(tx[n]))
  /\ tx' = [tx EXCEPT ![n] = Tail(@)]
  /\ UNCHANGED <<on, state, pos, time, pc, cur, asked>>

(* A tool asks for aliases (AME) or for node IDs (Verify Node ID). *)
Request ==
  [kind : {"AME"}, src : {ToolAlias}, dst : Asked \ Alias] \cup
  [kind : {"VERIFY"}, src : {ToolAlias}, dst : Asked]

Ask ==
  /\ asked < Requests
  /\ asked' = asked + 1
  /\ \E f \in Request : Broadcast(None, f)
  /\ UNCHANGED <<on, state, pos, time, pc, cur, tx>>

(***************************************************************************)
(* Timing.  A tick is a good part of the 200 ms wait; a frame needs about  *)
(* a millisecond and a loop pass less.  So no tick passes while a frame is *)
(* under way or being handled, nor before a node whose time is up has seen *)
(* it.  Only the clocks that are waited for are kept.                      *)
(***************************************************************************)
Quiet(n) == tx[n] = << >> /\ rx[n] = << >> /\ pc[n] = "loop"
Waiting(n) == state[n] = WAIT_CONFIRM

Tick ==
  /\ \A n \in Node : Quiet(n) /\ ~(Waiting(n) /\ TimeUp(n))
  /\ \E n \in Node : Waiting(n)
  /\ clock' = [n \in Node |-> IF Waiting(n) THEN (clock[n] + 1) % Wrap ELSE clock[n]]
  /\ UNCHANGED <<on, state, pos, timer, pc, cur, tx, rx, asked>>

Pass(n) == Check(n) \/ receivedFrame(n)

Next ==
  \/ \E n \in Node : Boot(n) \/ Pass(n) \/ Transmit(n)
  \/ Ask
  \/ Tick

Spec == Init /\ [][Next]_vars

(***************************************************************************)
(* The loop of every node runs for ever, the controllers send what they    *)
(* are given, every node is switched on some day and time goes on.         *)
(***************************************************************************)
Fairness ==
  /\ \A n \in Node : WF_vars(Boot(n)) /\ WF_vars(Pass(n)) /\ WF_vars(Transmit(n))
  /\ WF_vars(Tick)

FairSpec == Spec /\ Fairness

----------------------------------------------------------------------------
(* How the parts of a node's state go together. *)
PassOK(n) ==
  /\ pc[n] = "receive" => cur[n] # None
  /\ pc[n] = "loop" => cur[n] = None
  /\ pc[n] = "permitted" => state[n] \in {ALIAS_ASSIGNED, PERMITTED}
  /\ ~on[n] => state[n] = INITIAL /\ pc[n] = "loop"

TypeOK ==
  /\ on \in [Node -> BOOLEAN]
  /\ state \in [Node -> State]
  /\ pos \in [Node -> Nat]
  /\ \A n \in Node : pos[n] < Len(AliasSeq[n])
  /\ timer \in [Node -> 0 .. Wrap - 1]
  /\ clock \in [Node -> 0 .. Wrap - 1]
  /\ pc \in [Node -> {"loop", "permitted", "receive"}]
  /\ cur \in [Node -> Frame \cup {None}]
  /\ \A n \in Node : PassOK(n)
  /\ tx \in [Node -> Seq(Frame)]
  /\ rx \in [Node -> Seq(Frame)]
  /\ \A n \in Node : Len(tx[n]) <= TxCap /\ Len(rx[n]) <= RxCap
  /\ asked \in 0 .. Requests

(* The alias is reserved: the node has sent its RIM. *)
Reserved(n) == state[n] \in {ALIAS_ASSIGNED, PERMITTED, INITIALIZED}

(* No two nodes hold the same alias, as long as the loops keep up with the *)
(* bus: the CIM frames, the 200 ms wait, the RIM of the owner and the AMR  *)
(* of the loser, in whatever order they cross on the bus, bring this       *)
(* about.  LinkLoss says what remains of it when frames are dropped.       *)
ExclusiveReservation ==
  \A m, n \in Node : m # n /\ Reserved(m) /\ Reserved(n) => getAlias(m) # getAlias(n)

(* A frame with source a is among those of the sequence s. *)
HasSource(s, a) == \E i \in 1 .. Len(s) : s[i].src = a

(* A frame with source a is on its way from m or on its way into n. *)
Coming(m, n, a) ==
  HasSource(tx[m], a) \/ HasSource(rx[n], a) \/ (cur[n] # None /\ cur[n].src = a)

(* Two nodes that have both begun to claim the same alias will not both    *)
(* fail to notice: until one of them has given up, a frame with that alias *)
(* is under way to one of them or about to be handled by it.               *)
ConflictInFlight ==
  \A m, n \in Node :
    m # n /\ getAlias(m) = getAlias(n) /\ state[m] # INITIAL /\ state[n] # INITIAL =>
      Coming(m, n, getAlias(n)) \/ Coming(n, m, getAlias(n))

(* A node that waits past the first tick, or has its alias reserved, is    *)
(* sure of the alias: everyone else has seen its CIM frames.               *)
Sure(n) == Reserved(n) \/ (Waiting(n) /\ clock[n] # timer[n])

(* No two nodes are sure of the same alias; this is what the 200 ms are    *)
(* for, and why both cannot go on to reserve it.                           *)
OneSure ==
  \A m, n \in Node : m # n /\ Sure(m) /\ Sure(n) => getAlias(m) # getAlias(n)

(* A waiting node's clock stays within the wait, and does not wrap, if its *)
(* wait cannot reach the end of millis()'s range.                          *)
NoWrap == \A t \in Uptime : t + Wait + 1 < Wrap
WaitBounded ==
  \A n \in Node : Waiting(n) => /\ timer[n] \in Uptime
                               /\ clock[n] \in timer[n] .. timer[n] + Wait + 1

(* The three together carry over from step to step. *)
ClaimInv == WaitBounded /\ ConflictInFlight /\ OneSure

(* Once all nodes are up and the bus is quiet no node loses its alias any  *)
(* more, whatever the tool asks and the nodes answer.                      *)
AllUp == \A n \in Node : on[n] /\ state[n] = INITIALIZED
Settled == AllUp /\ \A n \in Node : Quiet(n)
StaysUp == [](Settled => []AllUp)

(* The allocation implements the abstract registry: a node holds the alias *)
(* it has reserved.                                                        *)
Registry == INSTANCE AliasRegistry WITH
  holds <- [n \in Node |-> IF Reserved(n) THEN getAlias(n) ELSE None]
ImplementsRegistry == Registry!Spec

(* Every node ends up with an alias and in operation. *)
EventuallyUp == <>[]AllUp

(* "send AMD to go to Permitted": a node that sends Initialization         *)
(* Complete has sent its AMD before.                                       *)
AMDBeforeInit ==
  [][\A n \in Node :
       state[n] # INITIALIZED /\ state'[n] = INITIALIZED => state[n] = PERMITTED]_vars
============================================================================
