---------------------------- MODULE AliasHelper ----------------------------
(***************************************************************************)
(* OLCB_CAN_Alias_Helper and the part of OLCB_CAN_Link around it: boards   *)
(* on one bus, each with some virtual nodes, negotiate the nodes' aliases. *)
(* What a board sends it also hears itself, through rxBuffer, at the next  *)
(* update(), unless it has sent something else by then.                    *)
(*                                                                         *)
(* All nodes have been added in setup(), to the first slots.  A slot       *)
(* without a node does nothing, but has its turn.  The generator behind    *)
(* reAllocateAlias() starts from the same value in every slot: Draw is     *)
(* what it yields.                                                         *)
(***************************************************************************)
EXTENDS Integers, Sequences, Functions

CONSTANTS
  Board, None,
  Slots,       \* CAN_ALIAS_BUFFER_SIZE: slots of a board
  Nodes,       \* Nodes[b]: number of b's virtual nodes
  Seed,        \* Seed[s]: the alias made from the node's ID
  Draw,        \* the aliases the generator draws, in order
  TxCap, RxCap,  \* frames in a board's transmit and receive buffer
  MaxAsks      \* bound on messages of nodes and tools, and removed nodes

Slot == UNION {{b} \X (1 .. Nodes[b]) : b \in Board}
Alias == {Seed[s] : s \in Slot} \cup {Draw[i] : i \in DOMAIN Draw}

ASSUME AliasAssumption ==
  /\ Slots \in Nat \ {0} /\ Nodes \in [Board -> 1 .. Slots]
  /\ TxCap \in Nat \ {0} /\ RxCap \in Nat \ {0} /\ MaxAsks \in Nat
  /\ Seed \in [Slot -> Nat \ {0}] /\ Draw \in Seq(Nat \ {0}) /\ Len(Draw) > 1
  /\ \A i, j \in DOMAIN Draw : Draw[i] = Draw[j] => i = j

VARIABLES
  handlers,    \* the virtual nodes in the links' lists _handlers
  slot,        \* _nodes[]: state, alias, generator; its node's alias and initialized
  index,       \* index[b]: the slot whose turn it is
  echo,        \* echo[b]: the internal message in rxBuffer, or None
  tx, rx,      \* frames to be sent, frames received
  asks

vars == <<handlers, slot, index, echo, tx, rx, asks>>

(* allocateAlias() *)
Init ==
  /\ handlers = Slot
  /\ slot = [s \in Slot |->
               [state |-> "CID1", alias |-> Seed[s], gen |-> 0, nalias |-> 0, init |-> FALSE]]
  /\ index = [b \in Board |-> 1] /\ echo = [b \in Board |-> None]
  /\ tx = [b \in Board |-> << >>] /\ rx = [b \in Board |-> << >>]
  /\ asks = 0

----------------------------------------------------------------------------
(* A RID that answers a CID is a "REPLY" here.  A tool's frames have the   *)
(* source 0, which stands for its alias; dst is the alias that a frame     *)
(* sent to one node is for.                                                *)
Kinds ==
  {"CID", "RID", "REPLY", "AMD", "AMR", "INITIALIZED", "VERIFIED", "VERIFY", "MSG", "REJECT"}
Frame(kind, alias) == [kind |-> kind, src |-> alias, dst |-> 0]
Addressed(alias) == [kind |-> "MSG", src |-> 0, dst |-> alias]

(* The frames of an alias on their way, a board's own to itself included. *)
OnBus(kinds, a) ==
  \E b \in Board : \E f \in Range(tx[b]) \cup Range(rx[b]) : f.kind \in kinds /\ f.src = a
Underway(kinds, a) ==
  \/ OnBus(kinds, a)
  \/ \E b \in Board : echo[b] # None /\ echo[b].kind \in kinds /\ echo[b].src = a

(* reAllocateAlias(): the next alias drawn that is another one. *)
After(i) == IF i = Len(Draw) THEN 1 ELSE i + 1
ReAllocatedZero(x) == [x EXCEPT !.init = FALSE, !.state = "RELEASING", !.alias = 0]
ReAllocatedInit(x) == [x EXCEPT !.state = "RELEASING", !.gen = After(@), !.alias = Draw[After(x.gen)]]
ReAllocated(x) ==
  LET i == After(x.gen)
      j == IF Draw[i] = x.alias THEN After(i) ELSE i
  IN  [x EXCEPT !.init = FALSE, !.state = "RELEASING", !.gen = j, !.alias = Draw[j]]

(* checkMessage(), for a slot whose alias is the frame's. *)
CollidesVerified(x, f, internal) ==
  /\ f.kind # "CID"
  /\ \/ x.state = "CID1" /\ ~(internal /\ f.kind = "AMR")
     \/ x.state \in {"CID2", "CID3", "CID4", "RID"}
     \/ x.state = "AMD" /\ ~(internal /\ f.kind \in {"RID", "REPLY"})
     \/ x.state \in {"INIT", "READY"} /\ f.kind = "VERIFIED" /\ ~internal
Collides(x, f, internal) ==
  /\ f.kind # "CID"
  /\ \/ x.state = "CID1" /\ ~(internal /\ f.kind = "AMR")
     \/ x.state \in {"CID2", "CID3", "CID4", "RID"}
     \/ x.state = "AMD" /\ ~(internal /\ f.kind \in {"RID", "REPLY"})
     \/ x.state \in {"INIT", "READY"} /\ ~internal
Checked(x, f, internal) ==
  IF x.alias # f.src THEN x
  ELSE IF Collides(x, f, internal) THEN ReAllocated(x)
  ELSE IF x.state \in {"INIT", "READY"} /\ f.kind = "CID" THEN [x EXCEPT !.state = "RESENDRID"]
  ELSE x

(* verifyNID(), of all nodes. *)
Verified(x, f) ==
  IF f.kind = "VERIFY" /\ x.init THEN [x EXCEPT !.state = "VERIFIED"] ELSE x

(* deliverMessage() to all slots of b. *)
Deliver(sl, b, f, internal) ==
  IF f = None THEN sl
  ELSE [s \in Slot |-> IF s[1] = b THEN Verified(Checked(sl[s], f, internal), f) ELSE sl[s]]

(* update(): what a slot sends in each state, and the next state. *)
Does ==
  [RELEASING |-> <<"AMR", "CID1">>,
   CID1 |-> <<"CID", "CID2">>, CID2 |-> <<"CID", "CID3">>,
   CID3 |-> <<"CID", "CID4">>, CID4 |-> <<"CID", "RID">>,
   RID |-> <<"RID", "AMD">>, AMD |-> <<"AMD", "INIT">>, INIT |-> <<"INITIALIZED", "READY">>,
   RESENDRID |-> <<"REPLY", "READY">>, VERIFIED |-> <<"VERIFIED", "READY">>]

(* RID_TIME_WAIT: long enough for all boards to hear a CID and to answer. *)
Waited(s) ==
  /\ ~Underway({"CID", "REPLY"}, slot[s].alias)
  /\ \A t \in Slot \ {s} : slot[t].state = "RESENDRID" => slot[t].alias # slot[s].alias

(* The slot whose turn it is: sends if there is a free buffer. *)
Turn(s, x, free) ==
  LET y == IF x.state = "CID1" THEN [x EXCEPT !.nalias = x.alias] ELSE x
  IN  IF \/ x.state = "READY"
         \/ x.state = "RID" /\ ~Waited(s)
         \/ ~free
      THEN <<y, << >>>>
      ELSE <<[y EXCEPT !.state = Does[x.state][2], !.init = (@ \/ x.state = "INIT")],
             <<Frame(Does[x.state][1], y.nalias)>>>>

(* What deliverMessage() sends: the node that a received frame is for may  *)
(* not handle it, and then it is rejected under that node's alias, if      *)
(* there is a free buffer.                                                 *)
Rejects(b, f, free) ==
  {<< >>} \cup
    IF free /\ f # None /\ \E s \in handlers : s[1] = b /\ slot[s].nalias # 0 /\ slot[s].nalias = f.dst
    THEN {<<Frame("REJECT", f.dst)>>} ELSE {}

(* What a node in operation may send in its own turn. *)
Says(b, sl) ==
  {<< >>} \cup
    {<<Frame("MSG", sl[s].nalias)>> : s \in {t \in handlers : t[1] = b /\ sl[t].init /\ asks < MaxAsks}}

(* OLCB_CAN_Link::update(): the internal message and a received frame are  *)
(* delivered, a slot has its turn, if a node has it, and a node.           *)
Pass(b) ==
  LET heard == IF rx[b] = << >> THEN None ELSE Head(rx[b])
      s == <<b, index[b]>>
      old == Deliver(Deliver(slot, b, echo[b], TRUE), b, heard, FALSE)
  IN  \E rejected \in Rejects(b, heard, Len(tx[b]) < TxCap) :
        LET turn == IF s \in Slot
                    THEN Turn(s, old[s], Len(tx[b]) + Len(rejected) < TxCap) ELSE <<None, << >>>>
            new == IF s \in Slot THEN [old EXCEPT ![s] = turn[1]] ELSE old
        IN  \E said \in Says(b, new) :
              LET out == rejected \o turn[2] \o said
              IN  /\ Len(tx[b]) + Len(out) <= TxCap
                  /\ slot' = new
                  /\ tx' = [tx EXCEPT ![b] = @ \o out]
                  /\ rx' = [rx EXCEPT ![b] = IF @ = << >> THEN @ ELSE Tail(@)]
                  /\ echo' = [echo EXCEPT ![b] = IF out = << >> THEN None ELSE out[Len(out)]]
                  /\ index' = [index EXCEPT ![b] = IF @ = Slots THEN 1 ELSE @ + 1]
                  /\ asks' = asks + Len(said)
                  /\ UNCHANGED handlers

(* The bus brings a frame to all other boards, whose loops keep up. *)
Bus(b) ==
  /\ tx[b] # << >>
  /\ \A c \in Board \ {b} : Len(rx[c]) < RxCap
  /\ rx' = [c \in Board |-> IF c = b THEN rx[c] ELSE Append(rx[c], Head(tx[b]))]
  /\ tx' = [tx EXCEPT ![b] = Tail(@)]
  /\ UNCHANGED <<handlers, slot, index, echo, asks>>

(* A tool asks all nodes for their IDs, or sends to one of them. *)
Tool ==
  /\ asks < MaxAsks /\ asks' = asks + 1
  /\ \A b \in Board : Len(rx[b]) < RxCap
  /\ \E f \in {Frame("VERIFY", 0)} \cup {Addressed(slot[s].nalias) : s \in Slot} :
       rx' = [b \in Board |-> Append(rx[b], f)]
  /\ UNCHANGED <<handlers, slot, index, echo, tx>>

(* "if have the same ID", with operator== of OLCB_NodeID: two aliases are  *)
(* compared rather than the IDs, when both nodes have one.                 *)
SameID(s, t) ==
  IF slot[s].nalias # 0 /\ slot[t].nalias # 0 THEN slot[s].nalias = slot[t].nalias ELSE s = t

(* The first slot of the board with the ID of s. *)
Found(s) ==
  CHOOSE t \in Slot : /\ t[1] = s[1] /\ SameID(s, t)
                      /\ \A u \in Slot : u[1] = s[1] /\ SameID(s, u) => t[2] <= u[2]

(* removeVNode(): releaseAlias().  The slot keeps its node and goes on. *)
Release(s) ==
  /\ s \in handlers /\ handlers' = handlers \ {s}
  /\ asks < MaxAsks /\ asks' = asks + 1
  /\ slot' = [slot EXCEPT ![Found(s)].state = "RELEASING", ![Found(s)].init = FALSE]
  /\ UNCHANGED <<index, echo, tx, rx>>

Next ==
  \/ \E b \in Board : Pass(b) \/ Bus(b)
  \/ Tool
  \/ \E s \in Slot : Release(s)

Spec == Init /\ [][Next]_vars

----------------------------------------------------------------------------
Messages == [kind : Kinds, src : Alias \cup {0}, dst : Alias \cup {0}]
States == DOMAIN Does \cup {"READY"}
Permitted == {"INIT", "READY", "RESENDRID", "VERIFIED"}

ASSUME NoFrameAssumption == None \notin Messages

(* The variables have their types and no buffer holds more than it can.    *)
TypeOK ==
  /\ handlers \subseteq Slot
  /\ slot \in [Slot -> [state : States, alias : Alias, gen : 0 .. Len(Draw),
                        nalias : Alias \cup {0}, init : BOOLEAN]]
  /\ index \in [Board -> Nat] /\ echo \in [Board -> Messages \cup {None}]
  /\ tx \in [Board -> Seq(Messages)] /\ rx \in [Board -> Seq(Messages)]
  /\ \A b \in Board : index[b] \in 1 .. Slots /\ Len(tx[b]) <= TxCap /\ Len(rx[b]) <= RxCap
  /\ asks \in 0 .. MaxAsks

(* A node that believes itself initialized, and so may send, sends under   *)
(* the alias its slot has reserved, and its slot does not negotiate: a     *)
(* reallocation takes effect at once although CID1 copies the alias later. *)
OwnAlias ==
  \A s \in Slot : slot[s].init => slot[s].nalias = slot[s].alias /\ slot[s].state \in Permitted

(* A frame that makes a READY node with alias a give way when received. *)
Telling(f, a) == f.kind # "CID" /\ f.src = a

(* Two nodes of different boards do not go on under one alias: while both  *)
(* are READY, a message under it, which makes the one that hears it give   *)
(* way, is between their boards.  In RESENDRID and VERIFIED a node is deaf *)
(* to the other, for as many passes as the board has slots, but it does    *)
(* not leave these states without such a message.                          *)
NoSilentDuplicate ==
  \A s, t \in Slot :
    /\ s[1] # t[1]
    /\ slot[s].state = "READY" /\ slot[t].state = "READY" /\ slot[s].alias = slot[t].alias
    => \E b \in {s[1], t[1]} : \E f \in Range(tx[b]) \cup Range(rx[b]) : Telling(f, slot[s].alias)
============================================================================
