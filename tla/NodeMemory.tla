---------------------------- MODULE NodeMemory ----------------------------
(***************************************************************************)
(* The EEPROM of a node (class NodeMemory): a tag that says what is valid, *)
(* the count of event IDs given out, the node ID, the events, and the area *)
(* behind the events.  setup() reads it at power-on and makes new event    *)
(* IDs when the tag asks for it; learning stores the events; a             *)
(* configuration tool and the blue/gold buttons write cells directly.      *)
(*                                                                         *)
(* EEPROM cells are written one after the other (todo), and the power may  *)
(* go between two of them.  A cell stands for the bytes of one field; the  *)
(* tag's bytes are cells of their own, as their order matters.             *)
(***************************************************************************)
EXTENDS Integers, Sequences, FiniteSets

CONSTANTS
  nEvents,     \* the number of events
  Taught,      \* event IDs that a tool teaches or writes
  NodeIDs,     \* node IDs that a tool writes
  Counts,      \* counts that a tool writes
  Editable,    \* the cells that a tool writes
  CountWrap,   \* the width of count: 2^8
  Torn,        \* may the power fail between two writes
  MaxOps,      \* bound: operations and power failures
  MyID,        \* the node ID compiled into the program
  Blank, Zero  \* a cell never written, and a cleared one

ASSUME MemoryAssumption ==
  /\ nEvents \in Nat
  /\ CountWrap \in Nat \ {0} /\ MaxOps \in Nat /\ Torn \in BOOLEAN
  /\ Blank # Zero /\ MyID \notin {Blank, Zero} /\ Blank # "EE55"
  /\ Taught # {} /\ Taught \cap {Blank, Zero} = {} /\ NodeIDs \cap {Blank, Zero} = {}
  /\ Counts \subseteq 0 .. CountWrap - 1 /\ Editable \subseteq 0 .. nEvents + 5
  /\ ((NodeIDs \cup {MyID, Blank, Zero}) \X (0 .. CountWrap - 1)) \cap {Blank, Zero} = {}

Index == 0 .. nEvents - 1

(* The cells in the order of their addresses. *)
TAG01 == 0
TAG2 == 1
TAG3 == 2
COUNT == 3
NID == 4
EVENT(i) == 5 + i
REST == 5 + nEvents
Cell == 0 .. REST

VARIABLES
  eeprom,    \* the contents of the cells
  todo,      \* writes the current call has still to do
  phase,     \* "off", "setup" while setup() runs, "up"
  nid,       \* the node ID in RAM
  ev,        \* the events in RAM
  count,     \* NodeMemory::count
  ops,       \* operations and power failures so far
  edited,    \* history: cells a tool has written in EEPROM since the last store
  given,     \* history: the event IDs given out
  gifts      \* history: how many have been given out

vars == <<eeprom, todo, phase, nid, ev, count, ops, edited, given, gifts>>
history == <<edited, given, gifts>>

(* The tag bytes; anything but these two tags means "no memory valid". *)
AllTag == <<"EE55", "5E", "E5">>
NidTag == <<"EE55", "33", "CC">>
HasTag(t) == <<eeprom[TAG01], eeprom[TAG2], eeprom[TAG3]>> = t
checkAllOK == HasTag(AllTag)
checkNidOK == HasTag(NidTag)

W(c, v) == [cell |-> c, val |-> v]

(* The k-th event ID after count c: the node ID and the low byte of count; *)
(* the high byte is always 0.                                              *)
NewID(n, c, k) == <<n, (c + k) % CountWrap>>

(* Mutant: the node ID is left out. *)
StoreWithoutNid(c, n, e) ==
  <<W(TAG01, "EE55"), W(TAG2, "5E"), W(TAG3, "E5"), W(COUNT, c)>>
  \o [k \in 1 .. nEvents |-> W(EVENT(k - 1), e[k - 1])] \o <<W(REST, Zero)>>

(* store(): tag first, then count, node ID, events and 64 zero bytes. *)
StoreWrites(c, n, e) ==
  <<W(TAG01, "EE55"), W(TAG2, "5E"), W(TAG3, "E5"), W(COUNT, c), W(NID, n)>>
  \o [k \in 1 .. nEvents |-> W(EVENT(k - 1), e[k - 1])] \o <<W(REST, Zero)>>

(* The loop of reset() over the addresses from 4 to clearBytes. *)
ClearWrites ==
  <<W(COUNT, 0), W(NID, Zero)>>
  \o [k \in 1 .. nEvents |-> W(EVENT(k - 1), Zero)] \o <<W(REST, Zero)>>

Init ==
  /\ eeprom = [c \in Cell |-> Blank]
  /\ todo = << >>
  /\ phase = "off"
  /\ nid = MyID
  /\ ev = [i \in Index |-> Blank]
  /\ count = 0
  /\ ops = 0
  /\ edited = {}
  /\ given = {}
  /\ gifts = 0

----------------------------------------------------------------------------
(* reset(n, ...) with the count c: clear, make new event IDs, store. *)
reset(n, c) ==
  LET e == [i \in Index |-> NewID(n, c, i + 1)]
      d == (c + nEvents) % CountWrap
  IN
  /\ nid' = n
  /\ ev' = e
  /\ count' = d
  /\ todo' = ClearWrites \o StoreWrites(d, n, e)
  /\ edited' = {}
  /\ given' = given \cup {e[i] : i \in Index}
  /\ gifts' = gifts + nEvents

(* With its factory default jumper set a sketch calls forceInitAll() before *)
(* setup(): the first event IDs are to be given out again.                  *)
forceInitAll ==
  /\ phase = "off" /\ todo = << >> /\ ops < MaxOps
  /\ ops' = ops + 1
  /\ todo' = <<W(TAG01, Blank)>>
  /\ given' = {}
  /\ gifts' = 0
  /\ UNCHANGED <<eeprom, phase, nid, ev, count, edited>>

(* Power on: the beginning of setup(). *)
PowerOn == phase = "off" /\ todo = << >>

SetupNidOK ==
  /\ PowerOn /\ checkNidOK
  /\ reset(eeprom[NID], IF eeprom[COUNT] = Blank THEN CountWrap - 1 ELSE eeprom[COUNT])
  /\ phase' = "setup"
  /\ UNCHANGED <<eeprom, ops>>

SetupInvalid ==
  /\ PowerOn /\ ~checkNidOK /\ ~checkAllOK
  /\ reset(nid, 0)
  /\ phase' = "setup"
  /\ UNCHANGED <<eeprom, ops>>

(* With all memory valid the count is not read. *)
SetupAllOK ==
  /\ PowerOn /\ checkAllOK
  /\ phase' = "setup"
  /\ UNCHANGED <<eeprom, todo, nid, ev, count, ops, history>>

(* The end of setup(): node ID and events are read into RAM. *)
Load ==
  /\ phase = "setup" /\ todo = << >>
  /\ nid' = eeprom[NID]
  /\ ev' = [i \in Index |-> eeprom[EVENT(i)]]
  /\ phase' = "up"
  /\ UNCHANGED <<eeprom, todo, count, ops, history>>

(* writeByte(): the next cell of the current call. *)
WriteCell ==
  /\ todo # << >>
  /\ eeprom' = [eeprom EXCEPT ![Head(todo).cell] = Head(todo).val]
  /\ todo' = Tail(todo)
  /\ UNCHANGED <<phase, nid, ev, count, ops, history>>

----------------------------------------------------------------------------
Operation == phase = "up" /\ todo = << >> /\ ops < MaxOps /\ ops' = ops + 1

(* Mutant: the application does not call store(). *)
LearnUnstored(i, e) ==
  /\ Operation
  /\ ev' = [ev EXCEPT ![i] = e]
  /\ UNCHANGED <<eeprom, todo, phase, nid, count, history>>

(* An event is learned and the application calls store(). *)
Learn(i, e) ==
  /\ Operation
  /\ ev' = [ev EXCEPT ![i] = e]
  /\ todo' = StoreWrites(count, nid, ev')
  /\ edited' = {}
  /\ UNCHANGED <<eeprom, phase, nid, count, given, gifts>>

(* What a tool writes into a cell: any bytes of a tag, and where an ID      *)
(* belongs an ID, not a blank or cleared cell.                             *)
Written(c) ==
  CASE c = TAG01 -> {"EE55", Blank}
    [] c = TAG2 -> {"5E", "33", Blank}
    [] c = TAG3 -> {"E5", "CC", Blank}
    [] c = COUNT -> Counts \cup {Blank}
    [] c = NID -> NodeIDs
    [] OTHER -> Taught

(* A configuration tool writes a cell: getWrite() looks at no address.  It  *)
(* is a name behind the events, an event, or what the node keeps for       *)
(* itself: the tag, the count and the node ID.                             *)
Edit(c, e) ==
  /\ Operation
  /\ todo' = <<W(c, e)>>
  /\ edited' = edited \cup {c}
  /\ UNCHANGED <<eeprom, phase, nid, ev, count, given, gifts>>

(* Mutant: the bytes of the tag are swapped. *)
SwappedTag ==
  /\ Operation
  /\ todo' = <<W(TAG2, "CC"), W(TAG3, "33")>>
  /\ UNCHANGED <<eeprom, phase, nid, ev, count, history>>

(* forceInitEvents(), from the buttons or as "User clear" from a tool. *)
forceInitEvents ==
  /\ Operation
  /\ todo' = <<W(TAG2, "33"), W(TAG3, "CC")>>
  /\ UNCHANGED <<eeprom, phase, nid, ev, count, history>>

(* The power fails, or the board is restarted: the RAM is lost. *)
PowerOff ==
  /\ phase # "off" /\ ops < MaxOps /\ ops' = ops + 1
  /\ Torn \/ todo = << >>
  /\ phase' = "off"
  /\ todo' = << >>
  /\ nid' = MyID
  /\ ev' = [i \in Index |-> Blank]
  /\ count' = 0
  /\ UNCHANGED <<eeprom, history>>

Next ==
  \/ forceInitAll \/ SetupNidOK \/ SetupInvalid \/ SetupAllOK \/ Load \/ WriteCell
  \/ \E e \in Taught, i \in Index : Learn(i, e)
  \/ \E c \in Editable : \E e \in Written(c) : Edit(c, e)
  \/ forceInitEvents
  \/ PowerOff

Spec == Init /\ [][Next]_vars

----------------------------------------------------------------------------
Serial == 0 .. CountWrap - 1
Names == NodeIDs \cup {MyID}
Owner == Names \cup {Blank, Zero}
Value == Taught \cup (Owner \X Serial) \cup {Blank, Zero}

TypeOK ==
  /\ eeprom[TAG01] \in {"EE55", Blank}
  /\ eeprom[TAG2] \in {"5E", "33", Blank}
  /\ eeprom[TAG3] \in {"E5", "CC", Blank}
  /\ eeprom[COUNT] \in Serial \cup {Blank}
  /\ eeprom[NID] \in Owner
  /\ eeprom[REST] \in Taught \cup {Blank, Zero}
  /\ \A i \in Index : eeprom[EVENT(i)] \in Value
  /\ todo = << >> \/ Head(todo).cell \in Cell
  /\ phase \in {"off", "setup", "up"}
  /\ nid \in Owner /\ ev \in [Index -> Value]
  /\ count \in Serial /\ ops \in 0 .. MaxOps
  /\ edited \subseteq Cell

(* "all memory valid, use as is", "Node ID valid": when the power is off   *)
(* the tag promises no more than the memory holds, whatever a tool has     *)
(* made of the tag.                                                        *)
TagSound ==
  phase = "off" =>
    /\ checkAllOK => /\ eeprom[NID] \in Names
                     /\ \A i \in Index : eeprom[EVENT(i)] \notin {Blank, Zero}
    /\ checkNidOK => eeprom[NID] \in Names

(* A node in operation has in EEPROM the events it works with, save those  *)
(* a tool has written there since.                                         *)
StoredEvents ==
  phase = "up" /\ todo = << >> => \A i \in Index : EVENT(i) \in edited \/ eeprom[EVENT(i)] = ev[i]

(* "Get a new, forever unique EventID": no event ID is given out twice     *)
(* (since the last complete reload).                                       *)
ForeverUnique == Cardinality(given) = gifts
============================================================================
