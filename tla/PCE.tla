-------------------------------- MODULE PCE --------------------------------
(***************************************************************************)
(* The producer/consumer event handler of a node (class PCE).  It keeps an *)
(* array of events with flags, and an index sendEvent from which check()   *)
(* looks for the next event with something to send.  The handlers and the  *)
(* application only set flags and lower the index; check() sends one frame *)
(* per loop pass and raises the index.  The hazard is the index running    *)
(* past an event that has still something to send.                         *)
(*                                                                         *)
(* The loop is sequential, so that every call is one step.  A call that    *)
(* sends waits until the controller has taken the frame.  The callback     *)
(* for consumed events belongs to the application and leaves this state    *)
(* alone.                                                                  *)
(***************************************************************************)
EXTENDS Integers, FiniteSets

CONSTANTS
  nEvents,    \* length of the event array
  EventID,    \* the event IDs that occur
  Roles,      \* what newEvent() makes of each event
  MaxCalls    \* bound: calls and frames that ask for something

ASSUME PCEAssumption ==
  /\ nEvents \in Nat
  /\ EventID # {}
  /\ Roles \in [0 .. nEvents - 1 -> SUBSET {"CAN_PRODUCE", "CAN_CONSUME"}]
  /\ MaxCalls \in Nat

Index == 0 .. nEvents - 1
Role == {"CAN_PRODUCE", "CAN_CONSUME"}
Flag == {"IDENT", "PRODUCE", "LEARN", "TEACH"} \cup Role

VARIABLES
  id,         \* the event ID of each element of the array
  flags,      \* the flags set in each element
  sendEvent,  \* the element check() looks at next
  calls,      \* calls and frames so far
  owed        \* history: frames asked for and not yet sent

vars == <<id, flags, sendEvent, calls, owed>>

(* The frames the handler may owe for an event: Producer Identified,       *)
(* Consumer Identified, an event report and a teach message.               *)
Duty == {"PI", "CI", "REPORT", "TEACH"}

(* To identify an element means one frame for each of its roles. *)
Identify(roles) ==
  {d \in {"PI", "CI"} : \/ d = "PI" /\ "CAN_PRODUCE" \in roles
                        \/ d = "CI" /\ "CAN_CONSUME" \in roles}

(* sendEvent = sendEvent < i ? sendEvent : i, for every i of S, from s on: *)
(* the least of them all.                                                  *)
LowerFrom(s, S) == sendEvent' \in {k \in S \cup {s} : \A i \in S \cup {s} : k <= i}
Lower(S) == LowerFrom(sendEvent, S)

(* The element i owes the frames of D as well. *)
Owe(i, D) == owed' = [owed EXCEPT ![i] = @ \cup D]

(* The constructor clears the roles an event was declared with. *)
Init ==
  /\ id \in [Index -> EventID]
  /\ \E declared \in [Index -> SUBSET Role] :
       flags = [i \in Index |-> IF declared[i] = {} THEN {} ELSE {"IDENT"}]
  /\ sendEvent = 0
  /\ calls = 0
  /\ owed = [i \in Index |-> {}]

(* The application or the bus asks for something; MaxCalls bounds it. *)
Call == calls < MaxCalls /\ calls' = calls + 1

----------------------------------------------------------------------------
(* Calls of the application. *)

newEvent(i) ==
  /\ Call
  /\ flags' = [flags EXCEPT ![i] = @ \cup {"IDENT"} \cup Roles[i]]
  /\ Lower({i})
  /\ Owe(i, Identify(flags[i] \cup Roles[i]))
  /\ UNCHANGED id

(* Mutant: the index stays where it is. *)
produceAhead(i) ==
  /\ Call
  /\ "CAN_PRODUCE" \in flags[i]
  /\ flags' = [flags EXCEPT ![i] = @ \cup {"PRODUCE"}]
  /\ Owe(i, {"REPORT"})
  /\ UNCHANGED <<id, sendEvent>>

produce(i) ==
  /\ Call
  /\ "CAN_PRODUCE" \in flags[i]
  /\ flags' = [flags EXCEPT ![i] = @ \cup {"PRODUCE"}]
  /\ Lower({i})
  /\ Owe(i, {"REPORT"})
  /\ UNCHANGED id

markToLearn(i, mark) ==
  /\ flags' = [flags EXCEPT ![i] = IF mark THEN @ \cup {"LEARN"} ELSE @ \ {"LEARN"}]
  /\ UNCHANGED <<id, sendEvent, calls, owed>>

sendTeach(i) ==
  /\ Call
  /\ flags' = [flags EXCEPT ![i] = @ \cup {"TEACH"}]
  /\ Lower({i})
  /\ Owe(i, {"TEACH"})
  /\ UNCHANGED id

----------------------------------------------------------------------------
(* Event e is taught while the flags are fl and the index is s: the marked *)
(* elements take it and are identified anew.  The application's store(),   *)
(* called when there are any, is Learn of module NodeMemory.               *)
Learners(fl) == {i \in Index : "LEARN" \in fl[i]}

handleLearnEvent(e, fl, s) ==
  LET L == Learners(fl) IN
  /\ id' = [i \in Index |-> IF i \in L THEN e ELSE id[i]]
  /\ flags' = [i \in Index |->
                 IF i \in L THEN (fl[i] \cup {"IDENT"}) \ {"LEARN"} ELSE fl[i]]
  /\ LowerFrom(s, L)

(* The frames owed when the elements of S are identified in roles[i]. *)
OweAll(S, roles, o) ==
  owed' = [i \in Index |-> IF i \in S THEN o[i] \cup Identify(roles[i]) ELSE o[i]]

(* sendTeach(Event) sends at once, past the flags. *)
sendTeachEvent(e) ==
  /\ Call
  /\ handleLearnEvent(e, flags, sendEvent)
  /\ OweAll(Learners(flags), flags, owed)

----------------------------------------------------------------------------
(* receivedFrame(). *)

(* Identify Consumers and Identify Producers: the elements with event e in *)
(* that role.                                                              *)
IdentifyRole(e, role) ==
  LET S == {i \in Index : id[i] = e /\ role \in flags[i]} IN
  /\ Call
  /\ flags' = [i \in Index |-> IF i \in S THEN flags[i] \cup {"IDENT"} ELSE flags[i]]
  /\ Lower(S)
  /\ OweAll(S, [i \in Index |-> {role}], owed)
  /\ UNCHANGED id

(* Mutant: the index stays where it is. *)
IdentifyAhead ==
  /\ Call
  /\ flags' = [i \in Index |-> flags[i] \cup {"IDENT"}]
  /\ OweAll(Index, flags, owed)
  /\ UNCHANGED <<id, sendEvent>>

IdentifyEvents ==
  /\ Call
  /\ flags' = [i \in Index |-> flags[i] \cup {"IDENT"}]
  /\ sendEvent' = 0
  /\ OweAll(Index, flags, owed)
  /\ UNCHANGED id

LearnEvent(e) ==
  /\ Call
  /\ handleLearnEvent(e, flags, sendEvent)
  /\ OweAll(Learners(flags), flags, owed)

----------------------------------------------------------------------------
(* check(): the first element from sendEvent on with something to send. *)
Identifiable(i) == "IDENT" \in flags[i] /\ flags[i] \cap Role # {}
Busy(i) == Identifiable(i) \/ "PRODUCE" \in flags[i] \/ "TEACH" \in flags[i]

First(i) ==
  /\ sendEvent <= i /\ Busy(i)
  /\ \A j \in Index : sendEvent <= j /\ j < i => ~Busy(j)

Sent(i, d) == owed' = [owed EXCEPT ![i] = @ \ {d}]

(* An element with both roles is identified as a producer only. *)
Identification(i) == IF "CAN_PRODUCE" \in flags[i] THEN "PI" ELSE "CI"

SendIdentified(i) ==
  /\ First(i) /\ Identifiable(i)
  /\ flags' = [flags EXCEPT ![i] = @ \ {"IDENT"}]
  /\ Sent(i, Identification(i))
  /\ sendEvent' = i
  /\ UNCHANGED <<id, calls>>

(* Mutant: the index moves on after a report, past a teach message. *)
SendReportAdvance(i) ==
  /\ First(i) /\ ~Identifiable(i) /\ "PRODUCE" \in flags[i]
  /\ flags' = [flags EXCEPT ![i] = @ \ {"PRODUCE"}]
  /\ Sent(i, "REPORT")
  /\ sendEvent' = i + 1
  /\ UNCHANGED <<id, calls>>

(* Mutant: the flag is not reset. *)
SendReportAgain(i) ==
  /\ First(i) /\ ~Identifiable(i) /\ "PRODUCE" \in flags[i]
  /\ Sent(i, "REPORT")
  /\ sendEvent' = i
  /\ UNCHANGED <<id, flags, calls>>

SendReport(i) ==
  /\ First(i) /\ ~Identifiable(i) /\ "PRODUCE" \in flags[i]
  /\ flags' = [flags EXCEPT ![i] = @ \ {"PRODUCE"}]
  /\ Sent(i, "REPORT")
  /\ sendEvent' = i
  /\ UNCHANGED <<id, calls>>

(* A node learns from its own teaching, too. *)
SendTaught(i) ==
  LET fl == [flags EXCEPT ![i] = @ \ {"TEACH"}] IN
  /\ First(i) /\ ~Identifiable(i) /\ "PRODUCE" \notin flags[i]
  /\ handleLearnEvent(id[i], fl, i)
  /\ OweAll(Learners(fl), fl, [owed EXCEPT ![i] = @ \ {"TEACH"}])
  /\ UNCHANGED calls

(* Mutant: the loop of check() takes one element too many. *)
NothingToSendBeyond ==
  /\ sendEvent <= nEvents
  /\ \A i \in Index : sendEvent <= i => ~Busy(i)
  /\ sendEvent' = nEvents + 1
  /\ UNCHANGED <<id, flags, calls, owed>>

NothingToSend ==
  /\ sendEvent < nEvents
  /\ \A i \in Index : sendEvent <= i => ~Busy(i)
  /\ sendEvent' = nEvents
  /\ UNCHANGED <<id, flags, calls, owed>>

check ==
  \/ \E i \in Index : SendIdentified(i) \/ SendReport(i) \/ SendTaught(i)
  \/ NothingToSend

Next ==
  \/ \E i \in Index :
       \/ newEvent(i) \/ produce(i) \/ sendTeach(i)
       \/ \E mark \in BOOLEAN : markToLearn(i, mark)
  \/ \E e \in EventID :
       \/ sendTeachEvent(e) \/ LearnEvent(e)
       \/ \E role \in Role : IdentifyRole(e, role)
  \/ IdentifyEvents
  \/ check

Spec == Init /\ [][Next]_vars

(* The loop calls check() on every pass. *)
FairSpec == Spec /\ WF_vars(check)

----------------------------------------------------------------------------
(* Types; and an event has no role that newEvent() did not give it. *)
TypeOK ==
  /\ id \in [Index -> EventID]
  /\ flags \in [Index -> SUBSET Flag]
  /\ \A i \in Index : flags[i] \cap Role \subseteq Roles[i]
  /\ sendEvent \in 0 .. nEvents
  /\ calls \in 0 .. MaxCalls
  /\ owed \in [Index -> SUBSET Duty]

(* The frame d of element i is still to come: its flag is set and check()  *)
(* has the element ahead of it.                                            *)
Ahead(i, d) ==
  /\ sendEvent <= i
  /\ d = "REPORT" => "PRODUCE" \in flags[i]
  /\ d = "TEACH" => "TEACH" \in flags[i]
  /\ d = "PI" => {"IDENT", "CAN_PRODUCE"} \subseteq flags[i]
  /\ d = "CI" => {"IDENT", "CAN_CONSUME"} \subseteq flags[i]

(* check() never runs past an event report or a teach message that was     *)
(* asked for, however calls, frames and passes alternate.                  *)
NoLostReport ==
  \A i \in Index : \A d \in owed[i] \cap {"REPORT", "TEACH"} : Ahead(i, d)

(* The same of the identification frames. *)
NoLostIdentify ==
  \A i \in Index : \A d \in owed[i] \cap {"PI", "CI"} : Ahead(i, d)

(* What check() is going to send has been asked for and not been sent: it  *)
(* repeats nothing and makes nothing up.                                   *)
NothingUnasked ==
  \A i \in Index :
    /\ "PRODUCE" \in flags[i] => "REPORT" \in owed[i]
    /\ "TEACH" \in flags[i] => "TEACH" \in owed[i]
    /\ Identifiable(i) => Identification(i) \in owed[i]

(* No event has both roles. *)
OneRole == \A i \in Index : Roles[i] # Role

(* Nothing is owed: every frame asked for has been sent. *)
AllSent == \A i \in Index : owed[i] = {}

(* When the calls and frames pause, everything asked for is sent. *)
EverythingSent == <>[]AllSent
============================================================================
