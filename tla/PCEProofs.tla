----------------------------- MODULE PCEProofs -----------------------------
(***************************************************************************)
(* What PCE promises for every number of events, every set of event IDs    *)
(* and every number of calls.  TypeCorrect comes first; the invariants     *)
(* are proved over it.                                                     *)
(***************************************************************************)
EXTENDS PCE, TLAPS

(* The index after LowerFrom(s, S) is s or in S, and below all of them. *)
LEMMA LowerFromBounds ==
  ASSUME NEW s \in 0 .. nEvents, NEW S \in SUBSET Index, LowerFrom(s, S)
  PROVE  /\ sendEvent' \in 0 .. nEvents
         /\ sendEvent' <= s
         /\ \A i \in S : sendEvent' <= i
BY PCEAssumption DEF LowerFrom, Index

(* A learn message leaves the types alone. *)
LEMMA LearnType ==
  ASSUME TypeOK,
         NEW e \in EventID, NEW fl \in [Index -> SUBSET Flag], NEW s \in 0 .. nEvents,
         \A i \in Index : fl[i] \cap Role \subseteq Roles[i],
         handleLearnEvent(e, fl, s)
  PROVE  /\ id' \in [Index -> EventID]
         /\ flags' \in [Index -> SUBSET Flag]
         /\ \A i \in Index : flags'[i] \cap Role \subseteq Roles[i]
         /\ sendEvent' \in 0 .. nEvents
<1>1. Learners(fl) \in SUBSET Index
  BY DEF Learners
<1>2. sendEvent' \in 0 .. nEvents
  BY <1>1, LowerFromBounds DEF handleLearnEvent
<1>3. id' \in [Index -> EventID]
  BY DEF handleLearnEvent, TypeOK
<1>4. flags' \in [Index -> SUBSET Flag]
  BY DEF handleLearnEvent, Flag, TypeOK
<1>5. \A i \in Index : flags'[i] \cap Role \subseteq Roles[i]
  BY DEF handleLearnEvent, Role
<1> QED BY <1>2, <1>3, <1>4, <1>5

(* Owing more frames, or fewer, leaves the type of owed alone. *)
LEMMA OweAllType ==
  ASSUME NEW S \in SUBSET Index, NEW roles, NEW o \in [Index -> SUBSET Duty],
         OweAll(S, roles, o)
  PROVE  owed' \in [Index -> SUBSET Duty]
BY DEF OweAll, Identify, Duty

(* Every value a variable takes is of the variable's type. *)
THEOREM TypeCorrect == Spec => []TypeOK
<1>1. Init => TypeOK
  <2> SUFFICES ASSUME Init PROVE TypeOK
    OBVIOUS
  <2>1. /\ flags \in [Index -> SUBSET Flag]
        /\ \A i \in Index : flags[i] \cap Role \subseteq Roles[i]
    BY DEF Init, Flag, Role
  <2>2. owed \in [Index -> SUBSET Duty]
    BY DEF Init
  <2> QED BY <2>1, <2>2, PCEAssumption DEF Init, TypeOK
<1>2. TypeOK /\ [Next]_vars => TypeOK'
  <2> SUFFICES ASSUME TypeOK, [Next]_vars PROVE TypeOK'
    OBVIOUS
  <2> USE PCEAssumption
  <2>1. ASSUME NEW i \in Index, newEvent(i) PROVE TypeOK'
    <3>1. sendEvent' \in 0 .. nEvents
      BY <2>1, LowerFromBounds DEF newEvent, Lower, TypeOK
    <3>2. /\ flags' \in [Index -> SUBSET Flag]
          /\ \A j \in Index : flags'[j] \cap Role \subseteq Roles[j]
      BY <2>1 DEF newEvent, TypeOK, Flag, Role, Index
    <3>3. owed' \in [Index -> SUBSET Duty]
      BY <2>1 DEF newEvent, Owe, Identify, Duty, TypeOK
    <3> QED BY <2>1, <3>1, <3>2, <3>3 DEF newEvent, Call, TypeOK
  <2>2. ASSUME NEW i \in Index, produce(i) PROVE TypeOK'
    <3>1. sendEvent' \in 0 .. nEvents
      BY <2>2, LowerFromBounds DEF produce, Lower, TypeOK
    <3>2. /\ flags' \in [Index -> SUBSET Flag]
          /\ \A j \in Index : flags'[j] \cap Role \subseteq Roles[j]
      BY <2>2 DEF produce, TypeOK, Flag, Role
    <3>3. owed' \in [Index -> SUBSET Duty]
      BY <2>2 DEF produce, Owe, Duty, TypeOK
    <3> QED BY <2>2, <3>1, <3>2, <3>3 DEF produce, Call, TypeOK
  <2>3. ASSUME NEW i \in Index, sendTeach(i) PROVE TypeOK'
    <3>1. sendEvent' \in 0 .. nEvents
      BY <2>3, LowerFromBounds DEF sendTeach, Lower, TypeOK
    <3>2. /\ flags' \in [Index -> SUBSET Flag]
          /\ \A j \in Index : flags'[j] \cap Role \subseteq Roles[j]
      BY <2>3 DEF sendTeach, TypeOK, Flag, Role
    <3>3. owed' \in [Index -> SUBSET Duty]
      BY <2>3 DEF sendTeach, Owe, Duty, TypeOK
    <3> QED BY <2>3, <3>1, <3>2, <3>3 DEF sendTeach, Call, TypeOK
  <2>4. ASSUME NEW i \in Index, NEW mark \in BOOLEAN, markToLearn(i, mark) PROVE TypeOK'
    <3>1. /\ flags' \in [Index -> SUBSET Flag]
          /\ \A j \in Index : flags'[j] \cap Role \subseteq Roles[j]
      BY <2>4 DEF markToLearn, TypeOK, Flag, Role
    <3> QED BY <2>4, <3>1 DEF markToLearn, TypeOK
  <2>5. ASSUME NEW e \in EventID, sendTeachEvent(e) \/ LearnEvent(e) PROVE TypeOK'
    <3>1. handleLearnEvent(e, flags, sendEvent) /\ OweAll(Learners(flags), flags, owed)
      BY <2>5 DEF sendTeachEvent, LearnEvent
    <3>2. owed' \in [Index -> SUBSET Duty]
      BY <3>1, OweAllType DEF TypeOK, Learners
    <3>3. calls' \in 0 .. MaxCalls
      BY <2>5 DEF sendTeachEvent, LearnEvent, Call, TypeOK
    <3> QED BY <3>1, <3>2, <3>3, LearnType DEF TypeOK
  <2>6. ASSUME NEW e \in EventID, NEW role \in Role, IdentifyRole(e, role) PROVE TypeOK'
    <3> DEFINE S == {i \in Index : id[i] = e /\ role \in flags[i]}
    <3>1. S \in SUBSET Index /\ LowerFrom(sendEvent, S) /\ OweAll(S, [i \in Index |-> {role}], owed)
      BY <2>6 DEF IdentifyRole, Lower
    <3>2. sendEvent' \in 0 .. nEvents
      BY <3>1, LowerFromBounds DEF TypeOK
    <3>3. owed' \in [Index -> SUBSET Duty]
      BY <3>1, OweAllType DEF TypeOK
    <3>4. /\ flags' \in [Index -> SUBSET Flag]
          /\ \A j \in Index : flags'[j] \cap Role \subseteq Roles[j]
      BY <2>6 DEF IdentifyRole, TypeOK, Flag, Role
    <3> QED BY <2>6, <3>2, <3>3, <3>4 DEF IdentifyRole, Call, TypeOK
  <2>7. ASSUME IdentifyEvents PROVE TypeOK'
    <3>1. owed' \in [Index -> SUBSET Duty]
      BY <2>7, OweAllType DEF IdentifyEvents, TypeOK
    <3>2. /\ flags' \in [Index -> SUBSET Flag]
          /\ \A j \in Index : flags'[j] \cap Role \subseteq Roles[j]
      BY <2>7 DEF IdentifyEvents, TypeOK, Flag, Role
    <3> QED BY <2>7, <3>1, <3>2 DEF IdentifyEvents, Call, TypeOK
  <2>8. ASSUME NEW i \in Index, SendIdentified(i) \/ SendReport(i) PROVE TypeOK'
    <3>1. /\ flags' \in [Index -> SUBSET Flag]
          /\ \A j \in Index : flags'[j] \cap Role \subseteq Roles[j]
      BY <2>8 DEF SendIdentified, SendReport, TypeOK, Role
    <3>2. owed' \in [Index -> SUBSET Duty]
      BY <2>8 DEF SendIdentified, SendReport, Sent, TypeOK
    <3>3. sendEvent' \in 0 .. nEvents
      BY <2>8 DEF SendIdentified, SendReport, Index
    <3> QED BY <2>8, <3>1, <3>2, <3>3 DEF SendIdentified, SendReport, TypeOK
  <2>9. ASSUME NEW i \in Index, SendTaught(i) PROVE TypeOK'
    <3> DEFINE fl == [flags EXCEPT ![i] = @ \ {"TEACH"}]
    <3> DEFINE o == [owed EXCEPT ![i] = @ \ {"TEACH"}]
    <3>1. /\ fl \in [Index -> SUBSET Flag] /\ o \in [Index -> SUBSET Duty]
          /\ \A j \in Index : fl[j] \cap Role \subseteq Roles[j]
      BY DEF TypeOK, Role
    <3>2. handleLearnEvent(id[i], fl, i) /\ OweAll(Learners(fl), fl, o)
      BY <2>9 DEF SendTaught
    <3>3. id[i] \in EventID /\ i \in 0 .. nEvents /\ Learners(fl) \in SUBSET Index
      BY DEF TypeOK, Index, Learners
    <3>4. owed' \in [Index -> SUBSET Duty]
      <4> HIDE DEF fl, o
      <4> QED BY <3>1, <3>2, <3>3, OweAllType
    <3>5. /\ id' \in [Index -> EventID] /\ flags' \in [Index -> SUBSET Flag]
          /\ \A j \in Index : flags'[j] \cap Role \subseteq Roles[j]
          /\ sendEvent' \in 0 .. nEvents
      <4> HIDE DEF fl
      <4> QED BY <3>1, <3>2, <3>3, LearnType
    <3> QED BY <2>9, <3>4, <3>5 DEF SendTaught, TypeOK
  <2>10. CASE NothingToSend
    BY <2>10 DEF NothingToSend, TypeOK
  <2>11. CASE UNCHANGED vars
    BY <2>11 DEF vars, TypeOK
  <2> QED BY <2>1, <2>2, <2>3, <2>4, <2>5, <2>6, <2>7, <2>8, <2>9, <2>10, <2>11
          DEF Next, check
<1> QED BY <1>1, <1>2, PTL DEF Spec

----------------------------------------------------------------------------
(***************************************************************************)
(* NoLostReport and NoLostIdentify are inductive over TypeOK.  The steps   *)
(* that set flags lower the index to each flag they set; the steps of      *)
(* check() move it only to the first busy element.                         *)
(***************************************************************************)

(* A learn message touches neither kind of flag, and lowers the index. *)
LEMMA LearnKeepsReports ==
  ASSUME NEW e, NEW fl \in [Index -> SUBSET Flag], NEW s \in 0 .. nEvents,
         NEW o \in [Index -> SUBSET Duty],
         handleLearnEvent(e, fl, s), OweAll(Learners(fl), fl, o),
         NEW i \in Index, NEW d \in owed'[i] \cap {"REPORT", "TEACH"}
  PROVE  /\ d \in o[i]
         /\ sendEvent' <= s /\ sendEvent' \in 0 .. nEvents
         /\ \A f \in {"PRODUCE", "TEACH"} : f \in fl[i] => f \in flags'[i]
<1>1. Learners(fl) \in SUBSET Index
  BY DEF Learners
<1>2. sendEvent' <= s /\ sendEvent' \in 0 .. nEvents
  BY <1>1, LowerFromBounds DEF handleLearnEvent
<1>3. d \in o[i]
  BY DEF OweAll, Identify
<1>4. \A f \in {"PRODUCE", "TEACH"} : f \in fl[i] => f \in flags'[i]
  BY DEF handleLearnEvent
<1> QED BY <1>2, <1>3, <1>4

(* An element that owes a report or a teach message is busy. *)
LEMMA OwingIsBusy ==
  ASSUME NoLostReport, NEW i \in Index, NEW d \in owed[i] \cap {"REPORT", "TEACH"}
  PROVE  Ahead(i, d) /\ Busy(i) /\ sendEvent <= i
BY DEF NoLostReport, Ahead, Busy

(* No event report and no teach message that was asked for is lost. *)
THEOREM ReportsNeverLost == Spec => []NoLostReport
<1>1. Init => NoLostReport
  BY DEF Init, NoLostReport
<1>2. TypeOK /\ TypeOK' /\ NoLostReport /\ [Next]_vars => NoLostReport'
  <2> SUFFICES ASSUME TypeOK, TypeOK', NoLostReport, [Next]_vars,
                      NEW i \in Index, NEW d \in owed'[i] \cap {"REPORT", "TEACH"}
               PROVE  Ahead(i, d)'
    BY DEF NoLostReport
  <2> USE PCEAssumption
  <2>0. /\ sendEvent \in 0 .. nEvents /\ sendEvent' \in 0 .. nEvents
        /\ flags \in [Index -> SUBSET Flag] /\ owed \in [Index -> SUBSET Duty]
    BY DEF TypeOK
  <2>1. ASSUME NEW k \in Index, newEvent(k) \/ produce(k) \/ sendTeach(k) PROVE Ahead(i, d)'
    <3>1. sendEvent' <= sendEvent /\ sendEvent' <= k
      BY <2>0, <2>1, LowerFromBounds DEF newEvent, produce, sendTeach, Lower
    <3>2. CASE d \in owed[i]
      BY <2>0, <2>1, <3>1, <3>2, OwingIsBusy
         DEF newEvent, produce, sendTeach, Ahead, Index
    <3>3. CASE d \notin owed[i]
      BY <2>0, <2>1, <3>1, <3>3
         DEF newEvent, produce, sendTeach, Owe, Identify, Ahead, Index
    <3> QED BY <3>2, <3>3
  <2>2. ASSUME NEW k \in Index, NEW mark \in BOOLEAN, markToLearn(k, mark)
        PROVE  Ahead(i, d)'
    BY <2>0, <2>2, OwingIsBusy DEF markToLearn, Ahead
  <2>3. ASSUME NEW e \in EventID, sendTeachEvent(e) \/ LearnEvent(e) PROVE Ahead(i, d)'
    <3>1. handleLearnEvent(e, flags, sendEvent) /\ OweAll(Learners(flags), flags, owed)
      BY <2>3 DEF sendTeachEvent, LearnEvent
    <3>2. /\ d \in owed[i] /\ sendEvent' <= sendEvent
          /\ \A f \in {"PRODUCE", "TEACH"} : f \in flags[i] => f \in flags'[i]
      BY <2>0, <3>1, LearnKeepsReports
    <3> QED BY <2>0, <3>2, OwingIsBusy DEF Ahead, Index
  <2>4. ASSUME NEW e \in EventID, NEW role \in Role, IdentifyRole(e, role) PROVE Ahead(i, d)'
    <3> DEFINE S == {k \in Index : id[k] = e /\ role \in flags[k]}
    <3>1. LowerFrom(sendEvent, S) /\ OweAll(S, [k \in Index |-> {role}], owed)
      BY <2>4 DEF IdentifyRole, Lower
    <3>2. sendEvent' <= sendEvent
      BY <2>0, <3>1, LowerFromBounds
    <3>3. d \in owed[i]
      BY <3>1 DEF OweAll, Identify
    <3>4. flags[i] \subseteq flags'[i]
      BY <2>4 DEF IdentifyRole
    <3> QED BY <2>0, <3>2, <3>3, <3>4, OwingIsBusy DEF Ahead, Index
  <2>5. ASSUME IdentifyEvents PROVE Ahead(i, d)'
    <3>1. d \in owed[i] /\ flags[i] \subseteq flags'[i] /\ sendEvent' <= sendEvent
      BY <2>0, <2>5 DEF IdentifyEvents, OweAll, Identify
    <3> QED BY <2>0, <3>1, OwingIsBusy DEF Ahead, Index
  <2>6. ASSUME NEW k \in Index, SendIdentified(k) \/ SendReport(k) PROVE Ahead(i, d)'
    <3>1. d \in owed[i] /\ First(k) /\ sendEvent' = k /\ ~(k = i /\ SendReport(k) /\ d = "REPORT")
      BY <2>0, <2>6 DEF SendIdentified, SendReport, Sent
    <3>2. k <= i
      BY <2>0, <3>1, OwingIsBusy DEF First, Index
    <3>3. \A f \in {"PRODUCE", "TEACH"} :
            f \in flags[i] => f \in flags'[i] \/ (k = i /\ SendReport(k) /\ f = "PRODUCE")
      BY <2>0, <2>6 DEF SendIdentified, SendReport
    <3> QED BY <2>0, <3>1, <3>2, <3>3, OwingIsBusy DEF Ahead, Index
  <2>7. ASSUME NEW k \in Index, SendTaught(k) PROVE Ahead(i, d)'
    <3> DEFINE fl == [flags EXCEPT ![k] = @ \ {"TEACH"}]
    <3> DEFINE o == [owed EXCEPT ![k] = @ \ {"TEACH"}]
    <3>1. fl \in [Index -> SUBSET Flag] /\ o \in [Index -> SUBSET Duty] /\ k \in 0 .. nEvents
      BY <2>0 DEF Index
    <3>2. handleLearnEvent(id[k], fl, k) /\ OweAll(Learners(fl), fl, o) /\ First(k)
      BY <2>7 DEF SendTaught
    <3>3. /\ d \in o[i] /\ sendEvent' <= k
          /\ \A f \in {"PRODUCE", "TEACH"} : f \in fl[i] => f \in flags'[i]
      <4> HIDE DEF fl, o
      <4> QED BY <3>1, <3>2, LearnKeepsReports
    <3>4. d \in owed[i] /\ ~(k = i /\ d = "TEACH")
      BY <2>0, <3>3
    <3>5. k <= i
      BY <2>0, <3>2, <3>4, OwingIsBusy DEF First, Index
    <3>6. \A f \in {"PRODUCE", "TEACH"} :
            f \in flags[i] /\ ~(k = i /\ f = "TEACH") => f \in flags'[i]
      BY <2>0, <3>3
    <3> QED BY <2>0, <3>3, <3>4, <3>5, <3>6, OwingIsBusy DEF Ahead, Index
  <2>8. CASE NothingToSend
    BY <2>0, <2>8, OwingIsBusy DEF NothingToSend, Ahead
  <2>9. CASE UNCHANGED vars
    BY <2>9, OwingIsBusy DEF vars, Ahead
  <2> QED BY <2>1, <2>2, <2>3, <2>4, <2>5, <2>6, <2>7, <2>8, <2>9 DEF Next, check
<1> QED BY <1>1, <1>2, TypeCorrect, PTL DEF Spec

(* A learn message owes its identification frames for marked elements only, *)
(* whose flag it sets and to which it lowers the index.                     *)
LEMMA LearnKeepsIdentifies ==
  ASSUME NEW e, NEW fl \in [Index -> SUBSET Flag], NEW s \in 0 .. nEvents,
         NEW o \in [Index -> SUBSET Duty],
         handleLearnEvent(e, fl, s), OweAll(Learners(fl), fl, o),
         NEW i \in Index, NEW d \in owed'[i] \cap {"PI", "CI"}
  PROVE  /\ sendEvent' <= s /\ sendEvent' \in 0 .. nEvents
         /\ fl[i] \cap ({"IDENT"} \cup Role) \subseteq flags'[i]
         /\ \/ d \in o[i]
            \/ /\ sendEvent' <= i /\ "IDENT" \in flags'[i]
               /\ d = "PI" => "CAN_PRODUCE" \in flags'[i]
               /\ d = "CI" => "CAN_CONSUME" \in flags'[i]
<1>1. Learners(fl) \in SUBSET Index
  BY DEF Learners
<1>2. /\ sendEvent' <= s /\ sendEvent' \in 0 .. nEvents
      /\ \A k \in Learners(fl) : sendEvent' <= k
  BY <1>1, LowerFromBounds DEF handleLearnEvent
<1>3. fl[i] \cap ({"IDENT"} \cup Role) \subseteq flags'[i]
  BY DEF handleLearnEvent, Role
<1>4. CASE i \in Learners(fl)
  <2>1. "IDENT" \in flags'[i]
    BY <1>4 DEF handleLearnEvent
  <2>2. d \in o[i] \/ d \in Identify(fl[i])
    BY <1>4 DEF OweAll
  <2> QED BY <1>2, <1>3, <1>4, <2>1, <2>2 DEF Identify, Role
<1>5. CASE i \notin Learners(fl)
  BY <1>2, <1>3, <1>5 DEF OweAll
<1> QED BY <1>4, <1>5

(* An element that owes an identification frame is busy. *)
LEMMA OwingIsIdentifiable ==
  ASSUME NoLostIdentify, NEW i \in Index, NEW d \in owed[i] \cap {"PI", "CI"}
  PROVE  /\ Ahead(i, d) /\ Busy(i) /\ Identifiable(i) /\ sendEvent <= i
         /\ "IDENT" \in flags[i]
BY DEF NoLostIdentify, Ahead, Busy, Identifiable, Role

(* When no event has both roles, no identification frame that was asked    *)
(* for is lost.                                                            *)
THEOREM IdentifiesNeverLost ==
  ASSUME OneRole
  PROVE  Spec => []NoLostIdentify
<1>1. Init => NoLostIdentify
  BY DEF Init, NoLostIdentify
<1>2. TypeOK /\ TypeOK' /\ NoLostIdentify /\ [Next]_vars => NoLostIdentify'
  <2> SUFFICES ASSUME TypeOK, TypeOK', NoLostIdentify, [Next]_vars,
                      NEW i \in Index, NEW d \in owed'[i] \cap {"PI", "CI"}
               PROVE  Ahead(i, d)'
    BY DEF NoLostIdentify
  <2> USE PCEAssumption
  <2>0. /\ sendEvent \in 0 .. nEvents /\ sendEvent' \in 0 .. nEvents
        /\ flags \in [Index -> SUBSET Flag] /\ owed \in [Index -> SUBSET Duty]
    BY DEF TypeOK
  <2>1. ASSUME NEW k \in Index, newEvent(k) \/ produce(k) \/ sendTeach(k) PROVE Ahead(i, d)'
    <3>1. sendEvent' <= sendEvent /\ sendEvent' <= k
      BY <2>0, <2>1, LowerFromBounds DEF newEvent, produce, sendTeach, Lower
    <3>2. flags[i] \subseteq flags'[i]
      BY <2>0, <2>1 DEF newEvent, produce, sendTeach
    <3>3. CASE d \in owed[i]
      BY <2>0, <3>1, <3>2, <3>3, OwingIsIdentifiable DEF Ahead, Index
    <3>4. CASE d \notin owed[i]
      <4>1. newEvent(k) /\ k = i /\ d \in Identify(flags[i] \cup Roles[i])
        BY <2>0, <2>1, <3>4 DEF newEvent, produce, sendTeach, Owe
      <4>2. flags'[i] = flags[i] \cup {"IDENT"} \cup Roles[i]
        BY <2>0, <4>1 DEF newEvent
      <4> QED BY <2>0, <3>1, <4>1, <4>2 DEF Identify, Ahead, Index
    <3> QED BY <3>3, <3>4
  <2>2. ASSUME NEW k \in Index, NEW mark \in BOOLEAN, markToLearn(k, mark)
        PROVE  Ahead(i, d)'
    BY <2>0, <2>2, OwingIsIdentifiable DEF markToLearn, Ahead
  <2>3. ASSUME NEW e \in EventID, sendTeachEvent(e) \/ LearnEvent(e) PROVE Ahead(i, d)'
    <3>1. handleLearnEvent(e, flags, sendEvent) /\ OweAll(Learners(flags), flags, owed)
      BY <2>3 DEF sendTeachEvent, LearnEvent
    <3>2. /\ sendEvent' <= sendEvent
          /\ flags[i] \cap ({"IDENT"} \cup Role) \subseteq flags'[i]
          /\ \/ d \in owed[i]
             \/ /\ sendEvent' <= i /\ "IDENT" \in flags'[i]
                /\ d = "PI" => "CAN_PRODUCE" \in flags'[i]
                /\ d = "CI" => "CAN_CONSUME" \in flags'[i]
      BY <2>0, <3>1, LearnKeepsIdentifies
    <3> QED BY <2>0, <3>2, OwingIsIdentifiable DEF Ahead, Index, Role
  <2>4. ASSUME NEW e \in EventID, NEW role \in Role, IdentifyRole(e, role) PROVE Ahead(i, d)'
    <3> DEFINE S == {k \in Index : id[k] = e /\ role \in flags[k]}
    <3>1. LowerFrom(sendEvent, S) /\ OweAll(S, [k \in Index |-> {role}], owed)
      BY <2>4 DEF IdentifyRole, Lower
    <3>2. sendEvent' <= sendEvent /\ (i \in S => sendEvent' <= i)
      BY <2>0, <3>1, LowerFromBounds
    <3>3. flags[i] \subseteq flags'[i] /\ (i \in S => "IDENT" \in flags'[i])
      BY <2>4 DEF IdentifyRole
    <3>4. CASE d \in owed[i]
      BY <2>0, <3>2, <3>3, <3>4, OwingIsIdentifiable DEF Ahead, Index
    <3>5. CASE d \notin owed[i]
      <4>1. i \in S /\ d \in Identify({role})
        BY <3>1, <3>5 DEF OweAll
      <4>2. role \in flags'[i]
        BY <3>3, <4>1
      <4> QED BY <3>2, <3>3, <4>1, <4>2 DEF Identify, Ahead
    <3> QED BY <3>4, <3>5
  <2>5. ASSUME IdentifyEvents PROVE Ahead(i, d)'
    <3>1. sendEvent' = 0 /\ flags'[i] = flags[i] \cup {"IDENT"}
      BY <2>5 DEF IdentifyEvents
    <3>2. CASE d \in owed[i]
      BY <2>0, <3>1, <3>2, OwingIsIdentifiable DEF Ahead, Index
    <3>3. CASE d \notin owed[i]
      <4>1. d \in Identify(flags[i])
        BY <2>5, <3>3 DEF IdentifyEvents, OweAll
      <4> QED BY <3>1, <4>1 DEF Identify, Ahead, Index
    <3> QED BY <3>2, <3>3
  <2>6. ASSUME NEW k \in Index, SendIdentified(k) \/ SendReport(k) PROVE Ahead(i, d)'
    <3>1. d \in owed[i] /\ First(k) /\ sendEvent' = k
      BY <2>0, <2>6 DEF SendIdentified, SendReport, Sent
    <3>2. k <= i
      BY <2>0, <3>1, OwingIsIdentifiable DEF First, Index
    <3>3. ~(k = i /\ SendReport(k))
      BY <3>1, OwingIsIdentifiable DEF SendReport
    <3>4. ~(k = i /\ SendIdentified(k))
      <4> SUFFICES ASSUME k = i, SendIdentified(k) PROVE FALSE
        OBVIOUS
      <4>1. flags[i] \cap Role \subseteq Roles[i] /\ Roles[i] \subseteq Role /\ Roles[i] # Role
        BY OneRole DEF TypeOK, Role, OneRole, Index
      <4>2. ~({"CAN_PRODUCE", "CAN_CONSUME"} \subseteq flags[i])
        BY <4>1 DEF Role
      <4>3. d = IF "CAN_PRODUCE" \in flags[i] THEN "PI" ELSE "CI"
        BY <3>1, <4>2, OwingIsIdentifiable DEF Ahead
      <4> QED BY <2>0, <4>3 DEF SendIdentified, Sent, Identification
    <3>5. flags'[i] = flags[i]
      BY <2>0, <2>6, <3>3, <3>4 DEF SendIdentified, SendReport
    <3> QED BY <3>1, <3>2, <3>5, OwingIsIdentifiable DEF Ahead
  <2>7. ASSUME NEW k \in Index, SendTaught(k) PROVE Ahead(i, d)'
    <3> DEFINE fl == [flags EXCEPT ![k] = @ \ {"TEACH"}]
    <3> DEFINE o == [owed EXCEPT ![k] = @ \ {"TEACH"}]
    <3>1. fl \in [Index -> SUBSET Flag] /\ o \in [Index -> SUBSET Duty] /\ k \in 0 .. nEvents
      BY <2>0 DEF Index
    <3>2. handleLearnEvent(id[k], fl, k) /\ OweAll(Learners(fl), fl, o) /\ First(k)
      BY <2>7 DEF SendTaught
    <3>3. /\ sendEvent' <= k
          /\ fl[i] \cap ({"IDENT"} \cup Role) \subseteq flags'[i]
          /\ \/ d \in o[i]
             \/ /\ sendEvent' <= i /\ "IDENT" \in flags'[i]
                /\ d = "PI" => "CAN_PRODUCE" \in flags'[i]
                /\ d = "CI" => "CAN_CONSUME" \in flags'[i]
      <4> HIDE DEF fl, o
      <4> QED BY <3>1, <3>2, LearnKeepsIdentifies
    <3>4. flags[i] \cap ({"IDENT"} \cup Role) \subseteq flags'[i]
      BY <2>0, <3>3 DEF Role
    <3>5. CASE d \in o[i]
      <4>1. d \in owed[i]
        BY <2>0, <3>5
      <4>2. k <= i
        BY <2>0, <3>2, <4>1, OwingIsIdentifiable DEF First, Index
      <4> QED BY <2>0, <3>3, <3>4, <4>1, <4>2, OwingIsIdentifiable DEF Ahead, Index, Role
    <3>6. CASE d \notin o[i]
      BY <3>3, <3>6 DEF Ahead
    <3> QED BY <3>5, <3>6
  <2>8. CASE NothingToSend
    BY <2>0, <2>8, OwingIsIdentifiable DEF NothingToSend, Ahead
  <2>9. CASE UNCHANGED vars
    BY <2>9, OwingIsIdentifiable DEF vars, Ahead
  <2> QED BY <2>1, <2>2, <2>3, <2>4, <2>5, <2>6, <2>7, <2>8, <2>9 DEF Next, check
<1> QED BY <1>1, <1>2, TypeCorrect, PTL DEF Spec

(* What element i is going to send is owed. *)
Asked(i) ==
  /\ "PRODUCE" \in flags[i] => "REPORT" \in owed[i]
  /\ "TEACH" \in flags[i] => "TEACH" \in owed[i]
  /\ Identifiable(i) => Identification(i) \in owed[i]

(* A learn message that finds every element asked for leaves it so. *)
LEMMA LearnAsks ==
  ASSUME NEW e, NEW fl \in [Index -> SUBSET Flag], NEW s, NEW o \in [Index -> SUBSET Duty],
         handleLearnEvent(e, fl, s), OweAll(Learners(fl), fl, o),
         NEW i \in Index,
         "PRODUCE" \in fl[i] => "REPORT" \in o[i],
         "TEACH" \in fl[i] => "TEACH" \in o[i],
         "IDENT" \in fl[i] /\ fl[i] \cap Role # {}
           => (IF "CAN_PRODUCE" \in fl[i] THEN "PI" ELSE "CI") \in o[i]
  PROVE  Asked(i)'
<1>1. CASE i \in Learners(fl)
  <2>1. /\ flags'[i] = (fl[i] \cup {"IDENT"}) \ {"LEARN"}
        /\ owed'[i] = o[i] \cup Identify(fl[i])
    BY <1>1 DEF handleLearnEvent, OweAll
  <2> QED BY <2>1 DEF Asked, Identify, Identifiable, Identification, Role
<1>2. CASE i \notin Learners(fl)
  <2>1. flags'[i] = fl[i] /\ owed'[i] = o[i]
    BY <1>2 DEF handleLearnEvent, OweAll
  <2> QED BY <2>1 DEF Asked, Identifiable, Identification
<1> QED BY <1>1, <1>2

(* When no event has both roles, check() sends nothing that was not asked  *)
(* for and nothing twice.                                                  *)
THEOREM NothingUnaskedFor ==
  ASSUME OneRole
  PROVE  Spec => []NothingUnasked
<1>1. Init => NothingUnasked
  <2> SUFFICES ASSUME Init, NEW i \in Index
               PROVE  flags[i] \in {{}, {"IDENT"}}
    BY DEF NothingUnasked, Identifiable, Role
  <2> QED BY DEF Init
<1>2. TypeOK /\ TypeOK' /\ NothingUnasked /\ [Next]_vars => NothingUnasked'
  <2> SUFFICES ASSUME TypeOK, TypeOK', NothingUnasked, [Next]_vars, NEW i \in Index
               PROVE  Asked(i)'
    BY DEF NothingUnasked, Asked
  <2>0. /\ flags \in [Index -> SUBSET Flag] /\ owed \in [Index -> SUBSET Duty]
        /\ Asked(i)
    BY DEF TypeOK, NothingUnasked, Asked
  <2>1. ASSUME NEW k \in Index, newEvent(k) PROVE Asked(i)'
    <3>1. CASE k = i
      <4>1. /\ flags'[i] = flags[i] \cup {"IDENT"} \cup Roles[i]
            /\ owed'[i] = owed[i] \cup Identify(flags[i] \cup Roles[i])
        BY <2>0, <2>1, <3>1 DEF newEvent, Owe
      <4>2. Roles[i] \subseteq Role
        BY PCEAssumption DEF Index, Role
      <4>3. Identifiable(i)' => Identification(i)' \in owed'[i]
        BY <4>1, <4>2 DEF Identify, Identifiable, Identification, Role
      <4> QED BY <2>0, <4>1, <4>2, <4>3 DEF Asked, Role
    <3>2. CASE k # i
      BY <2>0, <2>1, <3>2 DEF newEvent, Owe, Asked, Identifiable, Identification
    <3> QED BY <3>1, <3>2
  <2>2. ASSUME NEW k \in Index, produce(k) \/ sendTeach(k) PROVE Asked(i)'
    BY <2>0, <2>2 DEF produce, sendTeach, Owe, Asked, Identifiable, Identification, Role
  <2>3. ASSUME NEW k \in Index, NEW mark \in BOOLEAN, markToLearn(k, mark) PROVE Asked(i)'
    BY <2>0, <2>3 DEF markToLearn, Asked, Identifiable, Identification, Role
  <2>4. ASSUME NEW e \in EventID, sendTeachEvent(e) \/ LearnEvent(e) PROVE Asked(i)'
    <3>1. handleLearnEvent(e, flags, sendEvent) /\ OweAll(Learners(flags), flags, owed)
      BY <2>4 DEF sendTeachEvent, LearnEvent
    <3> QED BY <2>0, <3>1, LearnAsks DEF Asked, Identifiable, Identification
  <2>5. ASSUME NEW e \in EventID, NEW role \in Role, IdentifyRole(e, role) PROVE Asked(i)'
    <3> DEFINE S == {k \in Index : id[k] = e /\ role \in flags[k]}
    <3>1. CASE i \in S
      <4>1. /\ flags'[i] = flags[i] \cup {"IDENT"}
            /\ owed'[i] = owed[i] \cup Identify({role})
        BY <2>5, <3>1 DEF IdentifyRole, OweAll
      <4>2. flags[i] \cap Role = {role}
        <5>1. flags[i] \cap Role \subseteq Roles[i] /\ Roles[i] \subseteq Role /\ Roles[i] # Role
          BY OneRole, PCEAssumption DEF TypeOK, OneRole, Role, Index
        <5> QED BY <3>1, <5>1 DEF Role
      <4>3. Identification(i)' \in Identify({role})
        BY <4>1, <4>2 DEF Identification, Identify, Role
      <4> QED BY <2>0, <4>1, <4>3 DEF Asked
    <3>2. CASE i \notin S
      BY <2>0, <2>5, <3>2 DEF IdentifyRole, OweAll, Asked, Identifiable, Identification
    <3> QED BY <3>1, <3>2
  <2>6. ASSUME IdentifyEvents PROVE Asked(i)'
    <3>1. /\ flags'[i] = flags[i] \cup {"IDENT"}
          /\ owed'[i] = owed[i] \cup Identify(flags[i])
      BY <2>6 DEF IdentifyEvents, OweAll
    <3> QED BY <2>0, <3>1 DEF Asked, Identify, Identifiable, Identification, Role
  <2>7. ASSUME NEW k \in Index, SendIdentified(k) \/ SendReport(k) PROVE Asked(i)'
    BY <2>0, <2>7 DEF SendIdentified, SendReport, Sent, Asked, Identifiable, Identification, Role
  <2>8. ASSUME NEW k \in Index, SendTaught(k) PROVE Asked(i)'
    <3> DEFINE fl == [flags EXCEPT ![k] = @ \ {"TEACH"}]
    <3> DEFINE o == [owed EXCEPT ![k] = @ \ {"TEACH"}]
    <3>1. /\ fl \in [Index -> SUBSET Flag] /\ o \in [Index -> SUBSET Duty]
          /\ "PRODUCE" \in fl[i] => "REPORT" \in o[i]
          /\ "TEACH" \in fl[i] => "TEACH" \in o[i]
          /\ "IDENT" \in fl[i] /\ fl[i] \cap Role # {}
               => (IF "CAN_PRODUCE" \in fl[i] THEN "PI" ELSE "CI") \in o[i]
      BY <2>0 DEF Asked, Identifiable, Identification, Role
    <3>2. handleLearnEvent(id[k], fl, k) /\ OweAll(Learners(fl), fl, o)
      BY <2>8 DEF SendTaught
    <3> HIDE DEF fl, o
    <3> QED BY <3>1, <3>2, LearnAsks
  <2>9. CASE NothingToSend \/ UNCHANGED vars
    BY <2>0, <2>9 DEF NothingToSend, vars, Asked, Identifiable, Identification
  <2> QED BY <2>1, <2>2, <2>3, <2>4, <2>5, <2>6, <2>7, <2>8, <2>9 DEF Next, check
<1> QED BY <1>1, <1>2, TypeCorrect, PTL DEF Spec
============================================================================
