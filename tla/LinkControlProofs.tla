-------------------------- MODULE LinkControlProofs --------------------------
(* Theorems about LinkControl, for any number of nodes and aliases and any  *)
(* capacity of the buffers.                                                 *)
EXTENDS LinkControl, TLAPS

(* The alias a node stands at is an alias, and its frames are frames. *)
LEMMA AliasType ==
  ASSUME TypeOK, NEW n \in Node
  PROVE  getAlias(n) \in Alias
<1>1. AliasSeq[n] \in Seq(Alias) /\ Len(AliasSeq[n]) \in Nat
  BY LinkAssumption
<1>2. pos[n] \in Nat /\ pos[n] < Len(AliasSeq[n])
  BY DEF TypeOK
<1> QED BY <1>1, <1>2 DEF getAlias

LEMMA FrameType ==
  ASSUME NEW k \in Kind, NEW a \in Alias
  PROVE  Fr(k, a) \in Frame
BY DEF Fr, Frame, Target

LEMMA ModRange ==
  ASSUME NEW i \in Nat, NEW w \in Nat \ {0}
  PROVE  i % w \in 0 .. w - 1
OBVIOUS

(* A frame goes into a free mailbox: the mailboxes keep their type. *)
LEMMA SendType ==
  ASSUME TypeOK, NEW n \in Node, NEW f \in Frame, XmtReady(n), Send(n, f)
  PROVE  /\ tx' \in [Node -> Seq(Frame)]
         /\ \A m \in Node : Len(tx'[m]) <= TxCap
<1>1. tx \in [Node -> Seq(Frame)] /\ TxCap \in Nat
  BY LinkAssumption DEF TypeOK
<1>2. Len(tx[n]) + 1 <= TxCap
  BY <1>1 DEF XmtReady
<1>3. /\ Append(tx[n], f) \in Seq(Frame)
      /\ Len(Append(tx[n], f)) = Len(tx[n]) + 1
  BY <1>1
<1>4. tx' = [tx EXCEPT ![n] = Append(tx[n], f)]
  BY DEF Send
<1>5. \A m \in Node : Len(tx[m]) <= TxCap
  BY DEF TypeOK
<1> QED BY <1>1, <1>2, <1>3, <1>4, <1>5

(* The frame taken at the start of a pass, and the buffers after it. *)
LEMMA PassType ==
  ASSUME TypeOK, NEW n \in Node, StartPass(n)
  PROVE  /\ cur' \in [Node -> Frame \cup {None}]
         /\ cur'[n] = Taken(n)
         /\ \A m \in Node : m # n => cur'[m] = cur[m]
         /\ rx' \in [Node -> Seq(Frame)]
         /\ \A m \in Node : Len(rx'[m]) <= RxCap
<1>1. /\ rx \in [Node -> Seq(Frame)] /\ cur \in [Node -> Frame \cup {None}]
      /\ \A m \in Node : Len(rx[m]) <= RxCap
      /\ RxCap \in Nat
  BY LinkAssumption DEF TypeOK
<1>2. Taken(n) \in Frame \cup {None}
  BY <1>1 DEF Taken
<1>3. rx[n] # << >> => Tail(rx[n]) \in Seq(Frame) /\ Len(Tail(rx[n])) = Len(rx[n]) - 1
  BY <1>1
<1>4. Len(rx[n]) \in Nat
  BY <1>1
<1> QED BY <1>1, <1>2, <1>3, <1>4 DEF StartPass

(* A frame on the bus leaves the buffers within their capacity. *)
LEMMA BroadcastType ==
  ASSUME TypeOK, NEW n, NEW f \in Frame, Broadcast(n, f)
  PROVE  /\ rx' \in [Node -> Seq(Frame)]
         /\ \A m \in Node : Len(rx'[m]) <= RxCap
<1>1. /\ rx \in [Node -> Seq(Frame)]
      /\ \A m \in Node : Len(rx[m]) <= RxCap
      /\ RxCap \in Nat
  BY LinkAssumption DEF TypeOK
<1>2. ASSUME NEW m \in Node
      PROVE  /\ Append(rx[m], f) \in Seq(Frame)
             /\ Len(Append(rx[m], f)) = Len(rx[m]) + 1
             /\ Len(rx[m]) \in Nat
  BY <1>1
<1> QED BY <1>1, <1>2 DEF Broadcast

(* What trying to send does to the mailboxes and the state. *)
LEMMA TrySendType ==
  ASSUME TypeOK, NEW n \in Node, NEW k \in Kind, NEW s \in State,
         TrySend(n, Fr(k, getAlias(n)), s)
  PROVE  /\ tx' \in [Node -> Seq(Frame)]
         /\ \A m \in Node : Len(tx'[m]) <= TxCap
         /\ state' \in [Node -> State]
         /\ state'[n] \in {state[n], s}
         /\ \A m \in Node : m # n => state'[m] = state[m]
<1>1. Fr(k, getAlias(n)) \in Frame
  BY AliasType, FrameType
<1>2. CASE XmtReady(n)
  BY <1>1, <1>2, SendType DEF TrySend, TypeOK
<1>3. CASE ~XmtReady(n)
  BY <1>3 DEF TrySend, TypeOK
<1> QED BY <1>2, <1>3

(* The parts of TypeOK that tell what a node's step may find. *)
LEMMA EndCheckType ==
  ASSUME TypeOK, NEW n \in Node, NEW f \in Frame \cup {None}, EndCheck(n, f)
  PROVE  /\ pc' \in [Node -> {"loop", "permitted", "receive"}]
         /\ pc'[n] = IF f = None THEN "loop" ELSE "receive"
         /\ \A m \in Node : m # n => pc'[m] = pc[m]
BY DEF TypeOK, EndCheck

(* A step of n disturbs the other nodes' passes in no way. *)
LEMMA OthersOK ==
  ASSUME TypeOK, NEW n \in Node, PassOK(n)', on' = on,
         \A m \in Node : m # n => /\ state'[m] = state[m]
                                /\ pc'[m] = pc[m] /\ cur'[m] = cur[m]
  PROVE  \A m \in Node : PassOK(m)'
BY DEF TypeOK, PassOK

(* Every step of a node's check() keeps the types. *)
LEMMA CheckTyped ==
  ASSUME TypeOK, NEW n \in Node, Check(n)
  PROVE  TypeOK'
<1> USE DEF time
<1>0. state[n] \in State /\ pc[n] \in {"loop", "permitted", "receive"}
  BY DEF TypeOK
<1>1. CASE CheckCIM(n)
  <2>1. state[n] + 1 \in State /\ state[n] + 1 \notin {ALIAS_ASSIGNED, PERMITTED}
    BY <1>1 DEF CheckCIM, State, INITIAL, ALIAS_ASSIGNED, PERMITTED
  <2>2. StartPass(n) /\ TrySend(n, Fr("CIM", getAlias(n)), state[n] + 1)
        /\ EndCheck(n, Taken(n))
    BY <1>1 DEF CheckCIM
  <2>3. Taken(n) \in Frame \cup {None}
    BY DEF TypeOK, Taken
  <2>4. "CIM" \in Kind
    BY DEF Kind
  <2>5. /\ tx' \in [Node -> Seq(Frame)]
        /\ \A m \in Node : Len(tx'[m]) <= TxCap
        /\ state' \in [Node -> State]
        /\ \A m \in Node : m # n => state'[m] = state[m]
    BY <2>1, <2>2, <2>4, TrySendType
  <2>6. /\ pc' \in [Node -> {"loop", "permitted", "receive"}]
        /\ pc'[n] = IF Taken(n) = None THEN "loop" ELSE "receive"
        /\ \A m \in Node : m # n => pc'[m] = pc[m]
    BY <2>2, <2>3, EndCheckType
  <2>8. on' = on /\ PassOK(n)'
    BY <1>1, <2>2, <2>5, <2>6, PassType DEF CheckCIM, PassOK, StartPass
  <2>9. \A m \in Node : PassOK(m)'
    BY <1>1, <2>2, <2>5, <2>6, <2>8, PassType, OthersOK DEF CheckCIM
  <2> QED BY <1>1, <2>2, <2>5, <2>6, <2>9, PassType DEF CheckCIM, TypeOK
<1>2. CASE StartTimer(n)
  <2>1. StartPass(n) /\ EndCheck(n, Taken(n))
    BY <1>2 DEF StartTimer
  <2>2. Taken(n) \in Frame \cup {None}
    BY DEF TypeOK, Taken
  <2>3. /\ pc' \in [Node -> {"loop", "permitted", "receive"}]
        /\ pc'[n] = IF Taken(n) = None THEN "loop" ELSE "receive"
        /\ \A m \in Node : m # n => pc'[m] = pc[m]
    BY <2>1, <2>2, EndCheckType
  <2>4. state' \in [Node -> State] /\ \A m \in Node : m # n => state'[m] = state[m]
    BY <1>2 DEF StartTimer, TypeOK, State, WAIT_CONFIRM
  <2>5. timer' \in [Node -> 0 .. Wrap - 1] /\ clock' \in [Node -> 0 .. Wrap - 1]
    BY <1>2, LinkAssumption DEF StartTimer, TypeOK
  <2>8. on' = on /\ PassOK(n)'
    BY <1>2, <2>1, <2>3, <2>4, <2>5, PassType DEF StartTimer, PassOK, StartPass
  <2>9. \A m \in Node : PassOK(m)'
    BY <1>2, <2>1, <2>3, <2>4, <2>5, <2>8, PassType, OthersOK DEF StartTimer
  <2> QED BY <1>2, <2>1, <2>3, <2>4, <2>5, <2>9, PassType DEF StartTimer, TypeOK
<1>3. CASE CheckWait(n)
  <2>1. StartPass(n) /\ EndCheck(n, Taken(n))
    BY <1>3 DEF CheckWait
  <2>2. Taken(n) \in Frame \cup {None}
    BY DEF TypeOK, Taken
  <2>3. /\ pc' \in [Node -> {"loop", "permitted", "receive"}]
        /\ pc'[n] = IF Taken(n) = None THEN "loop" ELSE "receive"
        /\ \A m \in Node : m # n => pc'[m] = pc[m]
    BY <2>1, <2>2, EndCheckType
  <2>4. Fr("RIM", getAlias(n)) \in Frame
    BY AliasType, FrameType DEF Kind
  <2>5. /\ tx' \in [Node -> Seq(Frame)]
        /\ \A m \in Node : Len(tx'[m]) <= TxCap
        /\ state' \in [Node -> State]
        /\ \A m \in Node : m # n => state'[m] = state[m]
        /\ timer' \in [Node -> 0 .. Wrap - 1] /\ clock' \in [Node -> 0 .. Wrap - 1]
    <3>1. CASE TimeUp(n) /\ XmtReady(n)
      <4>1. Send(n, Fr("RIM", getAlias(n)))
        BY <1>3, <3>1 DEF CheckWait
      <4>2. /\ tx' \in [Node -> Seq(Frame)]
            /\ \A m \in Node : Len(tx'[m]) <= TxCap
        BY <2>4, <3>1, <4>1, SendType
      <4>3. /\ state' \in [Node -> State]
            /\ \A m \in Node : m # n => state'[m] = state[m]
        BY <1>3, <3>1 DEF CheckWait, TypeOK, State
      <4>4. 0 \in 0 .. Wrap - 1
        BY LinkAssumption
      <4>5. timer' \in [Node -> 0 .. Wrap - 1] /\ clock' \in [Node -> 0 .. Wrap - 1]
        BY <1>3, <3>1, <4>4 DEF CheckWait, StopTimer, TypeOK
      <4> QED BY <4>2, <4>3, <4>5
    <3>2. CASE ~(TimeUp(n) /\ XmtReady(n))
      BY <1>3, <3>2 DEF CheckWait, TypeOK
    <3> QED BY <3>1, <3>2
  <2>8. on' = on /\ PassOK(n)'
    BY <1>3, <2>1, <2>3, <2>5, PassType DEF CheckWait, PassOK, StartPass
  <2>9. \A m \in Node : PassOK(m)'
    BY <1>3, <2>1, <2>3, <2>5, <2>8, PassType, OthersOK DEF CheckWait
  <2> QED BY <1>3, <2>1, <2>3, <2>5, <2>9, PassType DEF CheckWait, TypeOK
<1>4. CASE CheckAssigned(n)
  <2>1. StartPass(n) /\ TrySend(n, Fr("AMD", getAlias(n)), PERMITTED)
    BY <1>4 DEF CheckAssigned
  <2>2. "AMD" \in Kind /\ PERMITTED \in State
    BY DEF Kind, State
  <2>3. /\ tx' \in [Node -> Seq(Frame)]
        /\ \A m \in Node : Len(tx'[m]) <= TxCap
        /\ state' \in [Node -> State]
        /\ state'[n] \in {state[n], PERMITTED}
        /\ \A m \in Node : m # n => state'[m] = state[m]
    BY <2>1, <2>2, TrySendType
  <2>4. /\ pc' \in [Node -> {"loop", "permitted", "receive"}]
        /\ pc'[n] = "permitted"
        /\ \A m \in Node : m # n => pc'[m] = pc[m]
    BY <1>4 DEF CheckAssigned, TypeOK
  <2>8. on' = on /\ PassOK(n)'
    BY <1>4, <2>1, <2>3, <2>4, PassType DEF CheckAssigned, PassOK, StartPass
  <2>9. \A m \in Node : PassOK(m)'
    BY <2>1, <2>3, <2>4, <2>8, PassType, OthersOK
  <2> QED BY <1>4, <2>1, <2>3, <2>4, <2>9, PassType DEF CheckAssigned, TypeOK
<1>5. CASE FallThrough(n)
  <2>1. TrySend(n, Fr("INIT", getAlias(n)), INITIALIZED) /\ EndCheck(n, cur[n])
    BY <1>5 DEF FallThrough
  <2>2. "INIT" \in Kind /\ INITIALIZED \in State
    BY DEF Kind, State
  <2>3. /\ tx' \in [Node -> Seq(Frame)]
        /\ \A m \in Node : Len(tx'[m]) <= TxCap
        /\ state' \in [Node -> State]
        /\ \A m \in Node : m # n => state'[m] = state[m]
    BY <2>1, <2>2, TrySendType
  <2>4. cur[n] \in Frame \cup {None}
    BY DEF TypeOK
  <2>5. /\ pc' \in [Node -> {"loop", "permitted", "receive"}]
        /\ pc'[n] = IF cur[n] = None THEN "loop" ELSE "receive"
        /\ \A m \in Node : m # n => pc'[m] = pc[m]
    BY <2>1, <2>4, EndCheckType
  <2>8. on' = on /\ PassOK(n)'
    BY <1>5, <2>5 DEF FallThrough, TypeOK, PassOK
  <2>9. \A m \in Node : PassOK(m)'
    BY <1>5, <2>3, <2>5, <2>8, OthersOK DEF FallThrough
  <2> QED BY <1>5, <2>3, <2>5, <2>9 DEF FallThrough, TypeOK
<1>6. CASE CheckPermitted(n)
  <2>1. /\ StartPass(n) /\ TrySend(n, Fr("INIT", getAlias(n)), INITIALIZED)
        /\ EndCheck(n, Taken(n))
    BY <1>6 DEF CheckPermitted
  <2>2. "INIT" \in Kind /\ INITIALIZED \in State
    BY DEF Kind, State
  <2>3. /\ tx' \in [Node -> Seq(Frame)]
        /\ \A m \in Node : Len(tx'[m]) <= TxCap
        /\ state' \in [Node -> State]
        /\ \A m \in Node : m # n => state'[m] = state[m]
    BY <2>1, <2>2, TrySendType
  <2>4. Taken(n) \in Frame \cup {None}
    BY DEF TypeOK, Taken
  <2>5. /\ pc' \in [Node -> {"loop", "permitted", "receive"}]
        /\ pc'[n] = IF Taken(n) = None THEN "loop" ELSE "receive"
        /\ \A m \in Node : m # n => pc'[m] = pc[m]
    BY <2>1, <2>4, EndCheckType
  <2>8. on' = on /\ PassOK(n)'
    BY <1>6, <2>1, <2>3, <2>5, PassType DEF CheckPermitted, PassOK, StartPass
  <2>9. \A m \in Node : PassOK(m)'
    BY <1>6, <2>1, <2>3, <2>5, <2>8, PassType, OthersOK DEF CheckPermitted
  <2> QED BY <1>6, <2>1, <2>3, <2>5, <2>9, PassType DEF CheckPermitted, TypeOK
<1>7. CASE CheckInitialized(n)
  <2>1. StartPass(n) /\ EndCheck(n, Taken(n))
    BY <1>7 DEF CheckInitialized
  <2>2. Taken(n) \in Frame \cup {None}
    BY DEF TypeOK, Taken
  <2>3. /\ pc' \in [Node -> {"loop", "permitted", "receive"}]
        /\ pc'[n] = IF Taken(n) = None THEN "loop" ELSE "receive"
        /\ \A m \in Node : m # n => pc'[m] = pc[m]
    BY <2>1, <2>2, EndCheckType
  <2>8. on' = on /\ PassOK(n)'
    BY <1>7, <2>1, <2>3, PassType DEF CheckInitialized, PassOK, StartPass
  <2>9. \A m \in Node : PassOK(m)'
    BY <1>7, <2>1, <2>3, <2>8, PassType, OthersOK DEF CheckInitialized
  <2> QED BY <1>7, <2>1, <2>3, <2>9, PassType DEF CheckInitialized, TypeOK
<1> QED BY <1>1, <1>2, <1>3, <1>4, <1>5, <1>6, <1>7 DEF Check

(* A frame of this node goes out as receivedFrame() ends. *)
LEMMA EndPassType ==
  ASSUME TypeOK, NEW n \in Node, EndPass(n)
  PROVE  /\ pc' \in [Node -> {"loop", "permitted", "receive"}]
         /\ cur' \in [Node -> Frame \cup {None}]
         /\ pc'[n] = "loop" /\ cur'[n] = None
         /\ \A m \in Node : m # n => pc'[m] = pc[m] /\ cur'[m] = cur[m]
BY DEF TypeOK, EndPass

(* Every step of receivedFrame() keeps the types. *)
LEMMA ReceiveTyped ==
  ASSUME TypeOK, NEW n \in Node, receivedFrame(n)
  PROVE  TypeOK'
<1> USE DEF time
<1>0. getAlias(n) \in Alias /\ EndPass(n) /\ Receiving(n)
  BY AliasType DEF receivedFrame, DefendAlias, GiveUpAlias, AnswerRequest, IgnoreFrame
<1>1. CASE DefendAlias(n)
  <2>1. Fr("RIM", getAlias(n)) \in Frame
    BY <1>0, FrameType DEF Kind
  <2>2. tx' \in [Node -> Seq(Frame)] /\ \A m \in Node : Len(tx'[m]) <= TxCap
    BY <1>1, <2>1, SendType DEF DefendAlias
  <2>8. on' = on /\ PassOK(n)'
    BY <1>0, <1>1, <2>2, EndPassType DEF DefendAlias, TypeOK, PassOK, Receiving
  <2>9. \A m \in Node : PassOK(m)'
    BY <1>0, <1>1, <2>2, <2>8, EndPassType, OthersOK DEF DefendAlias
  <2> QED BY <1>0, <1>1, <2>2, <2>9, EndPassType DEF DefendAlias, TypeOK
<1>2. CASE GiveUpAlias(n)
  <2>1. Fr("AMR", getAlias(n)) \in Frame
    BY <1>0, FrameType DEF Kind
  <2>2. tx' \in [Node -> Seq(Frame)] /\ \A m \in Node : Len(tx'[m]) <= TxCap
    <3>1. CASE XmtReady(n)
      BY <1>2, <2>1, <3>1, SendType DEF GiveUpAlias
    <3>2. CASE ~XmtReady(n)
      BY <1>2, <3>2 DEF GiveUpAlias, TypeOK
    <3> QED BY <3>1, <3>2
  <2>3. pos' \in [Node -> Nat] /\ \A m \in Node : pos'[m] < Len(AliasSeq[m])
    <3>1. Len(AliasSeq[n]) \in Nat \ {0}
      BY LinkAssumption
    <3>2. (pos[n] + 1) % Len(AliasSeq[n]) \in 0 .. Len(AliasSeq[n]) - 1
      <4>1. pos[n] + 1 \in Nat
        BY DEF TypeOK
      <4> QED BY <3>1, <4>1, ModRange
    <3>3. pos' = [pos EXCEPT ![n] = (pos[n] + 1) % Len(AliasSeq[n])]
      BY <1>2 DEF GiveUpAlias
    <3>4. (pos[n] + 1) % Len(AliasSeq[n]) \in Nat
          /\ (pos[n] + 1) % Len(AliasSeq[n]) < Len(AliasSeq[n])
      BY <3>1, <3>2
    <3> QED BY <3>3, <3>4 DEF TypeOK
  <2>4. timer' \in [Node -> 0 .. Wrap - 1] /\ clock' \in [Node -> 0 .. Wrap - 1]
    BY <1>2, LinkAssumption DEF GiveUpAlias, StopTimer, TypeOK
  <2>5. state' \in [Node -> State] /\ state'[n] = INITIAL
        /\ \A m \in Node : m # n => state'[m] = state[m]
    BY <1>2 DEF GiveUpAlias, TypeOK, State, INITIAL
  <2>8. on' = on /\ PassOK(n)'
    BY <1>0, <1>2, <2>5, EndPassType DEF GiveUpAlias, TypeOK, PassOK, Receiving
  <2>9. \A m \in Node : PassOK(m)'
    BY <1>0, <2>5, <2>8, EndPassType, OthersOK
  <2> QED BY <1>0, <1>2, <2>2, <2>3, <2>4, <2>5, <2>9, EndPassType
        DEF GiveUpAlias, TypeOK
<1>3. CASE AnswerRequest(n)
  <2>1. Fr(Reply(cur[n]), getAlias(n)) \in Frame
    BY <1>0, FrameType DEF Kind, Reply
  <2>2. tx' \in [Node -> Seq(Frame)] /\ \A m \in Node : Len(tx'[m]) <= TxCap
    BY <1>3, <2>1, SendType DEF AnswerRequest
  <2>8. on' = on /\ PassOK(n)'
    BY <1>0, <1>3, <2>2, EndPassType DEF AnswerRequest, TypeOK, PassOK, Receiving
  <2>9. \A m \in Node : PassOK(m)'
    BY <1>0, <1>3, <2>2, <2>8, EndPassType, OthersOK DEF AnswerRequest
  <2> QED BY <1>0, <1>3, <2>2, <2>9, EndPassType DEF AnswerRequest, TypeOK
<1>4. CASE IgnoreFrame(n)
  <2>8. on' = on /\ PassOK(n)'
    BY <1>0, <1>4, EndPassType DEF IgnoreFrame, TypeOK, PassOK, Receiving
  <2>9. \A m \in Node : PassOK(m)'
    BY <1>0, <1>4, <2>8, EndPassType, OthersOK DEF IgnoreFrame
  <2> QED BY <1>0, <1>4, <2>9, EndPassType DEF IgnoreFrame, TypeOK
<1> QED BY <1>1, <1>2, <1>3, <1>4 DEF receivedFrame

(* The bus, the tool, the power switch and the clock keep the types. *)
LEMMA OutsideTyped ==
  ASSUME TypeOK, (\E n \in Node : Boot(n) \/ Transmit(n)) \/ Ask \/ Tick
  PROVE  TypeOK'
<1> USE DEF time
<1>1. ASSUME NEW n \in Node, Boot(n)
      PROVE  TypeOK'
  <2>1. Len(AliasSeq[n]) > 0
    BY LinkAssumption
  <2>2. pos' \in [Node -> Nat] /\ \A m \in Node : pos'[m] < Len(AliasSeq[m])
    BY <1>1, <2>1 DEF Boot, TypeOK
  <2>3. \A m \in Node : PassOK(m)'
    BY <1>1 DEF Boot, TypeOK, PassOK
  <2> QED BY <1>1, <2>2, <2>3 DEF Boot, TypeOK
<1>2. ASSUME NEW n \in Node, Transmit(n)
      PROVE  TypeOK'
  <2>1. tx[n] # << >> /\ tx[n] \in Seq(Frame) /\ Len(tx[n]) <= TxCap /\ TxCap \in Nat
    BY <1>2, LinkAssumption DEF Transmit, TypeOK
  <2>2. Head(tx[n]) \in Frame /\ Tail(tx[n]) \in Seq(Frame) /\ Len(Tail(tx[n])) <= TxCap
    BY <2>1
  <2>3. rx' \in [Node -> Seq(Frame)] /\ \A m \in Node : Len(rx'[m]) <= RxCap
    BY <1>2, <2>2, BroadcastType DEF Transmit
  <2>4. tx' \in [Node -> Seq(Frame)] /\ \A m \in Node : Len(tx'[m]) <= TxCap
    BY <1>2, <2>2 DEF Transmit, TypeOK
  <2> QED BY <1>2, <2>3, <2>4 DEF Transmit, TypeOK, PassOK
<1>3. CASE Ask
  <2>1. PICK f \in Request : Broadcast(None, f)
    BY <1>3 DEF Ask
  <2>2. f \in Frame
    BY LinkAssumption DEF Request, Frame, Kind, Target
  <2>3. rx' \in [Node -> Seq(Frame)] /\ \A m \in Node : Len(rx'[m]) <= RxCap
    BY <2>1, <2>2, BroadcastType
  <2>4. asked' \in 0 .. Requests
    BY <1>3, LinkAssumption DEF Ask, TypeOK
  <2> QED BY <1>3, <2>3, <2>4 DEF Ask, TypeOK, PassOK
<1>4. CASE Tick
  <2>1. clock' \in [Node -> 0 .. Wrap - 1]
    <3>1. ASSUME NEW n \in Node
          PROVE  (clock[n] + 1) % Wrap \in 0 .. Wrap - 1
      <4>1. Wrap \in Nat \ {0}
        BY LinkAssumption
      <4>2. clock[n] \in 0 .. Wrap - 1
        BY DEF TypeOK
      <4>3. clock[n] + 1 \in Nat
        BY <4>1, <4>2
      <4> QED BY <4>1, <4>3, ModRange
    <3> QED BY <1>4, <3>1 DEF Tick, TypeOK
  <2> QED BY <1>4, <2>1 DEF Tick, TypeOK, PassOK
<1> QED BY <1>1, <1>2, <1>3, <1>4

(* TypeOK holds in every state. *)
THEOREM LinkTypes == Spec => []TypeOK
<1>1. Init => TypeOK
  <2> SUFFICES ASSUME Init PROVE TypeOK
    OBVIOUS
  <2>1. \A n \in Node : Len(AliasSeq[n]) > 0
    BY LinkAssumption
  <2>2. INITIAL \in State
    BY DEF State, INITIAL
  <2>3. /\ << >> \in Seq(Frame) /\ Len(<< >>) = 0
        /\ TxCap \in Nat /\ RxCap \in Nat /\ Requests \in Nat
        /\ 0 \in 0 .. Wrap - 1
    BY LinkAssumption
  <2> QED BY <2>1, <2>2, <2>3 DEF Init, TypeOK, PassOK
<1>2. TypeOK /\ [Next]_vars => TypeOK'
  <2>1. ASSUME TypeOK, Next
        PROVE  TypeOK'
    BY <2>1, CheckTyped, ReceiveTyped, OutsideTyped DEF Next, Pass
  <2>2. ASSUME TypeOK, UNCHANGED vars
        PROVE  TypeOK'
    BY <2>2 DEF vars, TypeOK, PassOK
  <2> QED BY <2>1, <2>2
<1> QED BY <1>1, <1>2, PTL DEF Spec

-----------------------------------------------------------------------------
(* Frames in a buffer that grows at one end and shrinks at the other. *)
LEMMA AppendSource ==
  ASSUME NEW s \in Seq(Frame), NEW f \in Frame, NEW a
  PROVE  /\ HasSource(s, a) => HasSource(Append(s, f), a)
         /\ HasSource(Append(s, f), f.src)
<1>1. /\ Len(s) \in Nat /\ Len(Append(s, f)) = Len(s) + 1
      /\ Append(s, f)[Len(s) + 1] = f
      /\ \A i \in 1 .. Len(s) : Append(s, f)[i] = s[i]
  OBVIOUS
<1> QED BY <1>1 DEF HasSource

LEMMA TailSource ==
  ASSUME NEW s \in Seq(Frame), s # << >>, NEW a, HasSource(s, a)
  PROVE  Head(s).src = a \/ HasSource(Tail(s), a)
<1>1. PICK i \in 1 .. Len(s) : s[i].src = a
  BY DEF HasSource
<1>2. CASE i = 1
  <2>1. Head(s) = s[1]
    OBVIOUS
  <2> QED BY <1>1, <1>2, <2>1
<1>3. CASE i # 1
  <2>1. i - 1 \in 1 .. Len(Tail(s)) /\ Tail(s)[i - 1] = s[i]
    BY <1>3
  <2> QED BY <1>1, <2>1 DEF HasSource
<1> QED BY <1>2, <1>3

LEMMA EmptySource ==
  ASSUME NEW a
  PROVE  ~HasSource(<< >>, a)
BY DEF HasSource

(* Sending from n adds a frame with n's alias. *)
LEMMA SendSource ==
  ASSUME TypeOK, NEW n \in Node, NEW k \in Kind, Send(n, Fr(k, getAlias(n)))
  PROVE  /\ \A m \in Node : \A a : HasSource(tx[m], a) => HasSource(tx'[m], a)
         /\ HasSource(tx'[n], getAlias(n))
<1>1. Fr(k, getAlias(n)) \in Frame /\ Fr(k, getAlias(n)).src = getAlias(n)
  BY AliasType, FrameType DEF Fr
<1>2. tx \in [Node -> Seq(Frame)]
  BY DEF TypeOK
<1>3. /\ tx'[n] = Append(tx[n], Fr(k, getAlias(n)))
      /\ \A m \in Node : m # n => tx'[m] = tx[m]
  BY <1>2 DEF Send
<1> QED BY <1>1, <1>2, <1>3, AppendSource

(* A frame on the bus reaches the buffer of every other node that is on. *)
LEMMA BroadcastSource ==
  ASSUME TypeOK, ~Overrun, NEW n, NEW f \in Frame, Broadcast(n, f)
  PROVE  /\ \A m \in Node : \A a : HasSource(rx[m], a) => HasSource(rx'[m], a)
         /\ \A m \in Node : m # n /\ on[m] => HasSource(rx'[m], f.src)
<1>1. rx \in [Node -> Seq(Frame)]
  BY DEF TypeOK
<1>2. ASSUME NEW m \in Node
      PROVE  /\ rx'[m] = rx[m] \/ rx'[m] = Append(rx[m], f)
             /\ m # n /\ on[m] => rx'[m] = Append(rx[m], f)
  BY <1>1, <1>2 DEF Broadcast
<1> QED BY <1>1, <1>2, AppendSource

(* Taking a frame from the buffer keeps it in sight. *)
LEMMA PassSource ==
  ASSUME TypeOK, NEW n \in Node, StartPass(n), NEW k \in Node, NEW a,
         HasSource(rx[k], a) \/ (cur[k] # None /\ cur[k].src = a)
  PROVE  HasSource(rx'[k], a) \/ (cur'[k] # None /\ cur'[k].src = a)
<1>1. CASE k # n
  BY <1>1, PassType DEF StartPass, TypeOK
<1>2. CASE k = n
  <2>1. cur[n] = None
    BY DEF StartPass, TypeOK, PassOK
  <2>2. HasSource(rx[n], a) /\ rx[n] \in Seq(Frame)
    BY <1>2, <2>1 DEF TypeOK
  <2>3. rx[n] # << >>
    BY <2>2, EmptySource
  <2>4. /\ cur'[n] = Head(rx[n]) /\ rx'[n] = Tail(rx[n])
        /\ Head(rx[n]) \in Frame
    BY <2>2, <2>3, PassType DEF StartPass, TypeOK, Taken
  <2>5. cur'[n] # None
    BY <2>4, NoneAssumption
  <2> QED BY <1>2, <2>2, <2>3, <2>4, <2>5, TailSource
<1> QED BY <1>1, <1>2

(* A step of check() loses no frame from sight, leaves the aliases alone,  *)
(* and where it begins a claim it puts a frame with the alias out.         *)
LEMMA CheckKeeps ==
  ASSUME TypeOK, NEW n \in Node, Check(n)
  PROVE  /\ \A m, k \in Node : \A a : Coming(m, k, a) => Coming(m, k, a)'
         /\ pos' = pos
         /\ \A m \in Node : m # n => state'[m] = state[m]
         /\ state[n] = INITIAL /\ state'[n] # INITIAL => HasSource(tx'[n], getAlias(n))
<1>1. /\ \A m \in Node : \A a : HasSource(tx[m], a) => HasSource(tx'[m], a)
      /\ state[n] = INITIAL /\ state'[n] # INITIAL => HasSource(tx'[n], getAlias(n))
  <2>1. ASSUME NEW k \in Kind, Send(n, Fr(k, getAlias(n)))
        PROVE  /\ \A m \in Node : \A a : HasSource(tx[m], a) => HasSource(tx'[m], a)
               /\ HasSource(tx'[n], getAlias(n))
    BY <2>1, SendSource
  <2>2. {"CIM", "RIM", "AMD", "INIT"} \subseteq Kind
    BY DEF Kind
  <2>3. \/ \E k \in Kind : Send(n, Fr(k, getAlias(n)))
        \/ UNCHANGED tx
    BY <2>2 DEF Check, CheckCIM, StartTimer, CheckWait, CheckAssigned, FallThrough,
              CheckPermitted, CheckInitialized, TrySend
  <2>4. state[n] = INITIAL /\ state'[n] # INITIAL => Send(n, Fr("CIM", getAlias(n)))
    <3>1. state[n] = INITIAL => CheckCIM(n)
      <4> SUFFICES ASSUME state[n] = INITIAL PROVE CheckCIM(n)
        OBVIOUS
      <4> USE DEF INITIAL, WAIT_CONFIRM, ALIAS_ASSIGNED, PERMITTED, INITIALIZED
      <4>1. ~StartTimer(n) /\ ~CheckWait(n) /\ ~CheckAssigned(n)
        BY DEF StartTimer, CheckWait, CheckAssigned
      <4>2. ~CheckPermitted(n) /\ ~CheckInitialized(n)
        BY DEF CheckPermitted, CheckInitialized
      <4>3. PassOK(n)
        BY DEF TypeOK
      <4>4. ~FallThrough(n)
        BY <4>3 DEF FallThrough, PassOK
      <4> QED BY <4>1, <4>2, <4>4 DEF Check
    <3> QED BY <3>1 DEF CheckCIM, TrySend
  <2> QED BY <2>1, <2>2, <2>3, <2>4
<1>2. \A m \in Node : m # n => state'[m] = state[m]
  BY DEF Check, CheckCIM, StartTimer, CheckWait, CheckAssigned, FallThrough,
         CheckPermitted, CheckInitialized, TrySend, TypeOK
<1>3. pos' = pos
  BY DEF Check, CheckCIM, StartTimer, CheckWait, CheckAssigned, FallThrough,
         CheckPermitted, CheckInitialized
<1>4. ASSUME NEW k \in Node, NEW a,
             HasSource(rx[k], a) \/ (cur[k] # None /\ cur[k].src = a)
      PROVE  HasSource(rx'[k], a) \/ (cur'[k] # None /\ cur'[k].src = a)
  <2>1. StartPass(n) \/ UNCHANGED <<rx, cur>>
    BY DEF Check, CheckCIM, StartTimer, CheckWait, CheckAssigned, FallThrough,
           CheckPermitted, CheckInitialized
  <2> QED BY <1>4, <2>1, PassSource
<1>5. ASSUME NEW m \in Node, NEW k \in Node, NEW a, Coming(m, k, a)
      PROVE  Coming(m, k, a)'
  BY <1>1, <1>4, <1>5 DEF Coming
<1> QED BY <1>1, <1>2, <1>3, <1>5

(* A step of receivedFrame() drops a frame from sight only at n itself; if *)
(* the frame bears n's own alias, n answers with it or gives it up.        *)
LEMMA ReceiveKeeps ==
  ASSUME TypeOK, NEW n \in Node, receivedFrame(n)
  PROVE  /\ \A m, k \in Node : \A a : k # n /\ Coming(m, k, a) => Coming(m, k, a)'
         /\ \A m \in Node : \A a : Coming(m, n, a) /\ a # cur[n].src => Coming(m, n, a)'
         /\ \A m \in Node : m # n => state'[m] = state[m] /\ pos'[m] = pos[m]
         /\ \/ state'[n] = INITIAL
            \/ /\ state'[n] = state[n] /\ pos'[n] = pos[n]
               /\ cur[n].src = getAlias(n) => HasSource(tx'[n], getAlias(n))
<1>0. EndPass(n) /\ rx' = rx
  BY DEF receivedFrame, DefendAlias, GiveUpAlias, AnswerRequest, IgnoreFrame
<1>1. /\ \A m \in Node : \A a : HasSource(tx[m], a) => HasSource(tx'[m], a)
      /\ DefendAlias(n) => HasSource(tx'[n], getAlias(n))
  <2>1. ASSUME NEW k \in Kind, Send(n, Fr(k, getAlias(n)))
        PROVE  /\ \A m \in Node : \A a : HasSource(tx[m], a) => HasSource(tx'[m], a)
               /\ HasSource(tx'[n], getAlias(n))
    BY <2>1, SendSource
  <2>2. "RIM" \in Kind /\ "AMR" \in Kind /\ Reply(cur[n]) \in Kind
    BY DEF Kind, Reply
  <2>3. \/ \E k \in Kind : Send(n, Fr(k, getAlias(n)))
        \/ UNCHANGED tx
    BY <2>2 DEF receivedFrame, DefendAlias, GiveUpAlias, AnswerRequest, IgnoreFrame
  <2>4. DefendAlias(n) => Send(n, Fr("RIM", getAlias(n)))
    BY DEF DefendAlias
  <2> QED BY <2>1, <2>2, <2>3, <2>4
<1>2. ASSUME NEW m \in Node, NEW k \in Node, NEW a, Coming(m, k, a),
             k # n \/ a # cur[n].src
      PROVE  Coming(m, k, a)'
  <2>1. \/ HasSource(tx[m], a) \/ HasSource(rx[k], a)
        \/ (k # n /\ cur[k] # None /\ cur[k].src = a)
    BY <1>2 DEF Coming
  <2>2. k # n => cur'[k] = cur[k]
    BY <1>0, EndPassType
  <2> QED BY <1>0, <1>1, <2>1, <2>2 DEF Coming
<1>3. ASSUME NEW m \in Node, m # n
      PROVE  state'[m] = state[m] /\ pos'[m] = pos[m]
  BY <1>3 DEF receivedFrame, DefendAlias, GiveUpAlias, AnswerRequest, IgnoreFrame, TypeOK
<1>4. \/ state'[n] = INITIAL
      \/ /\ state'[n] = state[n] /\ pos'[n] = pos[n]
         /\ cur[n].src = getAlias(n) => DefendAlias(n)
  <2>1. CASE GiveUpAlias(n)
    BY <2>1 DEF GiveUpAlias, TypeOK
  <2>2. CASE DefendAlias(n)
    BY <2>2 DEF DefendAlias
  <2>3. CASE AnswerRequest(n) \/ IgnoreFrame(n)
    BY <2>3 DEF AnswerRequest, IgnoreFrame, OwnAlias
  <2> QED BY <2>1, <2>2, <2>3 DEF receivedFrame
<1> QED BY <1>1, <1>2, <1>3, <1>4

LEMMA ModSmall ==
  ASSUME NEW i \in Nat, NEW w \in Nat, i < w
  PROVE  i % w = i
OBVIOUS

(* When the wait cannot reach the end of millis()'s range, the comparison  *)
(* in check() says what it means.                                          *)
LEMMA TimeUpMeans ==
  ASSUME TypeOK, WaitBounded, NoWrap, NEW n \in Node, Waiting(n)
  PROVE  /\ timer[n] \in Nat /\ clock[n] \in Nat
         /\ timer[n] + Wait + 1 < Wrap
         /\ TimeUp(n) <=> clock[n] > timer[n] + Wait
<1>1. Wait \in Nat /\ Wrap \in Nat
  BY LinkAssumption
<1>2. timer[n] \in 0 .. Wrap - 1 /\ clock[n] \in 0 .. Wrap - 1
  BY DEF TypeOK
<1>3. timer[n] + Wait + 1 < Wrap
  BY DEF WaitBounded, NoWrap
<1>4. timer[n] + Wait \in Nat /\ timer[n] + Wait < Wrap
  BY <1>1, <1>2, <1>3
<1>5. (timer[n] + Wait) % Wrap = timer[n] + Wait
  BY <1>1, <1>4, ModSmall
<1> QED BY <1>1, <1>2, <1>3, <1>5 DEF TimeUp

(* A node's own steps change its wait only to start or to end it. *)
LEMMA PassWait ==
  ASSUME TypeOK, NEW n \in Node, Pass(n)
  PROVE  /\ \A m \in Node : m # n => /\ state'[m] = state[m]
                                 /\ timer'[m] = timer[m] /\ clock'[m] = clock[m]
         /\ Waiting(n)' => \/ /\ Waiting(n)
                              /\ timer'[n] = timer[n] /\ clock'[n] = clock[n]
                           \/ clock'[n] = timer'[n] /\ timer'[n] \in Uptime
         /\ Reserved(n)' => Reserved(n) \/ (Waiting(n) /\ TimeUp(n))
<1> USE DEF time
<1>0. /\ state \in [Node -> State] /\ timer \in [Node -> 0 .. Wrap - 1]
      /\ clock \in [Node -> 0 .. Wrap - 1] /\ PassOK(n)
  BY DEF TypeOK
<1> USE DEF Waiting, Reserved, INITIAL, WAIT_CONFIRM, ALIAS_ASSIGNED, PERMITTED, INITIALIZED
<1>1. CASE CheckCIM(n)
  BY <1>0, <1>1 DEF CheckCIM, TrySend
<1>2. CASE StartTimer(n)
  BY <1>0, <1>2 DEF StartTimer
<1>3. CASE CheckWait(n)
  BY <1>0, <1>3 DEF CheckWait, StopTimer
<1>4. CASE CheckAssigned(n)
  BY <1>0, <1>4 DEF CheckAssigned, TrySend
<1>5. CASE FallThrough(n)
  BY <1>0, <1>5 DEF FallThrough, TrySend, PassOK
<1>6. CASE CheckPermitted(n)
  BY <1>0, <1>6 DEF CheckPermitted, TrySend
<1>7. CASE CheckInitialized(n)
  BY <1>7 DEF CheckInitialized
<1>8. CASE DefendAlias(n) \/ AnswerRequest(n) \/ IgnoreFrame(n)
  BY <1>8 DEF DefendAlias, AnswerRequest, IgnoreFrame
<1>9. CASE GiveUpAlias(n)
  BY <1>0, <1>9 DEF GiveUpAlias, StopTimer
<1> QED BY <1>1, <1>2, <1>3, <1>4, <1>5, <1>6, <1>7, <1>8, <1>9
        DEF Pass, Check, receivedFrame

(* The wait stays bounded. *)
LEMMA WaitBoundedKept ==
  ASSUME TypeOK, WaitBounded, NoWrap, Next
  PROVE  WaitBounded'
<1>1. ASSUME NEW n \in Node, Pass(n)
      PROVE  WaitBounded'
  <2>1. ASSUME NEW m \in Node, Waiting(m)'
        PROVE  timer'[m] \in Uptime /\ clock'[m] \in timer'[m] .. timer'[m] + Wait + 1
    <3>1. Wait \in Nat /\ Uptime \subseteq Nat
      BY LinkAssumption
    <3>2. CASE m # n
      <4>1. state'[m] = state[m] /\ timer'[m] = timer[m] /\ clock'[m] = clock[m]
        BY <1>1, <3>2, PassWait
      <4>2. Waiting(m)
        BY <2>1, <4>1 DEF Waiting
      <4>3. timer[m] \in Uptime /\ clock[m] \in timer[m] .. timer[m] + Wait + 1
        BY <4>2 DEF WaitBounded
      <4> QED BY <4>1, <4>3
    <3>3. CASE m = n
      <4>1. \/ Waiting(n) /\ timer'[n] = timer[n] /\ clock'[n] = clock[n]
            \/ clock'[n] = timer'[n] /\ timer'[n] \in Uptime
        BY <1>1, <2>1, <3>3, PassWait
      <4>2. Waiting(n) => timer[n] \in Uptime /\ clock[n] \in timer[n] .. timer[n] + Wait + 1
        BY DEF WaitBounded
      <4>3. \A t \in Uptime : t \in t .. t + Wait + 1
        BY <3>1
      <4> QED BY <3>3, <4>1, <4>2, <4>3
    <3> QED BY <3>2, <3>3
  <2> QED BY <2>1 DEF WaitBounded
<1>2. CASE Tick
  <2>1. ASSUME NEW m \in Node, Waiting(m)'
        PROVE  timer'[m] \in Uptime /\ clock'[m] \in timer'[m] .. timer'[m] + Wait + 1
    <3>1. Waiting(m) /\ ~TimeUp(m) /\ timer'[m] = timer[m]
      BY <1>2, <2>1 DEF Tick, Waiting
    <3>2. /\ Wait \in Nat /\ Wrap \in Nat
          /\ timer[m] \in Uptime /\ clock[m] \in timer[m] .. timer[m] + Wait + 1
      BY <3>1, LinkAssumption DEF WaitBounded
    <3>3. /\ timer[m] \in Nat /\ clock[m] \in Nat /\ timer[m] + Wait + 1 < Wrap
          /\ clock[m] <= timer[m] + Wait
      BY <3>1, <3>2, TimeUpMeans
    <3>4. clock[m] + 1 \in Nat /\ clock[m] + 1 < Wrap
      BY <3>2, <3>3
    <3>5. clock'[m] = (clock[m] + 1) % Wrap
      BY <1>2, <3>1 DEF Tick
    <3>6. clock'[m] = clock[m] + 1
      BY <3>2, <3>4, <3>5, ModSmall
    <3> QED BY <3>1, <3>2, <3>3, <3>6
  <2> QED BY <2>1 DEF WaitBounded
<1>3. CASE Ask \/ \E n \in Node : Boot(n) \/ Transmit(n)
  BY <1>3 DEF Ask, Boot, Transmit, WaitBounded, Waiting, time
<1> QED BY <1>1, <1>2, <1>3 DEF Next

(* Nobody claims an alias unnoticed: the frames that tell of a conflict    *)
(* stay in sight until one of the two gives up.                            *)
LEMMA ConflictKept ==
  ASSUME TypeOK, ConflictInFlight, ~Overrun, Next
  PROVE  ConflictInFlight'
<1> SUFFICES ASSUME NEW m \in Node, NEW k \in Node, m # k,
                    getAlias(m)' = getAlias(k)', state'[m] # INITIAL, state'[k] # INITIAL
             PROVE  Coming(m, k, getAlias(k))' \/ Coming(k, m, getAlias(k))'
  BY DEF ConflictInFlight
<1>1. ASSUME NEW i \in Node, NEW j \in Node, i # j, getAlias(i) = getAlias(j),
             state[i] # INITIAL, state[j] # INITIAL
      PROVE  Coming(i, j, getAlias(j)) \/ Coming(j, i, getAlias(j))
  BY <1>1 DEF ConflictInFlight
<1>2. ASSUME NEW n \in Node, Check(n)
      PROVE  Coming(m, k, getAlias(k))' \/ Coming(k, m, getAlias(k))'
  <2>1. /\ getAlias(m)' = getAlias(m) /\ getAlias(k)' = getAlias(k)
        /\ getAlias(n)' = getAlias(n)
    BY <1>2, CheckKeeps DEF getAlias
  <2>2. CASE state[m] # INITIAL /\ state[k] # INITIAL
    BY <1>1, <1>2, <2>1, <2>2, CheckKeeps
  <2>3. CASE state[m] = INITIAL
    <3>1. m = n /\ HasSource(tx'[m], getAlias(m))
      BY <1>2, <2>3, CheckKeeps
    <3> QED BY <2>1, <3>1 DEF Coming
  <2>4. CASE state[k] = INITIAL
    <3>1. k = n /\ HasSource(tx'[k], getAlias(k))
      BY <1>2, <2>4, CheckKeeps
    <3> QED BY <2>1, <3>1 DEF Coming
  <2> QED BY <2>2, <2>3, <2>4
<1>3. ASSUME NEW n \in Node, receivedFrame(n)
      PROVE  Coming(m, k, getAlias(k))' \/ Coming(k, m, getAlias(k))'
  <2>1. /\ getAlias(m)' = getAlias(m) /\ getAlias(k)' = getAlias(k)
        /\ state'[m] = state[m] /\ state'[k] = state[k]
    BY <1>3, ReceiveKeeps DEF getAlias
  <2>2. Coming(m, k, getAlias(k)) \/ Coming(k, m, getAlias(k))
    BY <1>1, <2>1
  <2>3. CASE (m = n \/ k = n) /\ cur[n].src = getAlias(k)
    <3>1. HasSource(tx'[n], getAlias(n))
      BY <1>3, <2>1, <2>3, ReceiveKeeps
    <3> QED BY <2>1, <2>3, <3>1 DEF Coming
  <2>4. CASE (m # n /\ k # n) \/ cur[n].src # getAlias(k)
    BY <1>3, <2>1, <2>2, <2>4, ReceiveKeeps
  <2> QED BY <2>3, <2>4
<1>4. ASSUME NEW n \in Node, Boot(n)
      PROVE  Coming(m, k, getAlias(k))' \/ Coming(k, m, getAlias(k))'
  <2>1. state[n] = INITIAL /\ UNCHANGED <<state, tx, rx, cur>>
    BY <1>4 DEF Boot, TypeOK, PassOK
  <2>2. m # n /\ k # n
    BY <2>1
  <2>3. getAlias(m)' = getAlias(m) /\ getAlias(k)' = getAlias(k)
    BY <1>4, <2>2 DEF Boot, TypeOK, getAlias
  <2> QED BY <1>1, <2>1, <2>3 DEF Coming
<1>5. ASSUME NEW n \in Node, Transmit(n)
      PROVE  Coming(m, k, getAlias(k))' \/ Coming(k, m, getAlias(k))'
  <2>1. /\ tx[n] # << >> /\ tx[n] \in Seq(Frame) /\ Head(tx[n]) \in Frame
        /\ Broadcast(n, Head(tx[n]))
        /\ tx'[n] = Tail(tx[n]) /\ \A i \in Node : i # n => tx'[i] = tx[i]
        /\ UNCHANGED <<on, state, pos, cur>>
    BY <1>5 DEF Transmit, TypeOK
  <2>2. /\ \A i \in Node : \A a : HasSource(rx[i], a) => HasSource(rx'[i], a)
        /\ \A i \in Node : i # n /\ on[i] => HasSource(rx'[i], Head(tx[n]).src)
    BY <2>1, BroadcastSource
  <2>3. ASSUME NEW i \in Node, NEW j \in Node, i # j, on[j], NEW a, Coming(i, j, a)
        PROVE  Coming(i, j, a)'
    <3>1. CASE HasSource(rx[j], a) \/ (cur[j] # None /\ cur[j].src = a)
      BY <2>1, <2>2, <3>1 DEF Coming
    <3>2. CASE HasSource(tx[i], a) /\ i # n
      BY <2>1, <3>2 DEF Coming
    <3>3. CASE HasSource(tx[i], a) /\ i = n
      <4>1. Head(tx[n]).src = a \/ HasSource(Tail(tx[n]), a)
        BY <2>1, <3>3, TailSource
      <4>2. Head(tx[n]).src = a => HasSource(rx'[j], a)
        BY <2>2, <2>3, <3>3
      <4> QED BY <2>1, <3>3, <4>1, <4>2 DEF Coming
    <3> QED BY <2>3, <3>1, <3>2, <3>3 DEF Coming
  <2>4. getAlias(m)' = getAlias(m) /\ getAlias(k)' = getAlias(k)
    BY <2>1 DEF getAlias
  <2>5. on[m] /\ on[k]
    BY <2>1 DEF TypeOK, PassOK
  <2> QED BY <1>1, <2>1, <2>3, <2>4, <2>5
<1>6. CASE Ask
  <2>1. PICK f \in Request : Broadcast(None, f)
    BY <1>6 DEF Ask
  <2>2. f \in Frame
    BY LinkAssumption DEF Request, Frame, Kind, Target
  <2>3. /\ \A i \in Node : \A a : HasSource(rx[i], a) => HasSource(rx'[i], a)
        /\ UNCHANGED <<state, pos, tx, cur>>
    BY <1>6, <2>1, <2>2, BroadcastSource DEF Ask
  <2>4. getAlias(m)' = getAlias(m) /\ getAlias(k)' = getAlias(k)
    BY <2>3 DEF getAlias
  <2> QED BY <1>1, <2>3, <2>4 DEF Coming
<1>7. CASE Tick
  <2>1. UNCHANGED <<state, pos, tx, rx, cur>>
    BY <1>7 DEF Tick
  <2> QED BY <1>1, <2>1 DEF Coming, getAlias
<1> QED BY <1>2, <1>3, <1>4, <1>5, <1>6, <1>7 DEF Next, Pass

(* At a tick nothing is in sight. *)
LEMMA QuietSees ==
  ASSUME TypeOK, NEW m \in Node, NEW k \in Node, Quiet(m), Quiet(k), NEW a
  PROVE  ~Coming(m, k, a)
BY EmptySource DEF Quiet, Coming, TypeOK, PassOK

(* No second node becomes sure of an alias. *)
LEMMA SureKept ==
  ASSUME TypeOK, ClaimInv, NoWrap, Next
  PROVE  OneSure'
<1> USE DEF ClaimInv
<1> SUFFICES ASSUME NEW m \in Node, NEW k \in Node, m # k, Sure(m)', Sure(k)'
             PROVE  getAlias(m)' # getAlias(k)'
  BY DEF OneSure
<1>1. ASSUME NEW n \in Node, Waiting(n), TimeUp(n)
      PROVE  Sure(n)
  BY <1>1, TimeUpMeans, LinkAssumption DEF Sure
<1>2. ASSUME NEW n \in Node, Pass(n), NEW i \in Node, Sure(i)'
      PROVE  Sure(i) /\ getAlias(i)' = getAlias(i)
  <2>1. Sure(i)
    <3>1. CASE i = n
      BY <1>1, <1>2, <3>1, PassWait DEF Sure
    <3>2. CASE i # n
      BY <1>2, <3>2, PassWait DEF Sure, Waiting, Reserved
    <3> QED BY <3>1, <3>2
  <2>2. state'[i] # INITIAL
    BY <1>2 DEF Sure, Waiting, Reserved,
                INITIAL, WAIT_CONFIRM, ALIAS_ASSIGNED, PERMITTED, INITIALIZED
  <2>3. pos'[i] = pos[i]
    BY <1>2, <2>2, CheckKeeps, ReceiveKeeps DEF Pass
  <2> QED BY <2>1, <2>3 DEF getAlias
<1>3. CASE \E n \in Node : Pass(n)
  BY <1>2, <1>3 DEF OneSure
<1>4. ASSUME NEW n \in Node, Boot(n)
      PROVE  getAlias(m)' # getAlias(k)'
  <2>1. state[n] = INITIAL /\ UNCHANGED <<state, timer, clock>>
    BY <1>4 DEF Boot, TypeOK, PassOK, time
  <2>2. Sure(m) /\ Sure(k)
    BY <2>1 DEF Sure, Waiting, Reserved
  <2>3. m # n /\ k # n
    BY <2>1, <2>2 DEF Sure, Waiting, Reserved,
                      INITIAL, WAIT_CONFIRM, ALIAS_ASSIGNED, PERMITTED, INITIALIZED
  <2>4. getAlias(m)' = getAlias(m) /\ getAlias(k)' = getAlias(k)
    BY <1>4, <2>3 DEF Boot, TypeOK, getAlias
  <2> QED BY <2>2, <2>4 DEF OneSure
<1>5. CASE Ask \/ \E n \in Node : Transmit(n)
  <2>1. UNCHANGED <<state, pos, timer, clock>>
    BY <1>5 DEF Ask, Transmit, time
  <2> QED BY <2>1 DEF OneSure, Sure, Waiting, Reserved, getAlias
<1>6. CASE Tick
  <2>1. UNCHANGED <<state, pos>> /\ Quiet(m) /\ Quiet(k)
    BY <1>6 DEF Tick
  <2>2. state[m] # INITIAL /\ state[k] # INITIAL
    BY <2>1 DEF Sure, Waiting, Reserved,
                INITIAL, WAIT_CONFIRM, ALIAS_ASSIGNED, PERMITTED, INITIALIZED
  <2>3. getAlias(m) # getAlias(k)
    BY <2>1, <2>2, QuietSees DEF ConflictInFlight
  <2> QED BY <2>1, <2>3 DEF getAlias
<1> QED BY <1>3, <1>4, <1>5, <1>6 DEF Next

(* The claim invariant holds in every state: when frames are not dropped   *)
(* and the wait does not reach the end of millis()'s range.                *)
THEOREM ClaimsNoticed ==
  ASSUME ~Overrun, NoWrap
  PROVE  Spec => []ClaimInv
<1>1. Init => ClaimInv
  BY DEF Init, ClaimInv, WaitBounded, ConflictInFlight, OneSure, Sure, Waiting, Reserved,
         INITIAL, WAIT_CONFIRM, ALIAS_ASSIGNED, PERMITTED, INITIALIZED
<1>2. TypeOK /\ ClaimInv /\ [Next]_vars => ClaimInv'
  <2>1. ASSUME TypeOK, ClaimInv, Next
        PROVE  ClaimInv'
    BY <2>1, WaitBoundedKept, ConflictKept, SureKept DEF ClaimInv
  <2>2. ASSUME ClaimInv, UNCHANGED vars
        PROVE  ClaimInv'
    BY <2>2 DEF vars, ClaimInv, WaitBounded, ConflictInFlight, OneSure, Coming, Sure,
                Waiting, Reserved, getAlias
  <2> QED BY <2>1, <2>2
<1> QED BY <1>1, <1>2, LinkTypes, PTL DEF Spec

(* No two nodes hold the same alias, under the same two assumptions: the   *)
(* loops keep up with the bus, and no wait reaches the end of millis().    *)
THEOREM AliasesExclusive ==
  ASSUME ~Overrun, NoWrap
  PROVE  Spec => []ExclusiveReservation
<1>1. ClaimInv => ExclusiveReservation
  BY DEF ClaimInv, OneSure, Sure, ExclusiveReservation
<1> QED BY <1>1, ClaimsNoticed, PTL

(* The allocation implements the abstract registry of aliases. *)
THEOREM LinkImplementsRegistry ==
  ASSUME ~Overrun, NoWrap
  PROVE  Spec => ImplementsRegistry
<1> DEFINE held == [n \in Node |-> IF Reserved(n) THEN getAlias(n) ELSE None]
<1>1. Init => Registry!Init
  BY DEF Init, Registry!Init, Reserved,
         INITIAL, ALIAS_ASSIGNED, PERMITTED, INITIALIZED
<1>2. TypeOK /\ ClaimInv /\ ClaimInv' /\ [Next]_vars => [Registry!Next]_held
  <2> SUFFICES ASSUME TypeOK, ClaimInv, ClaimInv', [Next]_vars
               PROVE  [Registry!Next]_held
    OBVIOUS
  <2>1. ASSUME NEW n \in Node, Pass(n)
        PROVE  [Registry!Next]_held
    <3>1. ASSUME NEW m \in Node, m # n
          PROVE  held'[m] = held[m]
      BY <2>1, <3>1, PassWait, CheckKeeps, ReceiveKeeps DEF Pass, Reserved, getAlias
    <3>2. getAlias(n) \in Alias /\ getAlias(n) # None
      BY AliasType, NoneAssumption
    <3>3. CASE Reserved(n)' /\ Reserved(n)
      <4>1. state'[n] # INITIAL
        BY <3>3 DEF Reserved, INITIAL, ALIAS_ASSIGNED, PERMITTED, INITIALIZED
      <4>2. pos'[n] = pos[n]
        BY <2>1, <4>1, CheckKeeps, ReceiveKeeps DEF Pass
      <4>3. held'[n] = held[n]
        BY <3>3, <4>2 DEF getAlias
      <4> QED BY <3>1, <4>3
    <3>4. CASE Reserved(n)' /\ ~Reserved(n)
      <4>1. state'[n] # INITIAL
        BY <3>4 DEF Reserved, INITIAL, ALIAS_ASSIGNED, PERMITTED, INITIALIZED
      <4>2. pos'[n] = pos[n]
        BY <2>1, <4>1, CheckKeeps, ReceiveKeeps DEF Pass
      <4>3. held[n] = None /\ held'[n] = getAlias(n)
        BY <3>4, <4>2 DEF getAlias
      <4>4. ASSUME NEW m \in Node
            PROVE  held[m] # getAlias(n)
        <5>1. CASE m = n \/ ~Reserved(m)
          BY <3>2, <4>3, <5>1
        <5>2. CASE m # n /\ Reserved(m)
          <6>1. Waiting(n) /\ TimeUp(n)
            BY <2>1, <3>4, PassWait
          <6>2. Sure(n)
            BY <6>1, TimeUpMeans, LinkAssumption DEF ClaimInv, Sure
          <6> QED BY <5>2, <6>2 DEF ClaimInv, OneSure, Sure
        <5> QED BY <5>1, <5>2
      <4>5. held' = [held EXCEPT ![n] = getAlias(n)]
        BY <3>1, <4>3
      <4> HIDE DEF held
      <4>6. Registry!Reserve(n, getAlias(n))
        BY <4>3, <4>4, <4>5 DEF Registry!Reserve, Registry!Free, held
      <4> QED BY <3>2, <4>6 DEF Registry!Next
    <3>5. CASE ~Reserved(n)' /\ Reserved(n)
      <4>1. held[n] # None /\ held'[n] = None
        BY <3>2, <3>5
      <4>2. held' = [held EXCEPT ![n] = None]
        BY <3>1, <4>1
      <4>3. Registry!Release(n)
        BY <4>1, <4>2 DEF Registry!Release
      <4> QED BY <4>3 DEF Registry!Next
    <3>6. CASE ~Reserved(n)' /\ ~Reserved(n)
      <4>1. held'[n] = held[n]
        BY <3>6
      <4> QED BY <3>1, <4>1
    <3> QED BY <3>3, <3>4, <3>5, <3>6
  <2>2. ASSUME NEW n \in Node, Boot(n)
        PROVE  [Registry!Next]_held
    <3>1. state' = state /\ state[n] = INITIAL /\ \A m \in Node : m # n => pos'[m] = pos[m]
      BY <2>2 DEF Boot, TypeOK, PassOK
    <3>2. ~Reserved(n)
      BY <3>1 DEF Reserved, INITIAL, ALIAS_ASSIGNED, PERMITTED, INITIALIZED
    <3> QED BY <3>1, <3>2 DEF Reserved, getAlias
  <2>3. CASE UNCHANGED <<state, pos>>
    BY <2>3 DEF Reserved, getAlias
  <2> QED BY <2>1, <2>2, <2>3 DEF Next, Transmit, Ask, Tick, vars
<1> QED BY <1>1, <1>2, LinkTypes, ClaimsNoticed, PTL
        DEF Spec, ImplementsRegistry, Registry!Spec
==============================================================================
