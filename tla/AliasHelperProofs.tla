------------------------- MODULE AliasHelperProofs -------------------------
(***************************************************************************)
(* A virtual node speaks only under the alias its slot has reserved, for   *)
(* any boards, nodes, slots, generators and buffers; and nodes of two      *)
(* boards do not go on under one alias unnoticed.                          *)
(***************************************************************************)
EXTENDS AliasHelper, SequenceTheorems, TLAPS

SlotType ==
  [state : States, alias : Alias, gen : 0 .. Len(Draw), nalias : Alias \cup {0}, init : BOOLEAN]

(* A slot that has asked for its alias has told the node of it, and only a *)
(* slot that has the alias for good lets its node speak.                   *)
Settled(x) ==
  /\ x.state \notin {"RELEASING", "CID1"} => x.nalias = x.alias
  /\ x.init => x.state \in Permitted

SlotsSound == \A s \in Slot : slot[s] \in SlotType /\ Settled(slot[s])

----------------------------------------------------------------------------
(* The generator's index stays in the sequence of what it draws. *)
LEMMA AfterRange ==
  ASSUME NEW i \in 0 .. Len(Draw)
  PROVE  /\ After(i) \in 0 .. Len(Draw) /\ Draw[After(i)] \in Alias
<1>1. Draw \in Seq(Nat \ {0}) /\ Len(Draw) > 1
  BY AliasAssumption
<1>2. Len(Draw) \in Nat
  BY <1>1
<1>3. DOMAIN Draw = 1 .. Len(Draw)
  BY <1>1, LenProperties
<1>4. After(i) \in 1 .. Len(Draw)
  <2> DEFINE n == Len(Draw)
  <2>1. n \in Nat /\ n > 1 /\ i \in 0 .. n
    BY <1>1, <1>2
  <2>2. After(i) = IF i = n THEN 1 ELSE i + 1
    BY DEF After
  <2> HIDE DEF n
  <2>3. After(i) \in 1 .. n
    BY <2>1, <2>2
  <2> QED BY <2>3 DEF n
<1>5. Draw[After(i)] \in Alias
  BY <1>3, <1>4 DEF Alias
<1> QED BY <1>2, <1>4, <1>5

(* A reallocation takes the node out of operation. *)
LEMMA ReAllocatedSound ==
  ASSUME NEW x \in SlotType
  PROVE  ReAllocated(x) \in SlotType /\ Settled(ReAllocated(x))
<1> DEFINE Gen == 0 .. Len(Draw)
<1>1. x.gen \in Gen
  BY DEF SlotType
<1>2. \A i \in Gen : After(i) \in Gen /\ Draw[After(i)] \in Alias
  BY AfterRange
<1>3. SlotType = [state : States, alias : Alias, gen : Gen, nalias : Alias \cup {0}, init : BOOLEAN]
  BY DEF SlotType
<1> HIDE DEF Gen
<1>4. PICK j \in Gen, a \in Alias :
        ReAllocated(x) = [x EXCEPT !.init = FALSE, !.state = "RELEASING", !.gen = j, !.alias = a]
  BY <1>1, <1>2 DEF ReAllocated
<1>5. "RELEASING" \in States
  BY DEF States, Does
<1>6. ReAllocated(x) \in SlotType
  BY <1>3, <1>4, <1>5
<1>7. ReAllocated(x).state = "RELEASING" /\ ~ReAllocated(x).init
  BY <1>3, <1>4
<1> QED BY <1>6, <1>7 DEF Settled

(* checkMessage() and verifyNID() keep a slot sound, *)
LEMMA DeliveredSound ==
  ASSUME NEW x \in SlotType, Settled(x), NEW f, NEW internal \in BOOLEAN
  PROVE  Verified(Checked(x, f, internal), f) \in SlotType /\ Settled(Verified(Checked(x, f, internal), f))
<1> DEFINE y == Checked(x, f, internal)
<1>1. y \in SlotType /\ Settled(y)
  <2>1. CASE y = x
    BY <2>1
  <2>2. CASE y = ReAllocated(x)
    BY <2>2, ReAllocatedSound
  <2>3. CASE x.state \in {"INIT", "READY"} /\ y = [x EXCEPT !.state = "RESENDRID"]
    BY <2>3 DEF SlotType, Settled, States, Does, Permitted
  <2> QED BY <2>1, <2>2, <2>3 DEF Checked
<1> HIDE DEF y
<1>2. Verified(y, f) \in SlotType /\ Settled(Verified(y, f))
  BY <1>1 DEF Verified, SlotType, Settled, States, Does, Permitted
<1> QED BY <1>2 DEF y

(* ... of all slots of a board. *)
LEMMA DeliverSound ==
  ASSUME NEW sl, \A s \in Slot : sl[s] \in SlotType /\ Settled(sl[s]),
         sl \in [Slot -> SlotType],
         NEW b \in Board, NEW f, NEW internal \in BOOLEAN
  PROVE  /\ Deliver(sl, b, f, internal) \in [Slot -> SlotType]
         /\ \A s \in Slot : Settled(Deliver(sl, b, f, internal)[s])
<1>1. CASE f = None
  BY <1>1 DEF Deliver
<1>2. CASE f # None
  BY <1>2, DeliveredSound DEF Deliver
<1> QED BY <1>1, <1>2

(* The turn of a slot. *)
LEMMA TurnSound ==
  ASSUME NEW s \in Slot, NEW x \in SlotType, Settled(x), NEW free \in BOOLEAN
  PROVE  /\ Turn(s, x, free)[1] \in SlotType /\ Settled(Turn(s, x, free)[1])
         /\ Turn(s, x, free)[2] \in {<< >>} \cup {<<f>> : f \in Messages}
<1> DEFINE y == IF x.state = "CID1" THEN [x EXCEPT !.nalias = x.alias] ELSE x
<1>1. y \in SlotType /\ Settled(y) /\ y.state = x.state /\ y.init = x.init
      /\ (x.state = "CID1" => y.nalias = y.alias) /\ y.nalias \in Alias \cup {0}
  BY DEF SlotType, Settled
<1> DEFINE z == [y EXCEPT !.state = Does[x.state][2], !.init = (@ \/ x.state = "INIT")]
<1> HIDE DEF y
<1>2. ASSUME x.state # "READY"
      PROVE  /\ z \in SlotType /\ Settled(z)
             /\ Frame(Does[x.state][1], y.nalias) \in Messages
  <2>1. x.state \in DOMAIN Does
    BY <1>2 DEF SlotType, States
  <2>2. x.state \in {"RELEASING", "CID1", "CID2", "CID3", "CID4", "RID", "AMD", "INIT",
                     "RESENDRID", "VERIFIED"}
    BY <2>1 DEF Does
  <2>3. /\ Does[x.state][1] \in Kinds
        /\ Does[x.state][2] \in States
        /\ x.state \in {"INIT", "RESENDRID", "VERIFIED"} => Does[x.state][2] = "READY"
        /\ x.state = "RELEASING" => Does[x.state][2] = "CID1"
    BY <2>2 DEF Does, States, Kinds
  <2>4. z.init = (y.init \/ x.state = "INIT") /\ z.state = Does[x.state][2]
        /\ z.nalias = y.nalias /\ z.alias = y.alias
    BY <1>1 DEF SlotType
  <2>5. z \in SlotType
    BY <1>1, <2>3 DEF SlotType
  <2>6. z.init => z.state \in Permitted
    BY <1>1, <2>2, <2>3, <2>4 DEF Settled, Permitted
  <2>7. z.state \notin {"RELEASING", "CID1"} => z.nalias = z.alias
    BY <1>1, <2>2, <2>3, <2>4 DEF Settled
  <2>8. Frame(Does[x.state][1], y.nalias) \in Messages
    BY <1>1, <2>3 DEF Frame, Messages
  <2> QED BY <2>5, <2>6, <2>7, <2>8 DEF Settled
<1>3. CASE Turn(s, x, free) = <<y, << >>>>
  BY <1>1, <1>3
<1>4. CASE x.state # "READY" /\ Turn(s, x, free) = <<z, <<Frame(Does[x.state][1], y.nalias)>>>>
  BY <1>2, <1>4
<1> QED BY <1>3, <1>4 DEF Turn, y

----------------------------------------------------------------------------
(* A slot that was READY as x is so as y, although its board received f. *)
Stays(x, y, f) ==
  x.state = "READY" /\ y.alias = x.alias /\ (f # None => ~Telling(f, x.alias))

(* What is delivered leaves a slot READY only if it was so before, and the *)
(* frame does not tell it to give way,                                     *)
LEMMA DeliveredReady ==
  ASSUME NEW x \in SlotType, NEW f, NEW internal \in BOOLEAN,
         Verified(Checked(x, f, internal), f).state = "READY"
  PROVE  /\ Verified(Checked(x, f, internal), f) = x /\ x.state = "READY"
         /\ internal = FALSE => ~Telling(f, x.alias)
<1> DEFINE y == Checked(x, f, internal)
<1>1. y = x \/ y = ReAllocated(x) \/ y = [x EXCEPT !.state = "RESENDRID"]
  BY DEF Checked
<1>2. ReAllocated(x).state = "RELEASING" /\ ReAllocated(x) \in SlotType
  <2>1. PICK g, a : ReAllocated(x) = [x EXCEPT !.init = FALSE, !.state = "RELEASING", !.gen = g, !.alias = a]
    BY DEF ReAllocated
  <2> QED BY <2>1, ReAllocatedSound DEF SlotType
<1>3. ASSUME x.state = "READY", internal = FALSE, Telling(f, x.alias)
      PROVE  y = ReAllocated(x)
  BY <1>3 DEF Telling, Checked, Collides
<1> HIDE DEF y
<1>4. [x EXCEPT !.state = "RESENDRID"].state = "RESENDRID"
  BY DEF SlotType
<1>5. y \in SlotType
  BY <1>1, <1>2 DEF SlotType, States, Does
<1>6. Verified(y, f).state = "READY" => Verified(y, f) = y
  BY <1>5 DEF Verified, SlotType
<1>7. Verified(y, f) = y /\ y.state = "READY"
  BY <1>6 DEF y
<1>8. y = x /\ x.state = "READY"
  BY <1>1, <1>2, <1>4, <1>7
<1>9. internal = FALSE => ~Telling(f, x.alias)
  BY <1>2, <1>3, <1>7, <1>8
<1> QED BY <1>7, <1>8, <1>9 DEF y

LEMMA DeliveredEcho ==
  ASSUME NEW x \in SlotType, NEW f, Verified(Checked(x, f, TRUE), f).state = "READY"
  PROVE  Verified(Checked(x, f, TRUE), f) = x /\ x.state = "READY"
<1>1. PICK i \in BOOLEAN : i = TRUE
  OBVIOUS
<1>2. Verified(Checked(x, f, i), f).state = "READY"
  BY <1>1
<1>3. Verified(Checked(x, f, i), f) = x /\ x.state = "READY"
  BY <1>2, DeliveredReady
<1> QED BY <1>1, <1>3, Zenon

LEMMA DeliveredFrame ==
  ASSUME NEW x \in SlotType, NEW f, Verified(Checked(x, f, FALSE), f).state = "READY"
  PROVE  Verified(Checked(x, f, FALSE), f) = x /\ x.state = "READY" /\ ~Telling(f, x.alias)
<1>1. PICK i \in BOOLEAN : i = FALSE
  OBVIOUS
<1>2. Verified(Checked(x, f, i), f).state = "READY"
  BY <1>1
<1>3. Verified(Checked(x, f, i), f) = x /\ x.state = "READY" /\ ~Telling(f, x.alias)
  BY <1>1, <1>2, DeliveredReady
<1> QED BY <1>1, <1>3, Zenon

(* Both deliveries of a pass, to the board b only. *)
Deliveries(sl, b, g, f) == Deliver(Deliver(sl, b, g, TRUE), b, f, FALSE)

LEMMA BothReady ==
  ASSUME NEW sl \in [Slot -> SlotType], NEW b, NEW g, NEW f,
         Deliver(sl, b, g, TRUE) \in [Slot -> SlotType]
  PROVE  \A t \in Slot :
           /\ t[1] # b => Deliveries(sl, b, g, f)[t] = sl[t]
           /\ t[1] = b /\ Deliveries(sl, b, g, f)[t].state = "READY" =>
                Stays(sl[t], Deliveries(sl, b, g, f)[t], f)
<1>1. PICK mid \in [Slot -> SlotType] : mid = Deliver(sl, b, g, TRUE)
  OBVIOUS
<1>2. PICK old : old = Deliver(mid, b, f, FALSE)
  OBVIOUS
<1>3. old = Deliveries(sl, b, g, f)
  BY <1>1, <1>2, Zenon DEF Deliveries
<1>4. ASSUME NEW t \in Slot
      PROVE  /\ t[1] # b => old[t] = sl[t]
             /\ t[1] = b /\ old[t].state = "READY" => Stays(sl[t], old[t], f)
  <2>1. CASE t[1] # b
    <3>1. mid[t] = sl[t]
      BY <1>1, <1>2, <2>1 DEF Deliver
    <3>2. old[t] = mid[t]
      BY <1>1, <1>2, <2>1 DEF Deliver
    <3> QED BY <2>1, <3>1, <3>2
  <2>2. ASSUME t[1] = b, old[t].state = "READY"
        PROVE  Stays(sl[t], old[t], f)
    <3>1. old[t] = mid[t] /\ mid[t].state = "READY" /\ (f # None => ~Telling(f, mid[t].alias))
      <4>1. CASE f = None
        BY <1>1, <1>2, <2>2, <4>1 DEF Deliver
      <4>2. CASE f # None
        <5>1. old[t] = Verified(Checked(mid[t], f, FALSE), f)
          BY <1>1, <1>2, <2>2, <4>2 DEF Deliver
        <5>2. Verified(Checked(mid[t], f, FALSE), f).state = "READY" /\ mid[t] \in SlotType
          BY <2>2, <5>1
        <5>3. Verified(Checked(mid[t], f, FALSE), f) = mid[t] /\ mid[t].state = "READY"
              /\ ~Telling(f, mid[t].alias)
          BY <5>2, DeliveredFrame
        <5> QED BY <5>1, <5>3
      <4> QED BY <4>1, <4>2
    <3>2. mid[t] = sl[t] /\ sl[t].state = "READY"
      <4>1. CASE g = None
        BY <1>1, <1>2, <3>1, <4>1 DEF Deliver
      <4>2. CASE g # None
        <5>1. mid[t] = Verified(Checked(sl[t], g, TRUE), g)
          BY <1>1, <1>2, <2>2, <4>2 DEF Deliver
        <5>2. Verified(Checked(sl[t], g, TRUE), g).state = "READY" /\ sl[t] \in SlotType
          BY <3>1, <5>1
        <5>3. Verified(Checked(sl[t], g, TRUE), g) = sl[t] /\ sl[t].state = "READY"
          BY <5>2, DeliveredEcho
        <5> QED BY <5>1, <5>3
      <4> QED BY <4>1, <4>2
    <3> QED BY <3>1, <3>2 DEF Stays
  <2> QED BY <2>1, <2>2
<1> QED BY <1>3, <1>4

(* A slot becomes READY in its turn with a frame that tells of its alias. *)
LEMMA TurnReady ==
  ASSUME NEW s \in Slot, NEW x \in SlotType, Settled(x), NEW free \in BOOLEAN,
         Turn(s, x, free)[1].state = "READY"
  PROVE  \/ x.state = "READY" /\ Turn(s, x, free)[1] = x
         \/ \E f \in Messages : /\ Turn(s, x, free)[2] = <<f>>
                               /\ Telling(f, Turn(s, x, free)[1].alias)
<1> DEFINE y == IF x.state = "CID1" THEN [x EXCEPT !.nalias = x.alias] ELSE x
           z == [y EXCEPT !.state = Does[x.state][2], !.init = (@ \/ x.state = "INIT")]
           f == Frame(Does[x.state][1], y.nalias)
<1>1. y \in SlotType /\ y.state = x.state /\ y.alias = x.alias /\ (x.state = "READY" => y = x)
  BY DEF SlotType
<1>2. Turn(s, x, free) = <<y, << >>>> \/ (x.state # "READY" /\ Turn(s, x, free) = <<z, <<f>>>>)
  BY DEF Turn
<1>3. CASE Turn(s, x, free) = <<y, << >>>>
  BY <1>1, <1>3
<1>4. CASE x.state # "READY" /\ Turn(s, x, free) = <<z, <<f>>>>
  <2>1. z.state = Does[x.state][2] /\ z.alias = x.alias
    BY <1>1 DEF SlotType
  <2>2. x.state \in {"INIT", "RESENDRID", "VERIFIED"}
    <3>1. z.state = "READY"
      <4> HIDE DEF z, f
      <4>1. Turn(s, x, free)[1] = z
        BY <1>4
      <4> QED BY <4>1
    <3>2. x.state \in DOMAIN Does
      BY <1>4 DEF SlotType, States
    <3> QED BY <2>1, <3>1, <3>2 DEF Does
  <2>3. y = x /\ x.nalias = x.alias
    BY <2>2 DEF Settled
  <2>4. Does[x.state][1] \in Kinds /\ Does[x.state][1] # "CID"
    BY <2>2 DEF Does, Kinds
  <2>5. x.alias \in Alias
    BY DEF SlotType
  <2>6. f \in Messages /\ f.kind # "CID" /\ f.src = x.alias
    BY <2>3, <2>4, <2>5 DEF Frame, Messages
  <2>7. Telling(f, z.alias)
    BY <2>1, <2>6 DEF Telling
  <2> HIDE DEF z, f
  <2>8. Turn(s, x, free)[1] = z /\ Turn(s, x, free)[2] = <<f>>
    BY <1>4
  <2> QED BY <2>6, <2>7, <2>8
<1> QED BY <1>2, <1>3, <1>4

(* A pass of a board, as a whole: the slots stay sound, and one that is    *)
(* READY afterwards was so before, or has told of it.                      *)
LEMMA PassSlots ==
  ASSUME SlotsSound, slot \in [Slot -> SlotType], handlers \subseteq Slot,
         rx \in [Board -> Seq(Messages)],
         NEW b \in Board, Pass(b)
  PROVE  /\ SlotsSound' /\ slot' \in [Slot -> SlotType]
         /\ \A t \in Slot : t[1] # b => slot'[t] = slot[t]
         /\ \E out \in Seq(Messages), n \in {0, 1} :
              /\ Len(tx[b]) + Len(out) <= TxCap
              /\ tx' = [tx EXCEPT ![b] = @ \o out]
              /\ echo' = [echo EXCEPT ![b] = IF out = << >> THEN None ELSE out[Len(out)]]
              /\ asks' = asks + n /\ (n = 1 => asks < MaxAsks)
              /\ \A t \in Slot : t[1] = b /\ slot'[t].state = "READY" =>
                   \/ Stays(slot[t], slot'[t], IF rx[b] = << >> THEN None ELSE Head(rx[b]))
                   \/ \E k \in 1 .. Len(out) : Telling(out[k], slot'[t].alias)
<1> DEFINE heard == IF rx[b] = << >> THEN None ELSE Head(rx[b])
           s == <<b, index[b]>>
           mid == Deliver(slot, b, echo[b], TRUE)
           old == Deliver(mid, b, heard, FALSE)
<1>0. PICK rejected \in Rejects(b, heard, Len(tx[b]) < TxCap) :
        LET turn == IF s \in Slot
                    THEN Turn(s, old[s], Len(tx[b]) + Len(rejected) < TxCap) ELSE <<None, << >>>>
            new == IF s \in Slot THEN [old EXCEPT ![s] = turn[1]] ELSE old
        IN  \E said \in Says(b, new) :
              LET out == rejected \o turn[2] \o said
              IN  /\ Len(tx[b]) + Len(out) <= TxCap
                  /\ slot' = new
                  /\ tx' = [tx EXCEPT ![b] = @ \o out]
                  /\ echo' = [echo EXCEPT ![b] = IF out = << >> THEN None ELSE out[Len(out)]]
                  /\ asks' = asks + Len(said)
  BY DEF Pass
<1> DEFINE turn == IF s \in Slot
                   THEN Turn(s, old[s], Len(tx[b]) + Len(rejected) < TxCap) ELSE <<None, << >>>>
           new == IF s \in Slot THEN [old EXCEPT ![s] = turn[1]] ELSE old
<1>a. PICK said \in Says(b, new) :
        LET out == rejected \o turn[2] \o said
        IN  /\ Len(tx[b]) + Len(out) <= TxCap
            /\ slot' = new
            /\ tx' = [tx EXCEPT ![b] = @ \o out]
            /\ echo' = [echo EXCEPT ![b] = IF out = << >> THEN None ELSE out[Len(out)]]
            /\ asks' = asks + Len(said)
  BY <1>0
<1>1. (rejected = << >>) \/ (\E f \in Messages : rejected = <<f>>)
  <2>1. ASSUME rejected # << >>
        PROVE  rejected = <<Frame("REJECT", heard.dst)>> /\ heard \in Messages
    <3>1. rejected = <<Frame("REJECT", heard.dst)>> /\ heard # None
      BY <2>1 DEF Rejects
    <3>2. heard # None => heard \in Messages
      BY HeadTailProperties
    <3> QED BY <3>1, <3>2
  <2>2. \A a \in Alias \cup {0} : Frame("REJECT", a) \in Messages
    BY DEF Frame, Messages, Kinds
  <2>3. \A f \in Messages : f.dst \in Alias \cup {0}
    BY DEF Messages
  <2> QED BY <2>1, <2>2, <2>3
<1>2. mid \in [Slot -> SlotType] /\ \A t \in Slot : Settled(mid[t])
  BY DeliverSound DEF SlotsSound
<1>3. old \in [Slot -> SlotType] /\ \A t \in Slot : Settled(old[t])
  <2> HIDE DEF mid
  <2>1. \A t \in Slot : mid[t] \in SlotType /\ Settled(mid[t])
    BY <1>2
  <2> QED BY <1>2, <2>1, DeliverSound
<1>d. \A t \in Slot : /\ t[1] # b => old[t] = slot[t]
                      /\ t[1] = b /\ old[t].state = "READY" => Stays(slot[t], old[t], heard)
  <2>1. mid = Deliver(slot, b, echo[b], TRUE) /\ old = Deliver(mid, b, heard, FALSE)
    OBVIOUS
  <2> HIDE DEF heard, mid, old
  <2>2. old = Deliveries(slot, b, echo[b], heard)
    BY <2>1, Zenon DEF Deliveries
  <2>3. Deliver(slot, b, echo[b], TRUE) \in [Slot -> SlotType]
    BY <1>2, <2>1, Zenon
  <2>4. \A t \in Slot :
          /\ t[1] # b => Deliveries(slot, b, echo[b], heard)[t] = slot[t]
          /\ t[1] = b /\ Deliveries(slot, b, echo[b], heard)[t].state = "READY" =>
               Stays(slot[t], Deliveries(slot, b, echo[b], heard)[t], heard)
    BY <2>3, BothReady, Zenon
  <2> QED BY <2>2, <2>4, Zenon
<1> HIDE DEF mid, old, heard
<1>4. /\ turn[2] \in {<< >>} \cup {<<f>> : f \in Messages}
      /\ s \in Slot => /\ turn[1] \in SlotType /\ Settled(turn[1])
                       /\ turn[1].state = "READY" =>
                            \/ old[s].state = "READY" /\ turn[1] = old[s]
                            \/ \E f \in Messages : turn[2] = <<f>> /\ Telling(f, turn[1].alias)
  <2>1. CASE s \in Slot
    <3>0. (Len(tx[b]) + Len(rejected) < TxCap) \in BOOLEAN
      OBVIOUS
    <3>1. PICK free \in BOOLEAN : turn = Turn(s, old[s], free)
      BY <2>1, <3>0
    <3>2. old[s] \in SlotType /\ Settled(old[s])
      BY <1>3, <2>1
    <3> HIDE DEF s, turn
    <3>3. /\ turn[2] \in {<< >>} \cup {<<f>> : f \in Messages}
          /\ turn[1] \in SlotType /\ Settled(turn[1])
      BY <2>1, <3>1, <3>2, TurnSound
    <3>4. turn[1].state = "READY" =>
            \/ old[s].state = "READY" /\ turn[1] = old[s]
            \/ \E f \in Messages : turn[2] = <<f>> /\ Telling(f, turn[1].alias)
      BY <2>1, <3>1, <3>2, TurnReady
    <3> QED BY <3>3, <3>4
  <2>2. CASE s \notin Slot
    BY <2>2
  <2> QED BY <2>1, <2>2
<1>g. s[1] = b
  OBVIOUS
<1> HIDE DEF turn, s
<1>5. /\ new \in [Slot -> SlotType] /\ \A t \in Slot : Settled(new[t])
      /\ \A t \in Slot : t # s => new[t] = old[t]
      /\ s \in Slot => new[s] = turn[1]
  BY <1>3, <1>4
<1> HIDE DEF new
<1>6. (said = << >>) \/ (asks < MaxAsks /\ \E f \in Messages : said = <<f>>)
  <2>1. \A t \in Slot : new[t].nalias \in Alias \cup {0}
    BY <1>5 DEF SlotType
  <2>2. \A a \in Alias \cup {0} : Frame("MSG", a) \in Messages
    BY DEF Frame, Messages, Kinds
  <2> QED BY <2>1, <2>2 DEF Says
<1>7. rejected \in Seq(Messages) /\ turn[2] \in Seq(Messages) /\ said \in Seq(Messages)
  <2>1. << >> \in Seq(Messages) /\ \A f \in Messages : <<f>> \in Seq(Messages)
    OBVIOUS
  <2> QED BY <1>1, <1>4, <1>6, <2>1
<1> DEFINE out == rejected \o turn[2] \o said
<1>8. out \in Seq(Messages)
  BY <1>7, ConcatProperties
<1>9. ASSUME NEW f \in Messages, turn[2] = <<f>>
      PROVE  Len(rejected) + 1 \in 1 .. Len(out) /\ out[Len(rejected) + 1] = f
  <2>1. rejected \o <<f>> \in Seq(Messages) /\ Len(rejected \o <<f>>) = Len(rejected) + 1
        /\ (rejected \o <<f>>)[Len(rejected) + 1] = f /\ Len(rejected) \in Nat
    BY <1>7
  <2>2. PICK u \in Seq(Messages) : u = rejected \o <<f>> /\ out = u \o said
    BY <1>9, <2>1
  <2>3. Len(u) = Len(rejected) + 1 /\ u[Len(rejected) + 1] = f
    BY <2>1, <2>2, Zenon
  <2>4. Len(u \o said) = Len(u) + Len(said) /\ Len(said) \in Nat
        /\ \A k \in 1 .. Len(u) : (u \o said)[k] = u[k]
    BY <1>7, <2>2, ConcatProperties, LenProperties
  <2> QED BY <2>1, <2>2, <2>3, <2>4
<1>10. \A t \in Slot : t[1] = b /\ new[t].state = "READY" =>
         \/ Stays(slot[t], new[t], heard)
         \/ \E k \in 1 .. Len(out) : Telling(out[k], new[t].alias)
  <2>1. ASSUME NEW t \in Slot, t[1] = b, new[t].state = "READY"
        PROVE  \/ Stays(slot[t], new[t], heard)
               \/ \E k \in 1 .. Len(out) : Telling(out[k], new[t].alias)
    <3>1. CASE new[t] = old[t]
      BY <1>d, <2>1, <3>1
    <3>2. CASE t = s /\ \E f \in Messages : turn[2] = <<f>> /\ Telling(f, turn[1].alias)
      BY <1>5, <1>9, <3>2
    <3> QED BY <1>4, <1>5, <2>1, <3>1, <3>2
  <2> QED BY <2>1
<1>11. slot' = new /\ \A t \in Slot : t[1] # b => new[t] = slot[t]
  BY <1>a, <1>d, <1>5, <1>g
<1>12. Len(said) \in {0, 1} /\ (Len(said) = 1 => asks < MaxAsks)
  <2>1. CASE said = << >>
    BY <2>1
  <2>2. ASSUME asks < MaxAsks, NEW f \in Messages, said = <<f>>
        PROVE  Len(said) = 1
    BY <2>2
  <2> QED BY <1>6, <2>1, <2>2
<1>13. /\ Len(tx[b]) + Len(out) <= TxCap
       /\ tx' = [tx EXCEPT ![b] = @ \o out]
       /\ echo' = [echo EXCEPT ![b] = IF out = << >> THEN None ELSE out[Len(out)]]
       /\ asks' = asks + Len(said)
  BY <1>a
<1> HIDE DEF out
<1> QED BY <1>5, <1>8, <1>10, <1>11, <1>12, <1>13 DEF SlotsSound, heard

(* Every step keeps the types and the slots sound. *)
LEMMA BoardStep ==
  ASSUME TypeOK, SlotsSound, [Next]_vars
  PROVE  TypeOK' /\ SlotsSound'
<1>1. slot \in [Slot -> SlotType]
  BY DEF TypeOK, SlotType
<1>2. ASSUME NEW b \in Board, Pass(b) PROVE TypeOK' /\ SlotsSound'
  <2>1. SlotsSound' /\ slot' \in [Slot -> SlotType]
    BY <1>1, <1>2, PassSlots DEF TypeOK
  <2>2. PICK out \in Seq(Messages), n \in {0, 1} :
          /\ Len(tx[b]) + Len(out) <= TxCap
          /\ tx' = [tx EXCEPT ![b] = @ \o out]
          /\ echo' = [echo EXCEPT ![b] = IF out = << >> THEN None ELSE out[Len(out)]]
          /\ asks' = asks + n /\ (n = 1 => asks < MaxAsks)
    BY <1>1, <1>2, PassSlots DEF TypeOK
  <2>3. tx' \in [Board -> Seq(Messages)] /\ \A c \in Board : Len(tx'[c]) <= TxCap
    <3>1. tx[b] \o out \in Seq(Messages) /\ Len(tx[b] \o out) = Len(tx[b]) + Len(out)
      BY <2>2, ConcatProperties DEF TypeOK
    <3> QED BY <2>2, <3>1 DEF TypeOK
  <2>4. echo' \in [Board -> Messages \cup {None}]
    <3>1. out # << >> => out[Len(out)] \in Messages
      BY <2>2, EmptySeq, ElementOfSeq
    <3> QED BY <2>2, <3>1 DEF TypeOK
  <2>5. rx' \in [Board -> Seq(Messages)] /\ \A c \in Board : Len(rx'[c]) <= RxCap
    <3>1. rx' = [rx EXCEPT ![b] = IF @ = << >> THEN @ ELSE Tail(@)]
      BY <1>2 DEF Pass
    <3>2. rx[b] # << >> => Tail(rx[b]) \in Seq(Messages) /\ Len(Tail(rx[b])) <= RxCap
      BY HeadTailProperties, LenProperties, AliasAssumption DEF TypeOK
    <3> QED BY <3>1, <3>2 DEF TypeOK
  <2>6. index' \in [Board -> Nat] /\ \A c \in Board : index'[c] \in 1 .. Slots
    <3>1. index' = [index EXCEPT ![b] = IF @ = Slots THEN 1 ELSE @ + 1]
      BY <1>2 DEF Pass
    <3>2. Slots \in Nat \ {0}
      BY AliasAssumption
    <3> QED BY <3>1, <3>2 DEF TypeOK
  <2>7. UNCHANGED handlers
    BY <1>2 DEF Pass
  <2>8. asks' \in 0 .. MaxAsks
    BY <2>2, AliasAssumption DEF TypeOK
  <2> QED BY <2>1, <2>3, <2>4, <2>5, <2>6, <2>7, <2>8 DEF TypeOK, SlotType
<1>3. ASSUME NEW b \in Board, Bus(b) PROVE TypeOK' /\ SlotsSound'
  <2>1. /\ tx[b] \in Seq(Messages) /\ tx[b] # << >>
        /\ rx' = [c \in Board |-> IF c = b THEN rx[c] ELSE Append(rx[c], Head(tx[b]))]
        /\ tx' = [tx EXCEPT ![b] = Tail(@)]
        /\ \A c \in Board \ {b} : Len(rx[c]) < RxCap
    BY <1>3 DEF Bus, TypeOK
  <2>2. Head(tx[b]) \in Messages /\ Tail(tx[b]) \in Seq(Messages) /\ Len(Tail(tx[b])) < Len(tx[b])
    BY <2>1, HeadTailProperties, LenProperties
  <2>3. tx' \in [Board -> Seq(Messages)] /\ \A c \in Board : Len(tx'[c]) <= TxCap
    <3>1. Len(Tail(tx[b])) <= TxCap
      BY <2>1, <2>2, LenProperties, AliasAssumption DEF TypeOK
    <3> QED BY <2>1, <2>2, <3>1 DEF TypeOK
  <2>4. rx' \in [Board -> Seq(Messages)] /\ \A c \in Board : Len(rx'[c]) <= RxCap
    <3>1. ASSUME NEW c \in Board PROVE rx'[c] \in Seq(Messages) /\ Len(rx'[c]) <= RxCap
      <4>1. CASE c = b
        BY <2>1, <4>1 DEF TypeOK
      <4>2. CASE c # b
        <5>1. rx'[c] = Append(rx[c], Head(tx[b])) /\ rx[c] \in Seq(Messages) /\ Len(rx[c]) < RxCap
          BY <2>1, <4>2 DEF TypeOK
        <5>2. Len(Append(rx[c], Head(tx[b]))) = Len(rx[c]) + 1 /\ Len(rx[c]) \in Nat
          BY <2>2, <5>1, AppendProperties, LenProperties
        <5> QED BY <2>2, <5>1, <5>2, AppendProperties, AliasAssumption
      <4> QED BY <4>1, <4>2
    <3> QED BY <2>1, <3>1
  <2> QED BY <1>3, <2>3, <2>4 DEF Bus, TypeOK, SlotsSound
<1>4. CASE Tool
  <2>1. PICK f \in {Frame("VERIFY", 0)} \cup {Addressed(slot[s].nalias) : s \in Slot} :
          rx' = [c \in Board |-> Append(rx[c], f)]
    BY <1>4 DEF Tool
  <2>a. \A c \in Board : Len(rx[c]) < RxCap
    BY <1>4 DEF Tool
  <2>2. f \in Messages
    BY <1>1, <2>1 DEF Frame, Addressed, Messages, Kinds, SlotType
  <2>3. rx' \in [Board -> Seq(Messages)] /\ \A c \in Board : Len(rx'[c]) <= RxCap
    <3>1. ASSUME NEW c \in Board PROVE rx'[c] \in Seq(Messages) /\ Len(rx'[c]) <= RxCap
      <4>1. rx'[c] = Append(rx[c], f) /\ rx[c] \in Seq(Messages) /\ Len(rx[c]) < RxCap
        BY <2>1, <2>a DEF TypeOK
      <4>2. Len(Append(rx[c], f)) = Len(rx[c]) + 1 /\ Len(rx[c]) \in Nat
        BY <2>2, <4>1, AppendProperties, LenProperties
      <4> QED BY <2>2, <4>1, <4>2, AppendProperties, AliasAssumption
    <3> QED BY <2>1, <3>1
  <2>4. asks' \in 0 .. MaxAsks
    BY <1>4, AliasAssumption DEF Tool, TypeOK
  <2> QED BY <1>4, <2>3, <2>4 DEF Tool, TypeOK, SlotsSound
<1>5. ASSUME NEW s \in Slot, Release(s) PROVE TypeOK' /\ SlotsSound'
  <2>0. PICK u : u = Found(s)
    OBVIOUS
  <2>1. slot' = [slot EXCEPT ![u].state = "RELEASING", ![u].init = FALSE]
    BY <1>5, <2>0 DEF Release
  <2>2. "RELEASING" \in States
    BY DEF States, Does
  <2>3. slot' \in [Slot -> SlotType] /\ \A t \in Slot : Settled(slot'[t])
    <3>1. \A t \in Slot : t # u => slot'[t] = slot[t]
      BY <1>1, <2>1
    <3>2. /\ slot' \in [Slot -> SlotType]
          /\ u \in Slot => slot'[u].state = "RELEASING" /\ slot'[u].init = FALSE
      BY <1>1, <2>1, <2>2 DEF SlotType
    <3> QED BY <3>1, <3>2 DEF Settled, SlotsSound
  <2>4. asks' \in 0 .. MaxAsks /\ handlers' \subseteq Slot
    BY <1>5, AliasAssumption DEF Release, TypeOK
  <2> QED BY <1>5, <2>3, <2>4 DEF Release, TypeOK, SlotsSound, SlotType
<1>6. CASE UNCHANGED vars
  BY <1>6 DEF vars, TypeOK, SlotsSound
<1> QED BY <1>2, <1>3, <1>4, <1>5, <1>6 DEF Next

(* allocateAlias() starts all slots soundly. *)
LEMMA BoardInit ==
  ASSUME Init
  PROVE  TypeOK /\ SlotsSound
<1>1. ASSUME NEW s \in Slot PROVE slot[s] \in SlotType /\ Settled(slot[s])
  <2>1. Seed[s] \in Alias /\ "CID1" \in States
    BY DEF Alias, States, Does
  <2>2. 0 \in 0 .. Len(Draw)
    <3>1. Draw \in Seq(Nat \ {0})
      BY AliasAssumption
    <3> QED BY <3>1, LenProperties
  <2>3. slot[s] = [state |-> "CID1", alias |-> Seed[s], gen |-> 0, nalias |-> 0, init |-> FALSE]
    BY DEF Init
  <2> QED BY <2>1, <2>2, <2>3 DEF SlotType, Settled
<1>2. slot \in [Slot -> SlotType]
  BY <1>1 DEF Init
<1>3. \A b \in Board : 1 \in 1 .. Slots /\ 0 <= TxCap /\ 0 <= RxCap
  BY AliasAssumption
<1>4. << >> \in Seq(Messages) /\ Len(<< >>) = 0
  BY EmptySeq
<1>5. asks \in 0 .. MaxAsks
  BY AliasAssumption DEF Init
<1> QED BY <1>1, <1>2, <1>3, <1>4, <1>5 DEF Init, TypeOK, SlotsSound, SlotType

----------------------------------------------------------------------------
(* Types, and no buffer of any board overflows. *)
THEOREM BoardTypes == Spec => []TypeOK
<1>1. Init => TypeOK /\ SlotsSound
  BY BoardInit
<1>2. TypeOK /\ SlotsSound /\ [Next]_vars => (TypeOK /\ SlotsSound)'
  BY BoardStep
<1> QED BY <1>1, <1>2, PTL DEF Spec

(* A node that may speak has the alias its slot reserved, at every moment  *)
(* of reallocations, releases and answers (OLCB_CAN_Alias_Helper.cpp:305). *)
THEOREM NodesOwnTheirAlias == Spec => []OwnAlias
<1>1. Init => TypeOK /\ SlotsSound
  BY BoardInit
<1>2. TypeOK /\ SlotsSound /\ [Next]_vars => (TypeOK /\ SlotsSound)'
  BY BoardStep
<1>3. SlotsSound => OwnAlias
  BY DEF SlotsSound, Settled, OwnAlias, Permitted
<1> QED BY <1>1, <1>2, <1>3, PTL DEF Spec

----------------------------------------------------------------------------
(* What concatenating, appending and taking off do to a buffer's frames. *)
LEMMA TailRange ==
  ASSUME NEW S, NEW q \in Seq(S), q # << >>, NEW f \in Range(q)
  PROVE  f = Head(q) \/ f \in Range(Tail(q))
<1>1. PICK i \in 1 .. Len(q) : f = q[i]
  BY RangeEquality
<1>2. Len(Tail(q)) = Len(q) - 1 /\ Len(q) \in Nat /\ Tail(q) \in Seq(S)
      /\ \A k \in 1 .. Len(Tail(q)) : Tail(q)[k] = q[k + 1]
  BY HeadTailProperties, LenProperties
<1>3. CASE i = 1
  BY <1>1, <1>3
<1>4. CASE i # 1
  <2>1. i - 1 \in 1 .. Len(Tail(q)) /\ (i - 1) + 1 = i
    BY <1>1, <1>2, <1>4
  <2>2. Tail(q)[i - 1] = f
    BY <1>1, <1>2, <2>1
  <2>3. Range(Tail(q)) = {Tail(q)[k] : k \in 1 .. Len(Tail(q))}
    BY <1>2, RangeEquality
  <2> QED BY <2>1, <2>2, <2>3
<1> QED BY <1>3, <1>4

LEMMA AppendRange ==
  ASSUME NEW S, NEW q \in Seq(S), NEW e \in S
  PROVE  Range(q) \subseteq Range(Append(q, e)) /\ e \in Range(Append(q, e))
<1>1. /\ Append(q, e) \in Seq(S) /\ Len(Append(q, e)) = Len(q) + 1 /\ Len(q) \in Nat
      /\ \A i \in 1 .. Len(q) : Append(q, e)[i] = q[i]
      /\ Append(q, e)[Len(q) + 1] = e
  BY AppendProperties, LenProperties
<1>2. Range(Append(q, e)) = {Append(q, e)[k] : k \in 1 .. Len(Append(q, e))}
  BY <1>1, RangeEquality
<1>3. Range(q) = {q[k] : k \in 1 .. Len(q)}
  BY RangeEquality
<1>4. Len(q) + 1 \in 1 .. Len(Append(q, e))
      /\ \A k \in 1 .. Len(q) : k \in 1 .. Len(Append(q, e))
  BY <1>1
<1> QED BY <1>1, <1>2, <1>3, <1>4

(* Frames of a board that tell of an alias. *)
Heard(q, p, a) == \E f \in Range(q) \cup Range(p) : Telling(f, a)

(* A node of another board has a READY node's alias unnoticed. *)
Unheard(s, t) ==
  /\ s[1] # t[1]
  /\ slot[s].state = "READY" /\ slot[t].state = "READY" /\ slot[s].alias = slot[t].alias
  /\ \A b \in {s[1], t[1]} : ~Heard(tx[b], rx[b], slot[s].alias)

LEMMA SilentUnheard == NoSilentDuplicate <=> \A s, t \in Slot : ~Unheard(s, t)
BY DEF NoSilentDuplicate, Unheard, Heard

(* The pass of the board of t: a node of another board that t has not told *)
(* t's alias, and has not heard of, did not have it unnoticed before.      *)
LEMMA PassTells ==
  ASSUME TypeOK, SlotsSound, NEW b \in Board, Pass(b),
         NEW s \in Slot, NEW t \in Slot, t[1] = b, s[1] # b, Unheard(s, t)'
  PROVE  Unheard(s, t)
<1> DEFINE heard == IF rx[b] = << >> THEN None ELSE Head(rx[b])
           a == slot'[t].alias
<1>0. slot \in [Slot -> SlotType] /\ handlers \subseteq Slot /\ rx \in [Board -> Seq(Messages)]
      /\ tx \in [Board -> Seq(Messages)] /\ tx[b] \in Seq(Messages) /\ rx[b] \in Seq(Messages)
  BY DEF TypeOK, SlotType
<1>1. slot'[s] = slot[s]
  BY <1>0, PassSlots
<1>2. PICK out \in Seq(Messages) :
        /\ tx' = [tx EXCEPT ![b] = @ \o out]
        /\ slot'[t].state = "READY" =>
             \/ Stays(slot[t], slot'[t], heard)
             \/ \E k \in 1 .. Len(out) : Telling(out[k], slot'[t].alias)
  BY <1>0, PassSlots
<1>3. rx' = [rx EXCEPT ![b] = IF @ = << >> THEN @ ELSE Tail(@)]
  BY DEF Pass
<1>4. /\ s[1] # t[1] /\ slot'[s].state = "READY" /\ slot'[t].state = "READY"
      /\ slot'[s].alias = slot'[t].alias
      /\ ~Heard(tx'[s[1]], rx'[s[1]], a) /\ ~Heard(tx'[b], rx'[b], a)
  BY DEF Unheard
<1>5. tx'[b] = tx[b] \o out /\ Range(tx'[b]) = Range(tx[b]) \cup Range(out)
  BY <1>0, <1>2, RangeConcatenation
<1>6. Stays(slot[t], slot'[t], heard)
  <2>1. ASSUME NEW k \in 1 .. Len(out), Telling(out[k], a) PROVE FALSE
    <3>1. out[k] \in Range(out)
      BY RangeEquality
    <3> QED BY <1>4, <1>5, <2>1, <3>1 DEF Heard
  <2> QED BY <1>2, <1>4, <2>1
<1>7. slot[t].state = "READY" /\ slot[t].alias = a /\ (heard # None => ~Telling(heard, a))
  BY <1>6 DEF Stays
<1>8. ~Heard(tx[b], rx[b], a)
  <2>1. ASSUME NEW f \in Range(tx[b]) PROVE ~Telling(f, a)
    BY <1>4, <1>5 DEF Heard
  <2>2. ASSUME NEW f \in Range(rx[b]) PROVE ~Telling(f, a)
    <3>1. rx[b] # << >>
      <4>1. Range(rx[b]) = {rx[b][k] : k \in 1 .. Len(rx[b])}
        BY <1>0, RangeEquality
      <4> QED BY <2>2, <4>1
    <3>2. rx'[b] = Tail(rx[b])
      BY <1>0, <1>3, <3>1
    <3>3. CASE f = Head(rx[b])
      <4>1. heard = f /\ f \in Messages
        BY <1>0, <3>1, <3>3, HeadTailProperties
      <4>2. heard # None
        BY <4>1, NoFrameAssumption
      <4> QED BY <1>7, <4>1, <4>2
    <3>4. CASE f \in Range(Tail(rx[b]))
      BY <1>4, <3>2, <3>4 DEF Heard
    <3> QED BY <1>0, <2>2, <3>1, <3>3, <3>4, TailRange
  <2> QED BY <2>1, <2>2 DEF Heard
<1>9. tx'[s[1]] = tx[s[1]] /\ rx'[s[1]] = rx[s[1]]
  BY <1>0, <1>2, <1>3, <1>4 DEF Slot
<1> QED BY <1>1, <1>4, <1>7, <1>8, <1>9 DEF Unheard

(* The bus and a tool leave at the boards what they have heard. *)
LEMMA BusTells ==
  ASSUME TypeOK, NEW b \in Board, Bus(b), NEW s \in Slot, NEW t \in Slot, Unheard(s, t)'
  PROVE  Unheard(s, t)
<1> DEFINE a == slot[s].alias
<1>0. tx \in [Board -> Seq(Messages)] /\ rx \in [Board -> Seq(Messages)]
      /\ s[1] \in Board /\ t[1] \in Board
  BY DEF TypeOK, Slot
<1>1. /\ tx[b] # << >> /\ slot' = slot
      /\ rx' = [c \in Board |-> IF c = b THEN rx[c] ELSE Append(rx[c], Head(tx[b]))]
      /\ tx' = [tx EXCEPT ![b] = Tail(@)]
  BY DEF Bus
<1>2. s[1] # t[1] /\ \A c \in {s[1], t[1]} : ~Heard(tx'[c], rx'[c], a)
  BY <1>1 DEF Unheard
<1>3. Head(tx[b]) \in Messages
  BY <1>0, <1>1, HeadTailProperties
<1>4. ASSUME NEW c \in {s[1], t[1]}, NEW f \in Range(rx[c]) PROVE ~Telling(f, a)
  <2>1. Range(rx[c]) \subseteq Range(rx'[c])
    BY <1>0, <1>1, <1>3, AppendRange
  <2> QED BY <1>2, <1>4, <2>1 DEF Heard
<1>5. ASSUME NEW c \in {s[1], t[1]}, NEW f \in Range(tx[c]) PROVE ~Telling(f, a)
  <2>1. CASE c # b
    <3>1. tx'[c] = tx[c]
      BY <1>0, <1>1, <2>1
    <3> QED BY <1>2, <1>5, <3>1 DEF Heard
  <2>2. CASE c = b
    <3>1. tx'[b] = Tail(tx[b])
      BY <1>0, <1>1
    <3>2. CASE f \in Range(Tail(tx[b]))
      BY <1>2, <2>2, <3>1, <3>2 DEF Heard
    <3>3. CASE f = Head(tx[b])
      <4>1. PICK d \in {s[1], t[1]} : d # b
        BY <1>2
      <4>2. rx'[d] = Append(rx[d], f) /\ rx[d] \in Seq(Messages)
        BY <1>0, <1>1, <3>3, <4>1
      <4>3. f \in Range(rx'[d])
        BY <1>3, <3>3, <4>2, AppendRange
      <4> QED BY <1>2, <4>3 DEF Heard
    <3> QED BY <1>0, <1>1, <1>5, <2>2, <3>2, <3>3, TailRange
  <2> QED BY <2>1, <2>2
<1> QED BY <1>1, <1>4, <1>5 DEF Unheard, Heard

LEMMA ToolTells ==
  ASSUME TypeOK, Tool, NEW s \in Slot, NEW t \in Slot, Unheard(s, t)'
  PROVE  Unheard(s, t)
<1>0. rx \in [Board -> Seq(Messages)] /\ s[1] \in Board /\ t[1] \in Board
      /\ slot \in [Slot -> SlotType]
  BY DEF TypeOK, Slot, SlotType
<1>1. PICK f \in {Frame("VERIFY", 0)} \cup {Addressed(slot[u].nalias) : u \in Slot} :
        rx' = [c \in Board |-> Append(rx[c], f)]
  BY DEF Tool
<1>2. f \in Messages
  BY <1>0, <1>1 DEF Frame, Addressed, Messages, Kinds, SlotType
<1>3. ASSUME NEW c \in {s[1], t[1]} PROVE Range(rx[c]) \subseteq Range(rx'[c])
  BY <1>0, <1>1, <1>2, AppendRange
<1> QED BY <1>3 DEF Tool, Unheard, Heard

(* Two nodes of different boards that are READY under one alias are not    *)
(* left so without a message under it between their boards, which makes    *)
(* the one that hears it give way: for any number of boards, nodes, slots, *)
(* seeds and buffers (checkMessage(), OLCB_CAN_Alias_Helper.cpp:9-73, and  *)
(* update(), 75-197).                                                      *)
THEOREM DuplicatesAreNoticed == Spec => []NoSilentDuplicate
<1>1. Init => TypeOK /\ SlotsSound /\ NoSilentDuplicate
  BY BoardInit DEF Init, NoSilentDuplicate
<1>2. TypeOK /\ SlotsSound /\ [Next]_vars => (TypeOK /\ SlotsSound)'
  BY BoardStep
<1>3. TypeOK /\ SlotsSound /\ NoSilentDuplicate /\ [Next]_vars => NoSilentDuplicate'
  <2> SUFFICES ASSUME TypeOK, SlotsSound, [Next]_vars, NEW s \in Slot, NEW t \in Slot,
                      Unheard(s, t)'
               PROVE  Unheard(s, t) \/ Unheard(t, s)
    BY SilentUnheard DEF NoSilentDuplicate, Unheard, Heard
  <2>1. ASSUME NEW b \in Board, Pass(b) PROVE Unheard(s, t) \/ Unheard(t, s)
    <3>1. CASE t[1] = b
      BY <2>1, <3>1, PassTells DEF Unheard
    <3>2. CASE s[1] = b
      <4>1. Unheard(t, s)'
        BY DEF Unheard
      <4> QED BY <2>1, <3>2, <4>1, PassTells DEF Unheard
    <3>3. CASE t[1] # b /\ s[1] # b
      <4>1. slot'[s] = slot[s] /\ slot'[t] = slot[t]
        BY <2>1, <3>3, PassSlots DEF TypeOK, SlotType
      <4>2. /\ \E q : tx' = [tx EXCEPT ![b] = q]
            /\ \E q : rx' = [rx EXCEPT ![b] = q]
        BY <2>1 DEF Pass
      <4>3. tx'[s[1]] = tx[s[1]] /\ rx'[s[1]] = rx[s[1]] /\ tx'[t[1]] = tx[t[1]] /\ rx'[t[1]] = rx[t[1]]
        BY <3>3, <4>2 DEF TypeOK, Slot
      <4> QED BY <4>1, <4>3 DEF Unheard
    <3> QED BY <3>1, <3>2, <3>3
  <2>2. ASSUME NEW b \in Board, Bus(b) PROVE Unheard(s, t)
    BY <2>2, BusTells
  <2>3. CASE Tool
    BY <2>3, ToolTells
  <2>4. ASSUME NEW u \in Slot, Release(u) PROVE Unheard(s, t)
    <3>0. PICK v : v = Found(u)
      OBVIOUS
    <3>1. slot' = [slot EXCEPT ![v].state = "RELEASING", ![v].init = FALSE]
          /\ UNCHANGED <<tx, rx>>
      BY <2>4, <3>0 DEF Release
    <3>2. slot \in [Slot -> SlotType]
      BY DEF TypeOK, SlotType
    <3>3. \A x \in Slot : slot'[x].state = "READY" => slot'[x] = slot[x]
      BY <3>1, <3>2 DEF SlotType
    <3> QED BY <3>1, <3>3 DEF Unheard
  <2>5. CASE UNCHANGED vars
    BY <2>5 DEF vars, Unheard
  <2> QED BY <2>1, <2>2, <2>3, <2>4, <2>5 DEF Next
<1> QED BY <1>1, <1>2, <1>3, PTL DEF Spec

============================================================================
