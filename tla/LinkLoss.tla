------------------------------ MODULE LinkLoss ------------------------------
(***************************************************************************)
(* LinkControl with a history of the frames that full receive buffers      *)
(* drop, to say what the allocation is worth when the loops do not keep up *)
(* with the bus.                                                           *)
(***************************************************************************)
EXTENDS LinkControl

VARIABLE lost   \* frames of a node's conflict that were dropped, up to 4

lossVars == <<vars, lost>>

(* The CIM frames of a claim: as many losses as are told apart. *)
CIMs == 4

LossInit == Init /\ lost = [n \in Node |-> 0]

(* Someone else stands at the same alias. *)
Rivalled(n) == \E m \in Node \ {n} : getAlias(m) = getAlias(n)

(* The CIM or RIM that n's controller sends finds the receive buffer full  *)
(* of a node that stands at the same alias.                                *)
Dropped(n) ==
  /\ Head(tx[n]).kind \in {"CIM", "RIM"}
  /\ \E m \in Node \ {n} :
       on[m] /\ Len(rx[m]) = RxCap /\ getAlias(m) = Head(tx[n]).src

LossTransmit(n) ==
  /\ Transmit(n)
  /\ lost' = [m \in Node |->
       IF Dropped(n) /\ getAlias(m) = Head(tx[n]).src /\ Rivalled(m) /\ lost[m] < CIMs
       THEN lost[m] + 1 ELSE lost[m]]

(* Nothing else drops a frame of a node.  With the next alias of a node or *)
(* of its rival the conflict is over.                                      *)
LossNext ==
  \/ \E n \in Node : LossTransmit(n)
  \/ /\ \/ \E n \in Node : Boot(n) \/ Pass(n)
        \/ Ask
        \/ Tick
     /\ lost' = [m \in Node |-> IF pos'[m] = pos[m] /\ Rivalled(m)' THEN lost[m] ELSE 0]

LossSpec == LossInit /\ [][LossNext]_lossVars /\ Fairness

(* Two nodes come to hold the same alias only after four of the frames of  *)
(* their conflict, CIM or RIM, were dropped on full receive buffers.  The  *)
(* node that claims the alias last sends four CIM frames while the other   *)
(* stands at it, and each is answered with a RIM: of every such pair one   *)
(* must be lost, or the loser is told before its wait is over.             *)
FourLostForDuplicate ==
  \A m, n \in Node :
    m # n /\ Reserved(m) /\ Reserved(n) /\ getAlias(m) = getAlias(n) =>
      lost[m] = CIMs \/ lost[n] = CIMs
============================================================================
