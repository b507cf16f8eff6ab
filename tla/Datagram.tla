----------------------------- MODULE Datagram -----------------------------
(***************************************************************************)
(* The Datagram objects of some nodes on one CAN bus: each cuts the        *)
(* datagrams it sends into fragments, puts together those it receives,     *)
(* and answers them.  A frame waits in its sender's transmit buffer, goes  *)
(* over the bus, and waits in its receiver's driver.  Nodes crash and      *)
(* start again, give their alias up, frames get lost, and tools ask nodes  *)
(* for their alias.  A node is known by its alias: what becomes under the  *)
(* next alias of the datagrams of a node that has given one up is left     *)
(* out.                                                                    *)
(*                                                                         *)
(* What a fragment carries is the datagram it belongs to and its number in *)
(* it, which the code does not see.                                        *)
(***************************************************************************)
EXTENDS Integers, Sequences

CONSTANTS
  Node, None,
  TxCap,       \* frames in a node's transmit buffer
  Refusing,    \* nodes whose callback refuses what it is given
  LongNak,     \* nodes of other makers: their rejections have six bytes
  Route,       \* who sends to whom, and datagrams of how many fragments
  MaxSends,    \* bound on datagrams
  MaxFaults    \* bound on crashes, losses, enquiries and aliases given up

ASSUME DatagramAssumption ==
  /\ TxCap \in Nat \ {0}
  /\ None \notin Node /\ Route \subseteq Node \X Node \X (Nat \ {0})
  /\ MaxSends \in Nat /\ MaxFaults \in Nat

VARIABLES
  dg,          \* the nodes' Datagram objects
  hdr,         \* frame type left in the transmit buffer's header by its last user
  on,          \* nodes that are running
  tx, rx,      \* frames to be sent, frames received
  count,       \* what has been used of the bounds
  delivered,   \* history: the contents given to the callbacks, in order
  acked,       \* history: datagrams whose sender got the acknowledgement
  lost,        \* history: the bus has lost a frame
  cut          \* history: the end of a datagram, a reply or an AMD or AMR got lost

net == <<hdr, on, tx, rx, count>>
hist == <<delivered, acked, lost, cut>>
vars == <<dg, net, hist>>

Body == [by : Node, no : 1 .. MaxSends, to : Node, size : Nat \ {0}]

Reset ==
  [reserved |-> FALSE, tbuf |-> None, left |-> 0,
   receiving |-> FALSE, from |-> None, rbuf |-> << >>]

Init ==
  /\ dg = [n \in Node |-> Reset]
  /\ hdr = [n \in Node |-> "OLCB"] /\ on = Node
  /\ tx = [n \in Node |-> << >>] /\ rx = [n \in Node |-> << >>]
  /\ count = [send |-> 0, fault |-> 0]
  /\ delivered = << >> /\ acked = {} /\ lost = FALSE /\ cut = FALSE

----------------------------------------------------------------------------
(* Frames *)
Fragment(b, i) ==
  [kind |-> IF b.size = 1 THEN "ALL" ELSE IF i = 1 THEN "FIRST"
           ELSE IF i = b.size THEN "LAST" ELSE "MID",
   src |-> b.by, dst |-> b.to, body |-> b, i |-> i]
Reply(kind, n, d) == [kind |-> kind, src |-> n, dst |-> d]
Mapping(kind, n) == [kind |-> kind, src |-> n, dst |-> None]
AMD(n) == Mapping("AMD", n)
AMR(n) == Mapping("AMR", n)
IsMapping(f) == f.kind \in {"AMD", "AMR"}

Final == {"ALL", "LAST"}
Replies == {"ACK", "NAK", "REJECT"}

(* A frame whose loss the sender or the receiver cannot make up for. *)
Needed(f) == f.kind \in Final \cup Replies \/ IsMapping(f)
NeededIn(s) == \E k \in DOMAIN s : Needed(s[k])

(* OpenLcb_can_xmt_ready() *)
XmtReady(n) == Len(tx[n]) < TxCap

(* OpenLcb_can_queue_xmt_wait() of an OpenLCB message. *)
Queue(n, f) ==
  /\ XmtReady(n)
  /\ tx' = [tx EXCEPT ![n] = Append(@, f)]
  /\ hdr' = [hdr EXCEPT ![n] = "OLCB"]

----------------------------------------------------------------------------
(* getTransmitBuffer() and, with its buffer filled, sendTransmitBuffer(). *)
Send(n, d, size) ==
  /\ n \in on /\ ~dg[n].reserved
  /\ count.send < MaxSends
  /\ LET b == [by |-> n, no |-> count.send + 1, to |-> d, size |-> size]
     IN  dg' = [dg EXCEPT ![n].reserved = TRUE, ![n].tbuf = b, ![n].left = size]
  /\ count' = [count EXCEPT !.send = @ + 1]
  /\ UNCHANGED <<hdr, on, tx, rx, hist>>

(* Mutant: the mailbox is not asked for. *)
CheckUnready(n) ==
  /\ n \in on /\ dg[n].left > 0
  /\ LET b == dg[n].tbuf
     IN  tx' = [tx EXCEPT ![n] = Append(@, Fragment(b, b.size - dg[n].left + 1))]
  /\ dg' = [dg EXCEPT ![n].left = @ - 1]
  /\ UNCHANGED <<hdr, on, rx, count, hist>>

(* check(): the next fragment.  Only format and destination are set in the *)
(* header: after an AMD it goes out as a CAN control frame, which nobody   *)
(* takes.                                                                  *)
Check(n) ==
  /\ n \in on /\ dg[n].left > 0 /\ XmtReady(n)
  /\ LET b == dg[n].tbuf
         f == Fragment(b, b.size - dg[n].left + 1)
     IN  IF hdr[n] = "OLCB"
         THEN /\ tx' = [tx EXCEPT ![n] = Append(@, f)]
              /\ UNCHANGED cut
         ELSE /\ cut' = (cut \/ Needed(f))
              /\ UNCHANGED tx
  /\ dg' = [dg EXCEPT ![n].left = @ - 1]
  /\ UNCHANGED <<hdr, on, rx, count, delivered, acked, lost>>

(* LinkControl's answer to an alias map enquiry. *)
Enquiry(n) ==
  /\ n \in on /\ XmtReady(n)
  /\ count.fault < MaxFaults
  /\ tx' = [tx EXCEPT ![n] = Append(@, AMD(n))]
  /\ hdr' = [hdr EXCEPT ![n] = "CAN"]
  /\ count' = [count EXCEPT !.fault = @ + 1]
  /\ UNCHANGED <<dg, on, rx, hist>>

----------------------------------------------------------------------------
(* receivedFrame(), by what the frame f is *)
Starts(f) == f.kind \in {"ALL", "FIRST"}
Takes(n, f) ==
  IF Starts(f) THEN ~dg[n].receiving ELSE dg[n].receiving /\ dg[n].from = f.src

(* Mutant: a reception goes on when its sender has started again. *)
MappingIgnored(n, f) ==
  /\ IsMapping(f)
  /\ UNCHANGED <<dg, hdr, tx, hist>>

(* An alias is defined or given up: ends the reception from that node. *)
HearMapping(n, f) ==
  /\ IsMapping(f)
  /\ dg' = IF dg[n].receiving /\ dg[n].from = f.src
           THEN [dg EXCEPT ![n].receiving = FALSE, ![n].rbuf = << >>]
           ELSE dg
  /\ UNCHANGED <<hdr, tx, hist>>

(* Acknowledged: the buffer is free.  It is not checked who replies. *)
HearAck(n, f) ==
  /\ f.kind = "ACK"
  /\ dg' = [dg EXCEPT ![n].reserved = FALSE]
  /\ acked' = acked \cup {dg[n].tbuf}
  /\ UNCHANGED <<hdr, tx, delivered, lost, cut>>

(* Rejected: for good, *)
HearReject(n, f) ==
  /\ f.kind = "REJECT"
  /\ dg' = [dg EXCEPT ![n].reserved = FALSE]
  /\ UNCHANGED <<hdr, tx, hist>>

(* ... or to be sent again, as every rejection of less than six bytes is. *)
HearNak(n, f) ==
  /\ f.kind = "NAK"
  /\ dg' = [dg EXCEPT ![n].left = dg[n].tbuf.size]
  /\ UNCHANGED <<hdr, tx, hist>>

(* Mutant: the wrong reply. *)
RefuseAck(n, f) ==
  /\ ~Takes(n, f)
  /\ \/ f.kind \in {"FIRST", "MID"} /\ UNCHANGED <<hdr, tx>>
     \/ f.kind \in Final /\ Queue(n, Reply("ACK", n, f.src))
  /\ UNCHANGED <<dg, hist>>

(* Mutant: no reply to what does not fit in. *)
RefuseSilently(n, f) ==
  /\ ~Takes(n, f)
  /\ UNCHANGED <<dg, hdr, tx, hist>>

(* A fragment that does not fit in: answered if it is the last. *)
Refuse(n, f) ==
  /\ ~Takes(n, f)
  /\ \/ f.kind \in {"FIRST", "MID"} /\ UNCHANGED <<hdr, tx>>
     \/ f.kind \in Final /\ Queue(n, Reply("NAK", n, f.src))
  /\ UNCHANGED <<dg, hist>>

(* A fragment to be put to the others, *)
Store(n, f) ==
  /\ f.kind \in {"FIRST", "MID"} /\ Takes(n, f)
  /\ dg' = [dg EXCEPT ![n].receiving = TRUE, ![n].from = f.src,
                      ![n].rbuf = Append(@, <<f.body, f.i>>)]
  /\ UNCHANGED <<hdr, tx, hist>>

(* Mutant: the callback's result is taken the wrong way round. *)
CompleteInverted(n, f) ==
  /\ f.kind \in Final /\ Takes(n, f)
  /\ dg' = [dg EXCEPT ![n].receiving = FALSE, ![n].from = f.src, ![n].rbuf = << >>]
  /\ Queue(n, Reply(IF n \in Refusing THEN "ACK" ELSE "NAK", n, f.src))
  /\ delivered' =
       IF n \in Refusing THEN delivered ELSE Append(delivered, Append(dg[n].rbuf, <<f.body, f.i>>))
  /\ UNCHANGED <<acked, lost, cut>>

(* ... and the last one: the callback gets the datagram and it is answered. *)
Complete(n, f) ==
  /\ f.kind \in Final /\ Takes(n, f)
  /\ dg' = [dg EXCEPT ![n].receiving = FALSE, ![n].from = f.src, ![n].rbuf = << >>]
  /\ IF n \in Refusing
     THEN /\ Queue(n, Reply(IF n \in LongNak THEN "REJECT" ELSE "NAK", n, f.src))
          /\ UNCHANGED delivered
     ELSE /\ Queue(n, Reply("ACK", n, f.src))
          /\ delivered' = Append(delivered, Append(dg[n].rbuf, <<f.body, f.i>>))
  /\ UNCHANGED <<acked, lost, cut>>

IsFragment(f) == f.kind \in {"ALL", "FIRST", "MID", "LAST"}
Receive(n) ==
  /\ n \in on /\ rx[n] # << >>
  /\ rx' = [rx EXCEPT ![n] = Tail(@)]
  /\ LET f == Head(rx[n])
     IN  \/ HearMapping(n, f) \/ HearAck(n, f) \/ HearReject(n, f) \/ HearNak(n, f)
         \/ IsFragment(f) /\ (Refuse(n, f) \/ Store(n, f) \/ Complete(n, f))
  /\ UNCHANGED <<on, count>>

----------------------------------------------------------------------------
(* The bus brings a frame to the running nodes it is for ... *)
For(f, m) == f.dst \in {m, None} /\ f.src # m
Bus(n) ==
  /\ tx[n] # << >>
  /\ LET f == Head(tx[n])
     IN  /\ rx' = [m \in Node |-> IF m \in on /\ For(f, m) THEN Append(rx[m], f) ELSE rx[m]]
         /\ cut' = (cut \/ (Needed(f) /\ \E m \in Node \ on : f.dst = m))
  /\ tx' = [tx EXCEPT ![n] = Tail(@)]
  /\ UNCHANGED <<dg, hdr, on, count, delivered, acked, lost>>

(* ... or a receiver's driver has no room for it. *)
Lose(n) ==
  /\ rx[n] # << >>
  /\ count.fault < MaxFaults
  /\ LET f == rx[n][Len(rx[n])] IN cut' = (cut \/ Needed(f))
  /\ rx' = [rx EXCEPT ![n] = SubSeq(@, 1, Len(@) - 1)]
  /\ count' = [count EXCEPT !.fault = @ + 1]
  /\ lost' = TRUE
  /\ UNCHANGED <<dg, hdr, on, tx, delivered, acked>>

(* A node stops, with all that it has in its buffers, *)
Crash(n) ==
  /\ n \in on
  /\ count.fault < MaxFaults
  /\ on' = on \ {n}
  /\ tx' = [tx EXCEPT ![n] = << >>] /\ rx' = [rx EXCEPT ![n] = << >>]
  /\ dg' = [dg EXCEPT ![n] = Reset]
  /\ cut' = (cut \/ NeededIn(tx[n]) \/ NeededIn(rx[n]))
  /\ count' = [count EXCEPT !.fault = @ + 1]
  /\ UNCHANGED <<hdr, delivered, acked, lost>>

(* ... or gives its alias up, because another node uses it.  The AMR goes  *)
(* out behind its other frames, if there is room for it; what is for the   *)
(* old alias it does not take any more.                                    *)
GiveUp(n) ==
  /\ n \in on
  /\ count.fault < MaxFaults
  /\ on' = on \ {n}
  /\ tx' = [tx EXCEPT ![n] = IF XmtReady(n) THEN Append(@, AMR(n)) ELSE @]
  /\ rx' = [rx EXCEPT ![n] = << >>]
  /\ dg' = [dg EXCEPT ![n] = Reset]
  /\ cut' = (cut \/ NeededIn(rx[n]))
  /\ count' = [count EXCEPT !.fault = @ + 1]
  /\ UNCHANGED <<hdr, delivered, acked, lost>>

(* A node starts, with the alias of one that has stopped.  LinkControl     *)
(* waits for 200 ms before it sends its AMD: by then no frame from or to   *)
(* that alias is under way.                                                *)
Quiet(n) ==
  \A m \in Node : \A k \in DOMAIN tx[m] : n \notin {tx[m][k].src, tx[m][k].dst}
Heard(n) ==
  \A m \in Node : \A k \in DOMAIN rx[m] : rx[m][k].src # n
Restart(n) ==
  /\ n \notin on /\ Quiet(n) /\ Heard(n)
  /\ on' = on \cup {n}
  /\ tx' = [tx EXCEPT ![n] = <<AMD(n)>>]
  /\ hdr' = [hdr EXCEPT ![n] = "OLCB"]
  /\ UNCHANGED <<dg, rx, count, hist>>

Next ==
  \E n \in Node :
    \/ \E r \in Route : r[1] = n /\ Send(n, r[2], r[3])
    \/ Check(n) \/ Enquiry(n) \/ Receive(n)
    \/ Bus(n) \/ Lose(n) \/ Crash(n) \/ GiveUp(n) \/ Restart(n)

Spec == Init /\ [][Next]_vars

(* Each node's loop goes on, the bus is shared fairly, and nodes come      *)
(* back.  A loop passes check() many times while one frame is on the bus,  *)
(* so that it meets its mailbox free between a reply it has sent and the   *)
(* next datagram it is sent: strong fairness.                              *)
Fairness ==
  /\ \A n \in Node : SF_vars(Check(n)) /\ WF_vars(Receive(n)) /\ WF_vars(Bus(n))
  /\ WF_vars(\E n \in Node : Restart(n))
FairSpec == Spec /\ Fairness

----------------------------------------------------------------------------
Frames ==
  [kind : {"ALL", "FIRST", "MID", "LAST"}, src : Node, dst : Node, body : Body, i : Nat]
    \cup [kind : Replies, src : Node, dst : Node]
    \cup [kind : {"AMD", "AMR"}, src : Node, dst : {None}]

Parts(b, k) == [i \in 1 .. k |-> <<b, i>>]

(* Types; a node's transmit buffer never holds more than it has room for,  *)
(* and what is rejected or acknowledged is a datagram being sent.          *)
TypeOK ==
  /\ \A n \in Node :
       /\ dg[n].reserved \in BOOLEAN /\ dg[n].receiving \in BOOLEAN
       /\ dg[n].tbuf \in Body \cup {None} /\ dg[n].from \in Node \cup {None}
       /\ dg[n].left \in Nat
       /\ dg[n].left > 0 => dg[n].reserved /\ dg[n].left <= dg[n].tbuf.size
       /\ Len(tx[n]) <= TxCap
       /\ \A k \in DOMAIN tx[n] : tx[n][k] \in Frames
       /\ \A k \in DOMAIN rx[n] : rx[n][k] \in Frames
  /\ hdr \in [Node -> {"OLCB", "CAN"}] /\ on \subseteq Node
  /\ acked \subseteq Body

(* What the callback gets is a datagram as it was sent: whole, in order,   *)
(* nothing of two senders or of two attempts in it, through rejections,    *)
(* enquiries and restarts, as long as the bus loses nothing.               *)
Whole ==
  lost \/ \A k \in DOMAIN delivered :
            LET b == delivered[k][1][1] IN delivered[k] = Parts(b, b.size)

(* A datagram is delivered once, whatever gets lost or restarts. *)
OnceOnly ==
  \A j, k \in DOMAIN delivered : delivered[j][1][1] = delivered[k][1][1] => j = k

(* A sender that is told so has been heard: an acknowledgement always is   *)
(* for the datagram in the sender's buffer, though it is not checked who   *)
(* sends it.                                                               *)
AckMeansDelivered ==
  \A b \in acked : \E k \in DOMAIN delivered : \E i \in DOMAIN delivered[k] : delivered[k][i][1] = b

(* A reception ends, though its sender crashes in the middle of a          *)
(* datagram, or loses its alias: its AMD or AMR ends it.                   *)
ReceptionEnds == \A n \in Node : dg[n].receiving ~> ~dg[n].receiving \/ cut

(* "if it's in use, [...] you must repeat the request later": the transmit *)
(* buffer becomes free again, also while others are rejected without end,  *)
(* unless a frame is lost that the protocol cannot make up for (cut), or   *)
(* the receiver is a node with this library and does not accept the        *)
(* datagram: it is then sent again without end.                            *)
NotAccepted(b) == b # None /\ b.to \in Refusing \ LongNak
EverySendEnds ==
  \A n \in Node : dg[n].reserved ~> ~dg[n].reserved \/ cut \/ NotAccepted(dg[n].tbuf)
============================================================================
