----------------------------- MODULE LoopProofs -----------------------------
(***************************************************************************)
(* A node that answers any number of tools, with node information of any   *)
(* length: every answer under way is for someone who asked for it and has  *)
(* not got it yet, and node information comes without gaps.                *)
(*                                                                         *)
(* The argument is about which frames are under way (Air), not about where *)
(* they are; of their order it needs Before.  A tool has one question at a *)
(* time, and the places a question or its answer can be in exclude one     *)
(* another: this is what InfoFits, PipFits and ReadFits say.               *)
(***************************************************************************)
EXTENDS Loop, SequenceTheorems, TLAPS

(* The datagrams of tools and node, and all the frames there are. *)
Requests == [by : Tool, no : Nat, to : {Server}, size : {1, 2}]
Responses == [by : {Server}, no : Nat, to : Tool, size : {2}]
Datagrams == Requests \cup Responses

Fragments ==
  {f \in [kind : {"ALL", "FIRST", "LAST"}, src : Node, dst : Node, body : Datagrams, i : {1, 2}] :
     f.i <= f.body.size /\ f = Fragment(f.body, f.i)}
Information == [kind : {"SNII"}, src : {Server}, dst : Tool, i : 1 .. SniiFrames]
Message ==
  Fragments \cup Information
    \cup [kind : Replies, src : Tool, dst : {Server}] \cup [kind : Replies, src : {Server}, dst : Tool]
    \cup [kind : {"snii", "pip"}, src : Tool, dst : {Server}]
    \cup [kind : {"OIR", "PIP"}, src : {Server}, dst : Tool]

Info(t, i) == [kind |-> "SNII", src |-> Server, dst |-> t, i |-> i]
IsReply(f) == f.kind \in Replies

(* f may be under way before g. *)
Before(f, g) ==
  f.src = g.src =>
    /\ f # g
    /\ IsFragment(f) /\ IsFragment(g) => f.i < g.i
    /\ f.kind = "SNII" /\ g.kind = "SNII" /\ f.dst = g.dst => f.i < g.i
    /\ f.src # Server => ~(IsFragment(f) /\ IsReply(g))

(* The buffers t and r of the senders and the receivers. *)
Buffers(t, r) ==
  /\ t \in [Node -> Seq(Message)] /\ r \in [Node -> Seq(Message)]
  /\ \A n \in Node : \A k \in 1 .. Len(t[n]) : t[n][k].src = n
  /\ \A m \in Node : \A k \in 1 .. Len(r[m]) : r[m][k].dst = m
InOrder(t, r) ==
  /\ \A m \in Node : \A j, k \in 1 .. Len(r[m]) : j < k => Before(r[m][j], r[m][k])
  /\ \A n \in Node : \A j, k \in 1 .. Len(t[n]) : j < k => Before(t[n][j], t[n][k])
  /\ \A m, n \in Node : \A j \in 1 .. Len(r[m]) : \A k \in 1 .. Len(t[n]) :
       Before(r[m][j], t[n][k])

(* The frames under way. *)
Air(t, r) ==
  (UNION {{t[n][k] : k \in 1 .. Len(t[n])} : n \in Node})
    \cup (UNION {{r[n][k] : k \in 1 .. Len(r[n])} : n \in Node})

----------------------------------------------------------------------------
(* What is known of the frames A under way, given the datagram buffers d,  *)
(* the requests c, p and s the objects of the node keep, and what the      *)
(* tools wait for, w, and have heard, h.                                   *)

(* A node's fragments and the replies to it are about the datagram in its  *)
(* buffer: first come the fragments, when they are gone one reply.         *)
Own(A, d, n) ==
  /\ d[n].left > 0 => d[n].reserved
  /\ d[n].reserved => d[n].tbuf \in Datagrams /\ d[n].tbuf.by = n /\ d[n].left <= d[n].tbuf.size
  /\ \A f \in A : IsFragment(f) /\ f.src = n =>
       /\ d[n].reserved /\ f.body = d[n].tbuf /\ f.i <= f.body.size - d[n].left
       /\ f.i < f.body.size /\ d[n].left = 0 =>
            \E g \in A : IsFragment(g) /\ g.src = n /\ f.i < g.i
  /\ \A f \in A : IsReply(f) /\ f.dst = n =>
       /\ d[n].reserved /\ d[n].left = 0 /\ f.src = d[n].tbuf.to
       /\ \A g \in A : IsFragment(g) => g.src # n
       /\ \A g \in A : IsReply(g) /\ g.dst = n => f = g

(* n's datagram, or part of it, is still to come, or to come again. *)
Busy(A, d, n) ==
  \/ d[n].left > 0
  \/ \E f \in A : IsFragment(f) /\ f.src = n
  \/ \E f \in A : f.kind = "NAK" /\ f.dst = n

(* t's read request is with Configuration; the answer to it is being sent. *)
Answered(A, d, t) == Busy(A, d, Server) /\ d[Server].tbuf.to = t

ReadFits(A, d, c, w, t) ==
  /\ Busy(A, d, t) /\ d[t].tbuf.size = 1 => w[t] = "read"
  /\ Asked(c, t) => /\ w[t] = "read" /\ ~Busy(A, d, t)
                    /\ \A f \in A : f.src = t => ~IsReply(f)
  /\ Answered(A, d, t) => w[t] = "read" /\ ~Busy(A, d, t) /\ ~Asked(c, t)

(* The node's datagram is to come, or the reply to it is. *)
Pending(A, d) ==
  d[Server].reserved => Busy(A, d, Server) \/ \E f \in A : IsReply(f) /\ f.dst = Server

PipFits(A, p, w, t) ==
  /\ \A f \in A : f.kind = "pip" /\ f.src = t =>
       w[t] = "pip" /\ p # t /\ \A g \in A : g.kind = "PIP" => g.dst # t
  /\ p = t => w[t] = "pip" /\ \A g \in A : g.kind = "PIP" => g.dst # t
  /\ \A f \in A : f.kind = "PIP" /\ f.dst = t => w[t] = "pip"

(* SNII still has frames to send to t; the frames up to number k are under *)
(* way or heard.                                                           *)
Telling(s, t) == s.dest = t /\ s.sent < SniiFrames
Told(A, h, t, k) == \A i \in h[t] + 1 .. k : Info(t, i) \in A

InfoFits(A, s, w, h, t) ==
  /\ \A f \in A : f.kind = "snii" /\ f.src = t =>
       /\ w[t] = "snii" /\ h[t] = 0 /\ ~Telling(s, t)
       /\ \A g \in A : g.kind \in {"SNII", "OIR"} => g.dst # t
  /\ \A f \in A : f.kind = "OIR" /\ f.dst = t =>
       /\ w[t] = "snii" /\ ~Telling(s, t)
       /\ \A g \in A : g.kind = "SNII" => g.dst # t
  /\ Telling(s, t) => w[t] = "snii" /\ h[t] <= s.sent /\ Told(A, h, t, s.sent)
  /\ \A f \in A : f.kind = "SNII" /\ f.dst = t =>
       /\ w[t] = "snii" /\ h[t] < f.i
       /\ IF Telling(s, t) THEN f.i <= s.sent ELSE Told(A, h, t, SniiFrames)

Exchange(A, d, c, w) ==
  /\ A \subseteq Message
  /\ \A n \in Node : Own(A, d, n)
  /\ Pending(A, d)
  /\ \A t \in Tool : ReadFits(A, d, c, w, t)
Questions(A, p, s, w, h) ==
  \A t \in Tool : PipFits(A, p, w, t) /\ InfoFits(A, s, w, h, t)

(* The types of what the nodes, the server's objects and the tools keep. *)
Object ==
  [reserved : BOOLEAN, tbuf : Datagrams \cup {None}, left : Nat,
   receiving : BOOLEAN, from : Node \cup {None}, rbuf : Seq(Datagrams \X {1, 2})]
Stored ==
  /\ dg \in [Node -> Object] /\ hdr = [n \in Node |-> "OLCB"] /\ on = Node
  /\ count \in [send : Nat, fault : Nat]
  /\ cfg \in Requests \cup {None} /\ pip \in Tool \cup {None}
  /\ snii \in [sent : 0 .. SniiFrames, dest : Tool \cup {None}]
  /\ snii.sent < SniiFrames => snii.dest \in Tool
  /\ waiting \in [Tool -> {"nothing", "read", "pip", "snii"}] /\ heard \in [Tool -> Nat]

LoopInv ==
  /\ Stored
  /\ Buffers(tx, rx) /\ InOrder(tx, rx)
  /\ Exchange(Air(tx, rx), dg, cfg, waiting)
  /\ Questions(Air(tx, rx), pip, snii, waiting, heard)

----------------------------------------------------------------------------
(* Frames *)
LEMMA FragmentIs ==
  ASSUME NEW b \in Datagrams, NEW i \in 1 .. b.size
  PROVE  /\ Fragment(b, i) \in Message /\ IsFragment(Fragment(b, i))
         /\ Fragment(b, i).src = b.by /\ Fragment(b, i).dst = b.to
         /\ Fragment(b, i).body = b /\ Fragment(b, i).i = i
<1>0. Server \in Node
  BY LoopAssumption
<1>1. b.by \in Node /\ b.to \in Node /\ b.size \in {1, 2} /\ i \in {1, 2} /\ i <= b.size
  BY <1>0 DEF Datagrams, Requests, Responses, Tool
<1> DEFINE f == Fragment(b, i)
<1>2. /\ f.src = b.by /\ f.dst = b.to /\ f.body = b /\ f.i = i
      /\ f.kind = (IF b.size = 1 THEN "ALL" ELSE IF i = 1 THEN "FIRST"
                   ELSE IF i = b.size THEN "LAST" ELSE "MID")
      /\ f = [kind |-> f.kind, src |-> b.by, dst |-> b.to, body |-> b, i |-> i]
  BY DEF Fragment
<1> HIDE DEF f
<1>3. f.kind \in {"ALL", "FIRST", "LAST"}
  BY <1>1, <1>2
<1>4. f \in [kind : {"ALL", "FIRST", "LAST"}, src : Node, dst : Node, body : Datagrams, i : {1, 2}]
  BY <1>1, <1>2, <1>3
<1>5. f = Fragment(f.body, f.i)
  BY <1>2 DEF f
<1>6. f \in Fragments
  BY <1>1, <1>2, <1>4, <1>5 DEF Fragments
<1> QED BY <1>2, <1>3, <1>6 DEF Message, IsFragment, f

(* A frame goes from a tool to the node or from the node to a tool. *)
LEMMA MessageFacts ==
  ASSUME NEW f \in Message
  PROVE  /\ f.src \in Node /\ f.dst \in Node /\ f.src # f.dst
         /\ (f.src \in Tool /\ f.dst = Server) \/ (f.src = Server /\ f.dst \in Tool)
         /\ f.kind \in {"snii", "pip"} => f.src \in Tool
         /\ f.kind \in {"SNII", "OIR", "PIP"} => f.src = Server
         /\ ~IsMapping(f) /\ f.kind # "MID"
         /\ IsFragment(f) \/ IsReply(f) \/ f.kind \in {"snii", "pip", "SNII", "OIR", "PIP"}
<1>0. Server \in Node
  BY LoopAssumption
<1>1. CASE f \in Fragments
  <2>1. /\ f.body \in Datagrams /\ f.kind \in {"ALL", "FIRST", "LAST"}
        /\ f = Fragment(f.body, f.i)
    BY <1>1 DEF Fragments
  <2>2. f.src = f.body.by /\ f.dst = f.body.to
    BY <2>1 DEF Fragment
  <2>3. (f.src \in Tool /\ f.dst = Server) \/ (f.src = Server /\ f.dst \in Tool)
    BY <2>1, <2>2 DEF Datagrams, Requests, Responses
  <2> QED BY <1>0, <2>1, <2>3 DEF Tool, IsFragment, IsMapping
<1>2. CASE f \notin Fragments
  <2>1. /\ f.kind \in {"ACK", "NAK", "REJECT", "snii", "pip", "SNII", "OIR", "PIP"}
        /\ (f.src \in Tool /\ f.dst = Server) \/ (f.src = Server /\ f.dst \in Tool)
        /\ f.kind \in {"snii", "pip"} => f.src \in Tool
        /\ f.kind \in {"SNII", "OIR", "PIP"} => f.src = Server
    BY <1>2 DEF Message, Information, Replies
  <2> QED BY <1>0, <2>1 DEF Tool, IsReply, Replies, IsMapping
<1> QED BY <1>1, <1>2

LEMMA FragmentFacts ==
  ASSUME NEW f \in Message, IsFragment(f)
  PROVE  /\ f.body \in Datagrams /\ f.i \in 1 .. f.body.size /\ f = Fragment(f.body, f.i)
         /\ f.body.size \in {1, 2}
         /\ f.src = f.body.by /\ f.dst = f.body.to
         /\ f.kind \in Final <=> f.i = f.body.size
         /\ f.src = Server => f.body.size = 2
<1>1. f \in Fragments
  BY DEF Message, Information, IsFragment, Replies
<1>2. /\ f.body \in Datagrams /\ f.kind \in {"ALL", "FIRST", "LAST"} /\ f.i \in {1, 2}
      /\ f.i <= f.body.size /\ f = Fragment(f.body, f.i)
  BY <1>1 DEF Fragments
<1>3. /\ f.src = f.body.by /\ f.dst = f.body.to
      /\ f.kind = (IF f.body.size = 1 THEN "ALL" ELSE IF f.i = 1 THEN "FIRST"
                   ELSE IF f.i = f.body.size THEN "LAST" ELSE "MID")
  BY <1>2 DEF Fragment
<1>4. f.body.size \in {1, 2} /\ (f.body.by = Server => f.body.size = 2)
  BY <1>2 DEF Datagrams, Requests, Responses, Tool
<1>5. f.i \in 1 .. f.body.size
  BY <1>2, <1>4
<1>6. f.kind \in Final <=> f.i = f.body.size
  <2> HIDE DEF Fragments
  <2> QED BY <1>2, <1>3, <1>4 DEF Final
<1> QED BY <1>2, <1>3, <1>4, <1>5, <1>6

(* The other frames, by their kinds. *)
LEMMA OtherFacts ==
  /\ \A f \in Message : f.kind \in {"snii", "pip"} => f = Reply(f.kind, f.src, Server)
  /\ \A f \in Message : f.kind \in {"OIR", "PIP"} => f = Reply(f.kind, Server, f.dst)
  /\ \A f \in Message : f.kind = "SNII" => f = Info(f.dst, f.i) /\ f.i \in 1 .. SniiFrames
  /\ \A f \in Message : IsReply(f) => f = Reply(f.kind, f.src, f.dst)
BY DEF Message, Fragments, Information, Replies, IsReply, Reply, Info

LEMMA Kinds ==
  /\ \A t \in Tool : \A k \in {"snii", "pip"} :
       /\ Reply(k, t, Server) \in Message /\ Reply(k, t, Server).kind = k
       /\ Reply(k, t, Server).src = t /\ Reply(k, t, Server).dst = Server
  /\ \A t \in Tool : \A k \in {"OIR", "PIP"} :
       /\ Reply(k, Server, t) \in Message /\ Reply(k, Server, t).kind = k
       /\ Reply(k, Server, t).src = Server /\ Reply(k, Server, t).dst = t
  /\ \A t \in Tool : \A i \in 1 .. SniiFrames :
       /\ Info(t, i) \in Message /\ Info(t, i).kind = "SNII"
       /\ Info(t, i).src = Server /\ Info(t, i).dst = t /\ Info(t, i).i = i
  /\ \A t \in Tool : \A k \in Replies :
       /\ Reply(k, t, Server) \in Message /\ Reply(k, t, Server).kind = k
       /\ Reply(k, t, Server).src = t /\ Reply(k, t, Server).dst = Server
       /\ Reply(k, Server, t) \in Message /\ Reply(k, Server, t).kind = k
       /\ Reply(k, Server, t).src = Server /\ Reply(k, Server, t).dst = t
BY DEF Message, Information, Reply, Info

----------------------------------------------------------------------------
(* Buffers *)
LEMMA AirIs ==
  ASSUME NEW t, NEW r, NEW f
  PROVE  f \in Air(t, r) <=> \/ \E n \in Node : \E k \in 1 .. Len(t[n]) : f = t[n][k]
                             \/ \E n \in Node : \E k \in 1 .. Len(r[n]) : f = r[n][k]
<1> DEFINE U == UNION {{t[n][k] : k \in 1 .. Len(t[n])} : n \in Node}
           V == UNION {{r[n][k] : k \in 1 .. Len(r[n])} : n \in Node}
<1>1. f \in U <=> \E n \in Node : f \in {t[n][k] : k \in 1 .. Len(t[n])}
  OBVIOUS
<1>2. f \in V <=> \E n \in Node : f \in {r[n][k] : k \in 1 .. Len(r[n])}
  OBVIOUS
<1>3. Air(t, r) = U \cup V
  BY DEF Air
<1> HIDE DEF U, V
<1> QED BY <1>1, <1>2, <1>3

(* The frames of the buffers are under way. *)
LEMMA InAir ==
  ASSUME NEW t, NEW r, Buffers(t, r)
  PROVE  /\ \A n \in Node : \A k \in 1 .. Len(t[n]) : t[n][k] \in Air(t, r) /\ t[n][k] \in Message
         /\ \A n \in Node : \A k \in 1 .. Len(r[n]) : r[n][k] \in Air(t, r) /\ r[n][k] \in Message
<1>1. \A n \in Node : t[n] \in Seq(Message) /\ r[n] \in Seq(Message)
  BY DEF Buffers
<1>2. \A n \in Node : \A k \in 1 .. Len(t[n]) : t[n][k] \in Message
  BY <1>1, ElementOfSeq
<1>3. \A n \in Node : \A k \in 1 .. Len(r[n]) : r[n][k] \in Message
  BY <1>1, ElementOfSeq
<1> QED BY <1>2, <1>3, AirIs

(* A frame more, put behind the others. *)
Put(t, n, g) == [t EXCEPT ![n] = Append(@, g)]
Behind(g, A) == \A h \in A : Before(h, g)
LEMMA SentInOrder ==
  ASSUME NEW t, NEW r, Buffers(t, r), InOrder(t, r), NEW n \in Node,
         NEW g \in Message, g.src = n, Behind(g, Air(t, r))
  PROVE  /\ Buffers(Put(t, n, g), r) /\ InOrder(Put(t, n, g), r)
         /\ Air(Put(t, n, g), r) = Air(t, r) \cup {g}
<1> DEFINE t2 == Put(t, n, g)
           u == Append(t[n], g)
           L == Len(t[n])
<1>0. /\ t \in [Node -> Seq(Message)] /\ r \in [Node -> Seq(Message)]
      /\ \A m \in Node : \A k \in 1 .. Len(t[m]) : t[m][k].src = m
      /\ \A m \in Node : \A k \in 1 .. Len(r[m]) : r[m][k].dst = m
  BY DEF Buffers
<1>1. t[n] \in Seq(Message) /\ L \in Nat
  BY <1>0, LenProperties
<1>2. u \in Seq(Message)
  BY <1>1
<1>3. Len(u) = L + 1
  BY <1>1
<1>4. \A k \in 1 .. L : u[k] = t[n][k]
  BY <1>1
<1>5. u[L + 1] = g
  BY <1>1
<1>6. t2 \in [Node -> Seq(Message)] /\ t2[n] = u /\ \A m \in Node : m # n => t2[m] = t[m]
  BY <1>0, <1>2 DEF Put
<1>7. \A m \in Node : \A k \in 1 .. Len(t[m]) : t[m][k] \in Air(t, r)
  BY InAir
<1>8. \A m \in Node : \A k \in 1 .. Len(r[m]) : r[m][k] \in Air(t, r)
  BY InAir
<1>9. \A k \in 1 .. L : Before(t[n][k], g)
  BY <1>7 DEF Behind
<1>o. /\ \A m \in Node : \A j, k \in 1 .. Len(r[m]) : j < k => Before(r[m][j], r[m][k])
      /\ \A m \in Node : \A j, k \in 1 .. Len(t[m]) : j < k => Before(t[m][j], t[m][k])
      /\ \A m, x \in Node : \A j \in 1 .. Len(r[m]) : \A k \in 1 .. Len(t[x]) :
           Before(r[m][j], t[x][k])
  BY DEF InOrder
<1>p. \A j, k \in 1 .. L : j < k => Before(t[n][j], t[n][k])
  BY <1>o
<1>q. \A m \in Node : \A j \in 1 .. Len(r[m]) : \A k \in 1 .. L : Before(r[m][j], t[n][k])
  BY <1>o
<1>s. \A k \in 1 .. L : t[n][k].src = n
  BY <1>0
<1> HIDE DEF t2, u, L
<1>10. Buffers(t2, r)
  <2>1. ASSUME NEW m \in Node, NEW k \in 1 .. Len(t2[m]) PROVE t2[m][k].src = m
    <3>1. CASE m = n
      <4>1. k \in 1 .. L \/ k = L + 1
        BY <1>1, <1>3, <1>6, <3>1
      <4> QED BY <1>4, <1>5, <1>6, <1>s, <3>1, <4>1
    <3>2. CASE m # n
      BY <1>0, <1>6, <3>2
    <3> QED BY <3>1, <3>2
  <2> QED BY <1>0, <1>6, <2>1 DEF Buffers
<1>11. InOrder(t2, r)
  <2>1. ASSUME NEW m \in Node, NEW j \in 1 .. Len(t2[m]), NEW k \in 1 .. Len(t2[m]), j < k
        PROVE  Before(t2[m][j], t2[m][k])
    <3>1. CASE m = n
      <4>1. j \in 1 .. L + 1 /\ k \in 1 .. L + 1 /\ t2[m] = u
        BY <1>3, <1>6, <3>1
      <4>2. j \in 1 .. L /\ (k \in 1 .. L \/ k = L + 1)
        BY <1>1, <2>1, <4>1
      <4> QED BY <1>4, <1>5, <1>9, <1>p, <2>1, <4>1, <4>2
    <3>2. CASE m # n
      BY <1>6, <1>o, <2>1, <3>2
    <3> QED BY <3>1, <3>2
  <2>2. ASSUME NEW m \in Node, NEW x \in Node, NEW j \in 1 .. Len(r[m]), NEW k \in 1 .. Len(t2[x])
        PROVE  Before(r[m][j], t2[x][k])
    <3>1. CASE x = n
      <4>1. (k \in 1 .. L \/ k = L + 1) /\ t2[x] = u
        BY <1>1, <1>3, <1>6, <3>1
      <4> QED BY <1>4, <1>5, <1>8, <1>q, <4>1 DEF Behind
    <3>2. CASE x # n
      BY <1>6, <1>o, <3>2
    <3> QED BY <3>1, <3>2
  <2> QED BY <1>o, <2>1, <2>2 DEF InOrder
<1>12. Air(t2, r) \subseteq Air(t, r) \cup {g}
  <2> SUFFICES ASSUME NEW f \in Air(t2, r), f # g PROVE f \in Air(t, r)
    OBVIOUS
  <2>1. CASE \E m \in Node : \E k \in 1 .. Len(r[m]) : f = r[m][k]
    BY <1>8, <2>1
  <2>2. ASSUME NEW m \in Node, NEW k \in 1 .. Len(t2[m]), f = t2[m][k] PROVE f \in Air(t, r)
    <3>1. CASE m = n
      <4>1. (k \in 1 .. L \/ k = L + 1) /\ t2[m] = u
        BY <1>1, <1>3, <1>6, <3>1
      <4> QED BY <1>4, <1>5, <1>7, <2>2, <4>1 DEF L
    <3>2. CASE m # n
      BY <1>6, <1>7, <2>2, <3>2
    <3> QED BY <3>1, <3>2
  <2> QED BY <2>1, <2>2, AirIs
<1>13. Air(t, r) \subseteq Air(t2, r)
  <2>1. ASSUME NEW m \in Node, NEW k \in 1 .. Len(t[m])
        PROVE  \E j \in 1 .. Len(t2[m]) : t2[m][j] = t[m][k]
    <3>1. CASE m = n
      <4>1. k \in 1 .. Len(t2[m]) /\ t2[m][k] = t[m][k]
        BY <1>1, <1>3, <1>4, <1>6, <3>1 DEF L
      <4> QED BY <4>1
    <3>2. CASE m # n
      BY <1>6, <3>2
    <3> QED BY <3>1, <3>2
  <2> QED BY <2>1, AirIs
<1>14. g \in Air(t2, r)
  <2>1. L + 1 \in 1 .. Len(t2[n]) /\ t2[n][L + 1] = g
    BY <1>1, <1>3, <1>5, <1>6
  <2> QED BY <2>1, AirIs
<1> QED BY <1>10, <1>11, <1>12, <1>13, <1>14 DEF t2

(* A receiver takes the first frame. *)
LEMMA TakenInOrder ==
  ASSUME NEW t, NEW r, Buffers(t, r), InOrder(t, r), NEW n \in Node, r[n] # << >>
  PROVE  LET r2 == [r EXCEPT ![n] = Tail(@)]
         IN  /\ Buffers(t, r2) /\ InOrder(t, r2) /\ Air(t, r2) = Air(t, r) \ {Head(r[n])}
             /\ Head(r[n]) \in Air(t, r) /\ Head(r[n]).dst = n
             /\ \A h \in Air(t, r2) : h.dst = n => Before(Head(r[n]), h)
<1> DEFINE r2 == [r EXCEPT ![n] = Tail(@)]
           f == Head(r[n])
           u == Tail(r[n])
           L == Len(r[n])
<1>0. /\ t \in [Node -> Seq(Message)] /\ r \in [Node -> Seq(Message)]
      /\ \A m \in Node : \A k \in 1 .. Len(r[m]) : r[m][k].dst = m
  BY DEF Buffers
<1>1. r[n] \in Seq(Message) /\ L \in Nat \ {0} /\ f = r[n][1]
  BY <1>0, EmptySeq, LenProperties
<1>2. u \in Seq(Message) /\ Len(u) = L - 1 /\ \A k \in 1 .. L - 1 : u[k] = r[n][k + 1]
  <2>1. u \in Seq(Message) /\ Len(u) = L - 1
    BY <1>0, HeadTailProperties
  <2>2. \A k \in 1 .. Len(u) : u[k] = r[n][k + 1]
    BY <1>0, HeadTailProperties
  <2> QED BY <2>1, <2>2
<1>3. r2 \in [Node -> Seq(Message)] /\ r2[n] = u /\ \A m \in Node : m # n => r2[m] = r[m]
  BY <1>0, <1>2
<1>4. 1 \in 1 .. L
  BY <1>1
<1>5. f \in Air(t, r) /\ f.dst = n /\ f \in Message
  BY <1>0, <1>1, <1>4, InAir
<1>o. /\ \A m \in Node : \A j, k \in 1 .. Len(r[m]) : j < k => Before(r[m][j], r[m][k])
      /\ \A m, x \in Node : \A j \in 1 .. Len(r[m]) : \A k \in 1 .. Len(t[x]) :
           Before(r[m][j], t[x][k])
  BY DEF InOrder
<1>p. \A k \in 1 .. L : 1 < k => Before(f, r[n][k])
  BY <1>1, <1>4, <1>o
<1>q. \A x \in Node : \A k \in 1 .. Len(t[x]) : Before(f, t[x][k])
  BY <1>1, <1>4, <1>o
<1> HIDE DEF r2, f, u, L
<1>i. ASSUME NEW m \in Node, NEW k \in 1 .. Len(r2[m])
      PROVE  \E y \in 1 .. Len(r[m]) : r2[m][k] = r[m][y] /\ y = IF m = n THEN k + 1 ELSE k
  <2>1. CASE m = n
    <3>1. k \in 1 .. L - 1 /\ r2[m][k] = u[k]
      BY <1>2, <1>3, <2>1
    <3>2. k + 1 \in 1 .. L
      BY <1>1, <3>1
    <3> QED BY <1>2, <2>1, <3>1, <3>2 DEF L
  <2>2. CASE m # n
    BY <1>3, <2>2
  <2> QED BY <2>1, <2>2
<1>6. Buffers(t, r2)
  <2>1. ASSUME NEW m \in Node, NEW k \in 1 .. Len(r2[m]) PROVE r2[m][k].dst = m
    <3>1. PICK y \in 1 .. Len(r[m]) : r2[m][k] = r[m][y]
      BY <1>i
    <3> QED BY <1>0, <3>1
  <2> QED BY <1>3, <2>1 DEF Buffers
<1>7. InOrder(t, r2)
  <2>1. ASSUME NEW m \in Node, NEW j \in 1 .. Len(r2[m]), NEW k \in 1 .. Len(r2[m]), j < k
        PROVE  Before(r2[m][j], r2[m][k])
    <3>1. PICK x \in 1 .. Len(r[m]) : r2[m][j] = r[m][x] /\ x = IF m = n THEN j + 1 ELSE j
      BY <1>i
    <3>2. PICK y \in 1 .. Len(r[m]) : r2[m][k] = r[m][y] /\ y = IF m = n THEN k + 1 ELSE k
      BY <1>i
    <3>3. x < y
      BY <2>1, <3>1, <3>2
    <3> QED BY <1>o, <3>1, <3>2, <3>3
  <2>2. ASSUME NEW m \in Node, NEW x \in Node, NEW j \in 1 .. Len(r2[m]), NEW k \in 1 .. Len(t[x])
        PROVE  Before(r2[m][j], t[x][k])
    <3>1. PICK y \in 1 .. Len(r[m]) : r2[m][j] = r[m][y]
      BY <1>i
    <3> QED BY <1>o, <3>1
  <2>3. \A m \in Node : \A j, k \in 1 .. Len(t[m]) : j < k => Before(t[m][j], t[m][k])
    BY DEF InOrder
  <2> QED BY <2>1, <2>2, <2>3 DEF InOrder
<1>8. ASSUME NEW h \in Air(t, r2) PROVE h \in Air(t, r) /\ (h.dst = n => Before(f, h))
  <2>1. ASSUME NEW x \in Node, NEW k \in 1 .. Len(t[x]), h = t[x][k]
        PROVE  h \in Air(t, r) /\ Before(f, h)
    BY <1>q, <2>1, AirIs
  <2>2. ASSUME NEW m \in Node, NEW k \in 1 .. Len(r2[m]), h = r2[m][k]
        PROVE  h \in Air(t, r) /\ (h.dst = n => Before(f, h))
    <3>1. PICK y \in 1 .. Len(r[m]) : r2[m][k] = r[m][y] /\ y = IF m = n THEN k + 1 ELSE k
      BY <1>i
    <3>2. h \in Air(t, r) /\ h.dst = m
      BY <1>0, <2>2, <3>1, AirIs
    <3>3. CASE m = n
      <4>1. 1 < y /\ y \in 1 .. L
        BY <3>1, <3>3 DEF L
      <4> QED BY <1>p, <2>2, <3>1, <3>2, <3>3, <4>1
    <3> QED BY <3>2, <3>3
  <2> QED BY <2>1, <2>2, AirIs
<1>9. f \notin Air(t, r2)
  BY <1>5, <1>8 DEF Before
<1>10. Air(t, r) \subseteq Air(t, r2) \cup {f}
  <2>1. ASSUME NEW m \in Node, NEW k \in 1 .. Len(r[m]), r[m][k] # f
        PROVE  \E j \in 1 .. Len(r2[m]) : r2[m][j] = r[m][k]
    <3>1. CASE m = n
      <4>1. k \in 1 .. L /\ k # 1
        BY <1>1, <2>1, <3>1 DEF L
      <4>2. PICK j \in 1 .. L - 1 : k = j + 1
        <5>1. k - 1 \in 1 .. L - 1 /\ k = (k - 1) + 1
          BY <1>1, <4>1
        <5> QED BY <5>1
      <4>3. u[j] = r[n][k]
        BY <1>2, <4>2
      <4> QED BY <1>2, <1>3, <3>1, <4>2, <4>3
    <3>2. CASE m # n
      BY <1>3, <3>2
    <3> QED BY <3>1, <3>2
  <2> QED BY <2>1, AirIs
<1>11. Air(t, r2) = Air(t, r) \ {f}
  BY <1>5, <1>8, <1>9, <1>10
<1> QED BY <1>5, <1>6, <1>7, <1>8, <1>11 DEF r2, f

(* The bus takes the first frame of a sender to its receiver. *)
Brought(r, f) == [m \in Node |-> IF f.dst = m THEN Append(r[m], f) ELSE r[m]]
LEMMA BroughtInOrder ==
  ASSUME NEW t, NEW r, Buffers(t, r), InOrder(t, r), NEW n \in Node, t[n] # << >>
  PROVE  LET t2 == [t EXCEPT ![n] = Tail(@)]
             r2 == Brought(r, Head(t[n]))
         IN  Buffers(t2, r2) /\ InOrder(t2, r2) /\ Air(t2, r2) = Air(t, r)
<1> DEFINE t2 == [t EXCEPT ![n] = Tail(@)]
           f == Head(t[n])
           r2 == Brought(r, f)
           u == Tail(t[n])
           L == Len(t[n])
<1>0. /\ t \in [Node -> Seq(Message)] /\ r \in [Node -> Seq(Message)]
      /\ \A m \in Node : \A k \in 1 .. Len(t[m]) : t[m][k].src = m
      /\ \A m \in Node : \A k \in 1 .. Len(r[m]) : r[m][k].dst = m
  BY DEF Buffers
<1>1. t[n] \in Seq(Message) /\ L \in Nat \ {0} /\ f = t[n][1]
  BY <1>0, EmptySeq, LenProperties
<1>2. u \in Seq(Message) /\ Len(u) = L - 1 /\ \A k \in 1 .. L - 1 : u[k] = t[n][k + 1]
  <2>1. u \in Seq(Message) /\ Len(u) = L - 1
    BY <1>0, HeadTailProperties
  <2>2. \A k \in 1 .. Len(u) : u[k] = t[n][k + 1]
    BY <1>0, HeadTailProperties
  <2> QED BY <2>1, <2>2
<1>3. t2 \in [Node -> Seq(Message)] /\ t2[n] = u /\ \A m \in Node : m # n => t2[m] = t[m]
  BY <1>0, <1>2
<1>4. 1 \in 1 .. L
  BY <1>1
<1>5. f \in Air(t, r) /\ f.src = n /\ f \in Message
  BY <1>0, <1>1, <1>4, InAir
<1>6. ASSUME NEW m \in Node
      PROVE  /\ r2[m] \in Seq(Message)
             /\ \A k \in 1 .. Len(r2[m]) :
                  \/ k \in 1 .. Len(r[m]) /\ r2[m][k] = r[m][k]
                  \/ k = Len(r[m]) + 1 /\ r2[m][k] = f /\ f.dst = m
  <2>0. r[m] \in Seq(Message) /\ Len(r[m]) \in Nat
    BY <1>0, LenProperties
  <2>1. CASE f.dst = m
    <3>0. r2[m] = Append(r[m], f)
      BY <2>1 DEF Brought
    <3> HIDE DEF r2, f
    <3>1. Append(r[m], f) \in Seq(Message)
      BY <1>5, <2>0
    <3>2. Len(Append(r[m], f)) = Len(r[m]) + 1
      BY <1>5, <2>0
    <3>3. \A k \in 1 .. Len(r[m]) : Append(r[m], f)[k] = r[m][k]
      BY <1>5, <2>0
    <3>4. Append(r[m], f)[Len(r[m]) + 1] = f
      BY <1>5, <2>0
    <3>5. ASSUME NEW k \in 1 .. Len(r[m]) + 1 PROVE k \in 1 .. Len(r[m]) \/ k = Len(r[m]) + 1
      BY <2>0
    <3> QED BY <2>1, <3>0, <3>1, <3>2, <3>3, <3>4, <3>5
  <2>2. CASE f.dst # m
    <3>0. r2[m] = r[m]
      BY <2>2 DEF Brought
    <3> HIDE DEF r2
    <3> QED BY <2>0, <3>0
  <2> QED BY <2>1, <2>2
<1>r. ASSUME NEW m \in Node
      PROVE  /\ \A k \in 1 .. Len(r[m]) : k \in 1 .. Len(r2[m]) /\ r2[m][k] = r[m][k]
             /\ f.dst = m => \E k \in 1 .. Len(r2[m]) : r2[m][k] = f
  <2>0. r[m] \in Seq(Message) /\ Len(r[m]) \in Nat
    BY <1>0, LenProperties
  <2>1. CASE f.dst = m
    <3>0. r2[m] = Append(r[m], f)
      BY <2>1 DEF Brought
    <3> HIDE DEF r2, f
    <3>2. Len(Append(r[m], f)) = Len(r[m]) + 1
      BY <1>5, <2>0
    <3>3. \A k \in 1 .. Len(r[m]) : Append(r[m], f)[k] = r[m][k]
      BY <1>5, <2>0
    <3>4. Append(r[m], f)[Len(r[m]) + 1] = f
      BY <1>5, <2>0
    <3>5. Len(r[m]) + 1 \in 1 .. Len(r[m]) + 1
      BY <2>0
    <3>6. \A k \in 1 .. Len(r[m]) : k \in 1 .. Len(r[m]) + 1
      BY <2>0
    <3> QED BY <3>0, <3>2, <3>3, <3>4, <3>5, <3>6
  <2>2. CASE f.dst # m
    <3>0. r2[m] = r[m]
      BY <2>2 DEF Brought
    <3> HIDE DEF r2
    <3> QED BY <2>2, <3>0
  <2> QED BY <2>1, <2>2
<1>7. r2 \in [Node -> Seq(Message)]
  BY <1>6 DEF Brought
<1>o. /\ \A m \in Node : \A j, k \in 1 .. Len(r[m]) : j < k => Before(r[m][j], r[m][k])
      /\ \A m \in Node : \A j, k \in 1 .. Len(t[m]) : j < k => Before(t[m][j], t[m][k])
      /\ \A m, x \in Node : \A j \in 1 .. Len(r[m]) : \A k \in 1 .. Len(t[x]) :
           Before(r[m][j], t[x][k])
  BY DEF InOrder
<1>p. \A k \in 1 .. L : 1 < k => Before(f, t[n][k])
  BY <1>1, <1>4, <1>o
<1>q. \A m \in Node : \A j \in 1 .. Len(r[m]) : Before(r[m][j], f)
  BY <1>1, <1>4, <1>o
<1>s. \A m \in Node : Len(r[m]) \in Nat
  BY <1>0, LenProperties
<1>a. \A m \in Node : \A k \in 1 .. Len(t[m]) : t[m][k] \in Air(t, r)
  BY InAir
<1>b. \A m \in Node : \A k \in 1 .. Len(r[m]) : r[m][k] \in Air(t, r)
  BY InAir
<1>t. ASSUME NEW m \in Node, NEW k \in 1 .. Len(t2[m])
      PROVE  \E y \in 1 .. Len(t[m]) : /\ t2[m][k] = t[m][y]
                                       /\ y = IF m = n THEN k + 1 ELSE k
  <2>1. CASE m = n
    <3>1. k \in 1 .. L - 1 /\ t2[m][k] = u[k]
      BY <1>2, <1>3, <2>1
    <3>2. k + 1 \in 1 .. L
      BY <1>1, <3>1
    <3> QED BY <1>2, <2>1, <3>1, <3>2
  <2>2. CASE m # n
    BY <1>3, <2>2
  <2> QED BY <2>1, <2>2
<1> HIDE DEF t2, r2, f, u, L
<1>8. Buffers(t2, r2)
  <2>1. ASSUME NEW m \in Node, NEW k \in 1 .. Len(t2[m]) PROVE t2[m][k].src = m
    <3>1. PICK y \in 1 .. Len(t[m]) : t2[m][k] = t[m][y]
      BY <1>t
    <3> QED BY <1>0, <3>1
  <2>2. ASSUME NEW m \in Node, NEW k \in 1 .. Len(r2[m]) PROVE r2[m][k].dst = m
    BY <1>0, <1>6
  <2> QED BY <1>3, <1>7, <2>1, <2>2 DEF Buffers
<1>9. InOrder(t2, r2)
  <2>1. ASSUME NEW m \in Node, NEW j \in 1 .. Len(r2[m]), NEW k \in 1 .. Len(r2[m]), j < k
        PROVE  Before(r2[m][j], r2[m][k])
    <3>1. j \in 1 .. Len(r[m]) /\ r2[m][j] = r[m][j]
      <4>1. \/ k \in 1 .. Len(r[m])
            \/ k = Len(r[m]) + 1
        BY <1>6
      <4>2. j # Len(r[m]) + 1
        BY <1>s, <2>1, <4>1
      <4> QED BY <1>6, <4>2
    <3>2. CASE k \in 1 .. Len(r[m]) /\ r2[m][k] = r[m][k]
      BY <1>o, <2>1, <3>1, <3>2
    <3>3. CASE r2[m][k] = f
      BY <1>q, <3>1, <3>3
    <3> QED BY <1>6, <3>2, <3>3
  <2>2. ASSUME NEW m \in Node, NEW j \in 1 .. Len(t2[m]), NEW k \in 1 .. Len(t2[m]), j < k
        PROVE  Before(t2[m][j], t2[m][k])
    <3>1. PICK x \in 1 .. Len(t[m]) : t2[m][j] = t[m][x] /\ x = IF m = n THEN j + 1 ELSE j
      BY <1>t
    <3>2. PICK y \in 1 .. Len(t[m]) : t2[m][k] = t[m][y] /\ y = IF m = n THEN k + 1 ELSE k
      BY <1>t
    <3>3. x < y
      BY <2>2, <3>1, <3>2
    <3> QED BY <1>o, <3>1, <3>2, <3>3
  <2>3. ASSUME NEW m \in Node, NEW x \in Node, NEW j \in 1 .. Len(r2[m]), NEW k \in 1 .. Len(t2[x])
        PROVE  Before(r2[m][j], t2[x][k])
    <3>1. PICK y \in 1 .. Len(t[x]) : t2[x][k] = t[x][y] /\ y = IF x = n THEN k + 1 ELSE k
      BY <1>t
    <3>2. CASE j \in 1 .. Len(r[m]) /\ r2[m][j] = r[m][j]
      BY <1>o, <3>1, <3>2
    <3>3. CASE r2[m][j] = f
      <4>1. CASE x = n
        <5>1. 1 < y /\ y \in 1 .. L
          BY <1>1, <3>1, <4>1 DEF L
        <5> QED BY <1>p, <3>1, <3>3, <4>1, <5>1
      <4>2. CASE x # n
        <5>1. t[x][y].src = x
          BY <1>0
        <5> QED BY <1>5, <3>1, <3>3, <4>2, <5>1 DEF Before
      <4> QED BY <4>1, <4>2
    <3> QED BY <1>6, <3>2, <3>3
  <2> QED BY <2>1, <2>2, <2>3 DEF InOrder
<1>10. Air(t2, r2) \subseteq Air(t, r)
  <2> SUFFICES ASSUME NEW h \in Air(t2, r2) PROVE h \in Air(t, r)
    OBVIOUS
  <2>1. ASSUME NEW m \in Node, NEW k \in 1 .. Len(t2[m]), h = t2[m][k] PROVE h \in Air(t, r)
    <3>1. PICK y \in 1 .. Len(t[m]) : t2[m][k] = t[m][y]
      BY <1>t
    <3> QED BY <1>a, <2>1, <3>1
  <2>2. ASSUME NEW m \in Node, NEW k \in 1 .. Len(r2[m]), h = r2[m][k] PROVE h \in Air(t, r)
    BY <1>5, <1>6, <1>b, <2>2
  <2> QED BY <2>1, <2>2, AirIs
<1>11. Air(t, r) \subseteq Air(t2, r2)
  <2>1. ASSUME NEW m \in Node, NEW k \in 1 .. Len(r[m]) PROVE r[m][k] \in Air(t2, r2)
    <3>1. k \in 1 .. Len(r2[m]) /\ r2[m][k] = r[m][k]
      BY <1>r
    <3> QED BY <3>1, AirIs
  <2>2. f \in Air(t2, r2)
    <3>1. f.dst \in Node
      BY <1>5, MessageFacts
    <3>2. \E k \in 1 .. Len(r2[f.dst]) : r2[f.dst][k] = f
      BY <1>r, <3>1
    <3> QED BY <3>1, <3>2, AirIs
  <2>3. ASSUME NEW m \in Node, NEW k \in 1 .. Len(t[m]), t[m][k] # f
        PROVE  \E j \in 1 .. Len(t2[m]) : t2[m][j] = t[m][k]
    <3>1. CASE m = n
      <4>1. k \in 1 .. L /\ k # 1
        BY <1>1, <2>3, <3>1 DEF L
      <4>2. PICK j \in 1 .. L - 1 : k = j + 1
        <5>1. k - 1 \in 1 .. L - 1 /\ k = (k - 1) + 1
          BY <1>1, <4>1
        <5> QED BY <5>1
      <4>3. u[j] = t[n][k]
        BY <1>2, <4>2
      <4> QED BY <1>2, <1>3, <3>1, <4>2, <4>3
    <3>2. CASE m # n
      BY <1>3, <3>2
    <3> QED BY <3>1, <3>2
  <2>4. ASSUME NEW m \in Node, NEW k \in 1 .. Len(t[m]) PROVE t[m][k] \in Air(t2, r2)
    <3>1. CASE t[m][k] # f
      BY <2>3, <3>1, AirIs
    <3> QED BY <2>2, <3>1
  <2> QED BY <2>1, <2>4, AirIs
<1> QED BY <1>8, <1>9, <1>10, <1>11 DEF t2, r2, f

----------------------------------------------------------------------------
(* Node information and PIP: what other frames do to them. *)
LEMMA PipKept ==
  ASSUME NEW A, NEW A2, NEW p, NEW p2, NEW w, NEW w2, NEW t, PipFits(A, p, w, t),
         \A f \in A2 : f.kind \in {"pip", "PIP"} /\ (f.src = t \/ f.dst = t) => f \in A,
         p2 = t => p = t, w[t] = "pip" => w2[t] = "pip"
  PROVE  PipFits(A2, p2, w2, t)
BY DEF PipFits

LEMMA InfoKept ==
  ASSUME NEW A, NEW A2, NEW s, NEW s2, NEW w, NEW w2, NEW h, NEW h2, NEW t,
         InfoFits(A, s, w, h, t),
         \A f \in A2 : f.kind \in {"snii", "SNII", "OIR"} /\ (f.src = t \/ f.dst = t) => f \in A,
         \A f \in A : f.kind = "SNII" /\ f.dst = t => f \in A2,
         Telling(s2, t) <=> Telling(s, t), Telling(s, t) => s2.sent = s.sent,
         w[t] = "snii" => w2[t] = "snii" /\ h2[t] = h[t]
  PROVE  InfoFits(A2, s2, w2, h2, t)
<1>1. CASE w[t] = "snii"
  <2>1. w2[t] = "snii" /\ h2[t] = h[t]
    BY <1>1
  <2>2. \A i : Info(t, i) \in A => Info(t, i) \in A2
    BY DEF Info
  <2>3. \A k : Told(A, h, t, k) => Told(A2, h2, t, k)
    BY <2>1, <2>2 DEF Told
  <2> QED BY <2>1, <2>3 DEF InfoFits
<1>2. CASE w[t] # "snii"
  BY <1>2 DEF InfoFits
<1> QED BY <1>1, <1>2

(* A step of datagrams leaves the other questions alone. *)
LEMMA QuestionsKept ==
  ASSUME NEW A, NEW A2, NEW p, NEW s, NEW w, NEW w2, NEW h, NEW h2,
         Questions(A, p, s, w, h), A \subseteq Message,
         \A f : ~IsFragment(f) /\ ~IsReply(f) => (f \in A2 <=> f \in A),
         \A t \in Tool : w[t] \in {"pip", "snii"} => w2[t] = w[t] /\ h2[t] = h[t]
  PROVE  Questions(A2, p, s, w2, h2)
<1> SUFFICES ASSUME NEW t \in Tool PROVE PipFits(A2, p, w2, t) /\ InfoFits(A2, s, w2, h2, t)
  BY DEF Questions
<1>1. PipFits(A, p, w, t) /\ InfoFits(A, s, w, h, t)
  BY DEF Questions
<1>2. \A f : f.kind \in {"pip", "PIP", "snii", "SNII", "OIR"} => ~IsFragment(f) /\ ~IsReply(f)
  BY DEF IsFragment, IsReply, Replies
<1>3. PipFits(A2, p, w2, t)
  BY <1>1, <1>2, PipKept
<1>4. InfoFits(A2, s, w2, h2, t)
  BY <1>1, <1>2, InfoKept
<1> QED BY <1>3, <1>4

----------------------------------------------------------------------------
(* Datagrams *)
SameBuffer(x, y) == x.reserved = y.reserved /\ x.tbuf = y.tbuf /\ x.left = y.left

LEMMA ReadKept ==
  ASSUME NEW A, NEW A2, NEW d, NEW d2, NEW c, NEW c2, NEW w, NEW w2, NEW t \in Tool,
         ReadFits(A, d, c, w, t),
         Busy(A2, d2, t) => Busy(A, d, t), Busy(A2, d2, Server) => Busy(A, d, Server),
         d2[t].tbuf = d[t].tbuf, d2[Server].tbuf = d[Server].tbuf,
         w[t] = "read" => w2[t] = "read",
         Asked(c2, t) => Asked(c, t) /\ \A f \in A2 : f.src = t => ~IsReply(f)
  PROVE  ReadFits(A2, d2, c2, w2, t)
BY DEF ReadFits, Answered

(* Frames of the other kinds leave datagrams alone. *)
LEMMA ExchangeKept ==
  ASSUME NEW A, NEW A2 \in SUBSET Message, NEW d, NEW d2, NEW c, NEW c2, NEW w, NEW w2,
         Exchange(A, d, c, w),
         \A f : IsFragment(f) \/ IsReply(f) => (f \in A2 <=> f \in A),
         \A n \in Node : SameBuffer(d[n], d2[n]),
         \A t \in Tool : w[t] = "read" => w2[t] = "read",
         \A t \in Tool : Asked(c2, t) => Asked(c, t)
  PROVE  Exchange(A2, d2, c2, w2)
<1>0. Server \in Node /\ \A t \in Tool : t \in Node
  BY LoopAssumption DEF Tool
<1>1. \A f : f.kind = "NAK" => IsReply(f)
  BY DEF IsReply, Replies
<1>2. ASSUME NEW n \in Node PROVE Own(A2, d2, n) /\ (Busy(A2, d2, n) <=> Busy(A, d, n))
  <2>1. SameBuffer(d[n], d2[n]) /\ Own(A, d, n)
    BY DEF Exchange
  <2>2. Busy(A2, d2, n) <=> Busy(A, d, n)
    BY <1>1, <2>1 DEF SameBuffer, Busy
  <2>3. Own(A2, d2, n)
    BY <2>1 DEF SameBuffer, Own
  <2> QED BY <2>2, <2>3
<1>3. Pending(A2, d2)
  <2>1. SameBuffer(d[Server], d2[Server]) /\ Pending(A, d)
    BY <1>0 DEF Exchange
  <2> QED BY <1>0, <1>2, <2>1 DEF SameBuffer, Pending
<1>4. ASSUME NEW t \in Tool PROVE ReadFits(A2, d2, c2, w2, t)
  <2>1. ReadFits(A, d, c, w, t)
    BY DEF Exchange
  <2>2. d2[t].tbuf = d[t].tbuf /\ d2[Server].tbuf = d[Server].tbuf
    BY <1>0 DEF SameBuffer
  <2>3. Asked(c2, t) => Asked(c, t) /\ \A f \in A2 : f.src = t => ~IsReply(f)
    BY <2>1 DEF ReadFits
  <2> QED BY <1>0, <1>2, <2>1, <2>2, <2>3, ReadKept
<1> QED BY <1>2, <1>3, <1>4 DEF Exchange

(* Facts about one node's datagram, all that is needed of Own. *)
LEMMA OwnFacts ==
  ASSUME NEW A, NEW d, NEW c, NEW w, Exchange(A, d, c, w), NEW f \in A
  PROVE  /\ f \in Message
         /\ IsFragment(f) =>
              /\ f.src \in Node /\ f.dst \in Node
              /\ d[f.src].reserved /\ f.body = d[f.src].tbuf
              /\ f.i <= f.body.size - d[f.src].left
              /\ f.src = f.body.by /\ f.dst = f.body.to
              /\ \A g \in A : IsReply(g) => g.dst # f.src
         /\ IsReply(f) =>
              /\ f.src \in Node /\ f.dst \in Node
              /\ d[f.dst].reserved /\ d[f.dst].left = 0 /\ f.src = d[f.dst].tbuf.to
<1>1. f \in Message /\ f.src \in Node /\ f.dst \in Node
  BY MessageFacts DEF Exchange
<1>2. Own(A, d, f.src) /\ Own(A, d, f.dst)
  BY <1>1 DEF Exchange
<1>3. ASSUME IsFragment(f), NEW g \in A, IsReply(g), g.dst = f.src PROVE FALSE
  BY <1>2, <1>3 DEF Own
<1>4. IsFragment(f) => f.src = f.body.by /\ f.dst = f.body.to
  BY <1>1, FragmentFacts
<1>5. IsFragment(f) => /\ d[f.src].reserved /\ f.body = d[f.src].tbuf
                       /\ f.i <= f.body.size - d[f.src].left
  BY <1>2 DEF Own
<1>6. IsReply(f) => d[f.dst].reserved /\ d[f.dst].left = 0 /\ f.src = d[f.dst].tbuf.to
  BY <1>2 DEF Own
<1> QED BY <1>1, <1>3, <1>4, <1>5, <1>6

(* check(): a fragment more. *)
LEMMA CheckExchange ==
  ASSUME NEW A, NEW d \in [Node -> Object], NEW d2, NEW c, NEW w, Exchange(A, d, c, w),
         NEW n \in Node, d[n].left > 0,
         d2[n].reserved = d[n].reserved, d2[n].tbuf = d[n].tbuf, d2[n].left = d[n].left - 1,
         \A m \in Node : m # n => d2[m] = d[m],
         NEW g, g = Fragment(d[n].tbuf, d[n].tbuf.size - d[n].left + 1)
  PROVE  /\ g \in Message /\ g.src = n
         /\ \A f \in A : Before(f, g)
         /\ IsFragment(g)
         /\ Exchange(A \cup {g}, d2, c, w)
<1> DEFINE b == d[n].tbuf
           l == d[n].left
<1>0. Server \in Node /\ \A t \in Tool : t \in Node
  BY LoopAssumption DEF Tool
<1>1. Own(A, d, n) /\ A \subseteq Message
  BY DEF Exchange
<1>2. l \in Nat
  BY DEF Object
<1>3. d[n].reserved /\ b \in Datagrams /\ b.by = n /\ l <= b.size /\ l > 0
  BY <1>1 DEF Own
<1>4. b.size \in {1, 2}
  BY <1>3 DEF Datagrams, Requests, Responses
<1>5. b.size - l + 1 \in 1 .. b.size
  BY <1>2, <1>3, <1>4
<1> HIDE DEF b, l
<1>6. /\ g \in Message /\ IsFragment(g) /\ g.src = n /\ g.dst = b.to
      /\ g.body = b /\ g.i = b.size - l + 1
  BY <1>3, <1>5, FragmentIs DEF b, l
<1>7. ~IsReply(g) /\ g.kind # "SNII" /\ g.kind # "NAK"
  BY <1>6 DEF IsFragment, IsReply, Replies
<1>8. ASSUME NEW f \in A, IsFragment(f), f.src = n PROVE f.body = b /\ f.i <= b.size - l /\ f.i < g.i
  <2>1. f.body = b /\ f.i <= b.size - l
    BY <1>1, <1>8 DEF Own, b, l
  <2>2. f.i \in Nat
    BY <1>1, <1>4, <1>8, <2>1, FragmentFacts
  <2> QED BY <1>2, <1>4, <1>6, <2>1, <2>2
<1>9. \A f \in A : IsReply(f) => f.dst # n
  BY <1>1, <1>2, <1>3 DEF Own, l
<1>10. ASSUME NEW f \in A, f.src = n PROVE f # g
  <2>1. CASE IsFragment(f)
    <3>1. f.i < g.i /\ f.i \in 1 .. f.body.size /\ f.body.size \in {1, 2}
      BY <1>1, <1>8, <1>10, <2>1, FragmentFacts
    <3> QED BY <3>1
  <2> QED BY <1>6, <2>1
<1>11. ASSUME NEW f \in A PROVE Before(f, g)
  BY <1>6, <1>7, <1>8, <1>10 DEF Before
<1> DEFINE A2 == A \cup {g}
<1>12. A2 \in SUBSET Message
  BY <1>1, <1>6
<1>13. ASSUME NEW f \in A2 PROVE f \in A \/ f = g
  OBVIOUS
<1> HIDE DEF A2
<1>14. A \subseteq A2 /\ g \in A2
  BY DEF A2
<1>15. ASSUME NEW m \in Node PROVE Busy(A2, d2, m) => Busy(A, d, m)
  <2>1. CASE m = n
    BY <1>3, <2>1 DEF Busy, l
  <2>2. CASE m # n
    BY <1>6, <1>7, <1>13, <2>2 DEF Busy
  <2> QED BY <2>1, <2>2
<1>16. Busy(A2, d2, n)
  BY <1>6, <1>14 DEF Busy
<1>17. ASSUME NEW m \in Node, m # n PROVE Own(A2, d2, m)
  <2>1. Own(A, d, m) /\ d2[m] = d[m]
    BY <1>17 DEF Exchange
  <2> QED BY <1>6, <1>7, <1>13, <1>14, <1>17, <2>1 DEF Own
<1>18. Own(A2, d2, n)
  <2>1. d2[n].left = l - 1 /\ d2[n].tbuf = b /\ d2[n].reserved
    BY <1>3 DEF b, l
  <2>2. \A f \in A2 : IsReply(f) => f.dst # n
    BY <1>7, <1>9, <1>13
  <2>3. ASSUME NEW f \in A2, IsFragment(f), f.src = n
        PROVE  /\ f.body = b /\ f.i <= b.size - (l - 1)
               /\ f.i < b.size /\ l - 1 = 0 => \E h \in A2 : IsFragment(h) /\ h.src = n /\ f.i < h.i
    <3>1. CASE f = g
      BY <1>2, <1>4, <1>6, <3>1
    <3>2. CASE f \in A
      <4>1. f.body = b /\ f.i <= b.size - l /\ f.i < g.i /\ f.i \in Nat
        BY <1>1, <1>4, <1>8, <2>3, <3>2, FragmentFacts
      <4>2. f.i <= b.size - (l - 1)
        BY <1>2, <1>4, <4>1
      <4> QED BY <1>6, <1>14, <4>1, <4>2
    <3> QED BY <1>13, <2>3, <3>1, <3>2
  <2>4. l - 1 <= b.size
    BY <1>2, <1>3, <1>4
  <2> QED BY <1>3, <2>1, <2>2, <2>3, <2>4 DEF Own
<1>19. Pending(A2, d2)
  <2>1. CASE n = Server
    BY <1>16, <2>1 DEF Pending
  <2>2. CASE n # Server
    <3>1. Pending(A, d) /\ d2[Server] = d[Server]
      BY <1>0, <2>2 DEF Exchange
    <3> QED BY <1>14, <3>1 DEF Pending, Busy
  <2> QED BY <2>1, <2>2
<1>20. ASSUME NEW t \in Tool PROVE ReadFits(A2, d2, c, w, t)
  <2>1. ReadFits(A, d, c, w, t)
    BY DEF Exchange
  <2>2. d2[t].tbuf = d[t].tbuf /\ d2[Server].tbuf = d[Server].tbuf
    BY <1>0
  <2>3. Asked(c, t) => Asked(c, t) /\ \A f \in A2 : f.src = t => ~IsReply(f)
    BY <1>7, <1>13, <2>1 DEF ReadFits
  <2>4. (Busy(A2, d2, t) => Busy(A, d, t)) /\ (Busy(A2, d2, Server) => Busy(A, d, Server))
    BY <1>0, <1>15
  <2> QED BY <2>1, <2>2, <2>3, <2>4, ReadKept
<1>21. Exchange(A2, d2, c, w)
  BY <1>12, <1>17, <1>18, <1>19, <1>20 DEF Exchange
<1> QED BY <1>6, <1>11, <1>21 DEF A2

(* A fragment that is not the last is heard. *)
LEMMA FragmentHeard ==
  ASSUME NEW A, NEW d \in [Node -> Object], NEW d2, NEW c, NEW w, Exchange(A, d, c, w),
         \A n \in Node : SameBuffer(d[n], d2[n]),
         NEW f \in A, IsFragment(f), f.i < f.body.size
  PROVE  Exchange(A \ {f}, d2, c, w)
<1> DEFINE A2 == A \ {f}
<1>0. Server \in Node /\ \A t \in Tool : t \in Node
  BY LoopAssumption DEF Tool
<1>1. A2 \in SUBSET Message /\ A \subseteq Message
  BY DEF Exchange
<1>2. \A g : g \in A2 <=> g \in A /\ g # f
  OBVIOUS
<1>3. f \in Message /\ f.src \in Node
  BY OwnFacts
<1>4. f.i = 1 /\ ~IsReply(f) /\ f.kind # "NAK"
  <2>1. f.i \in 1 .. f.body.size /\ f.body.size \in {1, 2}
    BY <1>3, FragmentFacts
  <2> QED BY <2>1 DEF IsFragment, IsReply, Replies
<1>5. \A g \in A : IsFragment(g) => g.i >= 1 /\ g.i \in Nat
  <2> SUFFICES ASSUME NEW g \in A, IsFragment(g) PROVE g.i >= 1 /\ g.i \in Nat
    OBVIOUS
  <2>1. g.i \in 1 .. g.body.size /\ g.body.size \in {1, 2}
    BY <1>1, FragmentFacts
  <2> QED BY <2>1
<1> HIDE DEF A2
<1>6. ASSUME NEW n \in Node PROVE Own(A2, d2, n) /\ (Busy(A2, d2, n) => Busy(A, d, n))
  <2>1. Own(A, d, n) /\ SameBuffer(d[n], d2[n])
    BY DEF Exchange
  <2>2. Busy(A2, d2, n) => Busy(A, d, n)
    BY <1>2, <2>1 DEF Busy, SameBuffer
  <2>3. ASSUME NEW g \in A2, IsFragment(g), g.src = n
        PROVE  g.i < g.body.size /\ d[n].left = 0 => \E h \in A2 : IsFragment(h) /\ h.src = n /\ g.i < h.i
    <3> SUFFICES ASSUME g.i < g.body.size, d[n].left = 0
                 PROVE  \E h \in A2 : IsFragment(h) /\ h.src = n /\ g.i < h.i
      OBVIOUS
    <3>1. PICK h \in A : IsFragment(h) /\ h.src = n /\ g.i < h.i
      BY <1>2, <2>1, <2>3 DEF Own
    <3>2. h # f
      BY <1>2, <1>4, <1>5, <2>3, <3>1
    <3> QED BY <1>2, <3>1, <3>2
  <2>4. \A g \in A2 : IsFragment(g) /\ g.src = n =>
          d[n].reserved /\ g.body = d[n].tbuf /\ g.i <= g.body.size - d[n].left
    BY <1>2, <2>1 DEF Own
  <2>5. Own(A2, d2, n)
    BY <1>2, <2>1, <2>3, <2>4 DEF Own, SameBuffer
  <2> QED BY <2>2, <2>5
<1>7. Pending(A2, d2)
  <2>1. Pending(A, d) /\ SameBuffer(d[Server], d2[Server]) /\ Own(A, d, Server)
    BY <1>0 DEF Exchange
  <2> SUFFICES ASSUME d[Server].reserved, d[Server].left = 0
               PROVE  Busy(A2, d2, Server) \/ \E g \in A2 : IsReply(g) /\ g.dst = Server
    <3>1. d[Server].left \in Nat
      BY <1>0 DEF Object
    <3> QED BY <2>1, <3>1 DEF Pending, Busy, SameBuffer
  <2>2. CASE \E g \in A : IsReply(g) /\ g.dst = Server
    BY <1>2, <1>4, <2>2
  <2>3. CASE \E g \in A : g.kind = "NAK" /\ g.dst = Server
    BY <1>2, <1>4, <2>3 DEF Busy
  <2>4. CASE \E g \in A : IsFragment(g) /\ g.src = Server
    <3>1. PICK g \in A : IsFragment(g) /\ g.src = Server
      BY <2>4
    <3>2. CASE g = f
      <4>1. PICK h \in A : IsFragment(h) /\ h.src = Server /\ f.i < h.i
        BY <2>1, <3>1, <3>2 DEF Own
      <4>2. h # f
        BY <1>4, <1>5, <4>1
      <4> QED BY <1>2, <4>1, <4>2 DEF Busy
    <3>3. CASE g # f
      BY <1>2, <3>1, <3>3 DEF Busy
    <3> QED BY <3>2, <3>3
  <2> QED BY <2>1, <2>2, <2>3, <2>4 DEF Pending, Busy
<1>8. ASSUME NEW t \in Tool PROVE ReadFits(A2, d2, c, w, t)
  <2>1. ReadFits(A, d, c, w, t)
    BY DEF Exchange
  <2>2. d2[t].tbuf = d[t].tbuf /\ d2[Server].tbuf = d[Server].tbuf
    BY <1>0 DEF SameBuffer
  <2>3. Asked(c, t) => Asked(c, t) /\ \A g \in A2 : g.src = t => ~IsReply(g)
    BY <1>2, <2>1 DEF ReadFits
  <2> QED BY <1>0, <1>6, <2>1, <2>2, <2>3, ReadKept
<1> QED BY <1>1, <1>6, <1>7, <1>8 DEF Exchange, A2

(* The frames A, with f heard and g sent for it. *)
Swapped(A, f, g) == (A \ {f}) \cup {g}

(* The last fragment of a datagram, f, is the first frame its receiver has. *)
Last(A, d, d2, c, w, f) ==
  /\ d \in [Node -> Object] /\ Exchange(A, d, c, w)
  /\ \A n \in Node : SameBuffer(d[n], d2[n])
  /\ f \in A /\ IsFragment(f) /\ f.kind \in Final
  /\ \A h \in A : h # f /\ h.dst = f.dst => Before(f, h)

(* What holds after any reply to it, g. *)
Settled(A, A2, d, d2, f, g) ==
  /\ g \in Message /\ IsReply(g) /\ g.src = f.dst /\ g.dst = f.src
  /\ A2 \in SUBSET Message
  /\ \A n \in Node : Own(A2, d2, n)
  /\ \A n \in Node : Busy(A2, d2, n) => Busy(A, d, n)
  /\ g.kind # "NAK" => ~Busy(A2, d2, f.src)
  /\ Pending(A2, d2)

(* The last fragment is heard and replied to: what does not depend on the  *)
(* reply.                                                                  *)
LEMMA LastHeard ==
  ASSUME NEW A, NEW d, NEW d2, NEW c, NEW w, NEW f, Last(A, d, d2, c, w, f),
         NEW kind \in Replies, NEW g, g = Reply(kind, f.dst, f.src)
  PROVE  Settled(A, Swapped(A, f, g), d, d2, f, g)
<1> USE DEF Last
<1> DEFINE A2 == Swapped(A, f, g)
<1>0. Server \in Node /\ \A t \in Tool : t \in Node
  BY LoopAssumption DEF Tool
<1>1. f \in Message /\ A \subseteq Message /\ f.src \in Node /\ f.dst \in Node
  BY OwnFacts DEF Exchange
<1>2. /\ g \in Message /\ IsReply(g) /\ g.kind = kind /\ g.src = f.dst /\ g.dst = f.src
  <2>1. (f.src \in Tool /\ f.dst = Server) \/ (f.src = Server /\ f.dst \in Tool)
    BY <1>1, MessageFacts
  <2> QED BY <2>1, Kinds DEF IsReply
<1>3. ~IsFragment(g) /\ ~IsReply(f) /\ f.kind # "NAK"
  BY <1>2 DEF IsFragment, IsReply, Replies, Final
<1>4. f.i = f.body.size /\ f.body.size \in {1, 2}
  BY <1>1, FragmentFacts
<1>5. /\ d[f.src].reserved /\ f.body = d[f.src].tbuf /\ f.i <= f.body.size - d[f.src].left
      /\ f.dst = f.body.to /\ \A h \in A : IsReply(h) => h.dst # f.src
  BY OwnFacts
<1>6. d[f.src].left = 0
  <2>1. d[f.src].left \in Nat
    BY <1>1 DEF Object
  <2> QED BY <1>4, <1>5, <2>1
<1>7. \A h : h \in A2 <=> (h \in A /\ h # f) \/ h = g
  BY DEF Swapped
<1>8. A2 \in SUBSET Message
  BY <1>1, <1>2 DEF Swapped
<1> HIDE DEF A2
<1>9. \A n : \A h \in A2 : h.kind = "NAK" /\ h.dst = n => n = f.src \/ h \in A
  BY <1>2, <1>7
<1>10. ASSUME NEW n \in Node PROVE Busy(A2, d2, n) => Busy(A, d, n)
  <2>1. SameBuffer(d[n], d2[n])
    OBVIOUS
  <2>2. n = f.src => Busy(A, d, n)
    BY DEF Busy
  <2> QED BY <1>3, <1>7, <1>9, <2>1, <2>2 DEF Busy, SameBuffer
<1>11. ASSUME NEW n \in Node, n # f.src PROVE Own(A2, d2, n)
  <2>1. Own(A, d, n) /\ SameBuffer(d[n], d2[n])
    BY DEF Exchange
  <2>2. \A h : IsFragment(h) /\ h.src = n => (h \in A2 <=> h \in A)
    BY <1>3, <1>7, <1>11
  <2>3. \A h : IsReply(h) /\ h.dst = n => (h \in A2 <=> h \in A)
    BY <1>2, <1>3, <1>7, <1>11
  <2> QED BY <2>1, <2>2, <2>3 DEF Own, SameBuffer
<1>12. ASSUME NEW h \in A2, IsFragment(h), h.src = f.src PROVE FALSE
  <2>1. h \in A /\ h # f /\ h \in Message
    BY <1>1, <1>3, <1>7, <1>12
  <2>2. h.body = d[f.src].tbuf /\ h.dst = h.body.to
    BY <1>12, <2>1, OwnFacts
  <2>3. h.i \in 1 .. h.body.size
    BY <1>12, <2>1, FragmentFacts
  <2>4. f.i < h.i
    BY <1>5, <1>12, <2>1, <2>2 DEF Before
  <2> QED BY <1>4, <1>5, <2>2, <2>3, <2>4
<1>13. SameBuffer(d[f.src], d2[f.src])
  BY <1>1
<1>14. \A h \in A2 : IsReply(h) /\ h.dst = f.src => h = g
  BY <1>5, <1>7
<1>15. Own(A2, d2, f.src)
  <2>1. d2[f.src].reserved /\ d2[f.src].left = 0 /\ d2[f.src].tbuf = d[f.src].tbuf
    BY <1>5, <1>6, <1>13 DEF SameBuffer
  <2>2. Own(A, d, f.src)
    BY <1>1 DEF Exchange
  <2>3. d[f.src].tbuf \in Datagrams /\ d[f.src].tbuf.by = f.src
    BY <1>5, <2>2 DEF Own
  <2>4. \A h \in A2 : IsReply(h) /\ h.dst = f.src => h.src = d2[f.src].tbuf.to
    BY <1>2, <1>5, <1>14, <2>1
  <2>5. 0 <= d[f.src].tbuf.size
    BY <1>4, <1>5
  <2> QED BY <1>12, <1>14, <2>1, <2>3, <2>4, <2>5 DEF Own
<1>16. ASSUME kind # "NAK" PROVE ~Busy(A2, d2, f.src)
  <2>1. \A h : h.kind = "NAK" => IsReply(h)
    BY DEF IsReply, Replies
  <2>2. d2[f.src].left = 0
    BY <1>6, <1>13 DEF SameBuffer
  <2> QED BY <1>2, <1>12, <1>14, <1>16, <2>1, <2>2 DEF Busy
<1>17. Pending(A2, d2)
  <2>1. CASE f.src = Server
    BY <1>2, <1>7, <2>1 DEF Pending
  <2>2. CASE f.src # Server
    <3>1. Pending(A, d) /\ SameBuffer(d[Server], d2[Server])
      BY <1>0 DEF Exchange
    <3>2. \A h \in A : h # f => h \in A2
      BY <1>7
    <3> QED BY <1>3, <2>2, <3>1, <3>2 DEF Pending, Busy, SameBuffer
  <2> QED BY <2>1, <2>2
<1> QED BY <1>2, <1>8, <1>10, <1>11, <1>15, <1>16, <1>17 DEF A2, Settled

(* It is rejected, or the node acknowledges it to itself: nobody learns    *)
(* anything.                                                               *)
LEMMA LastAnswered ==
  ASSUME NEW A, NEW d, NEW d2, NEW c, NEW w, NEW f, Last(A, d, d2, c, w, f),
         NEW kind \in Replies, NEW g, g = Reply(kind, f.dst, f.src)
  PROVE  Exchange(Swapped(A, f, g), d2, c, w)
<1> DEFINE A2 == Swapped(A, f, g)
<1>0. Server \in Node /\ \A t \in Tool : t \in Node
  BY LoopAssumption DEF Tool
<1>s. Settled(A, A2, d, d2, f, g)
  BY LastHeard
<1>1. /\ g \in Message /\ IsReply(g) /\ g.src = f.dst /\ g.dst = f.src
      /\ A2 \in SUBSET Message
      /\ \A n \in Node : Own(A2, d2, n)
      /\ \A n \in Node : Busy(A2, d2, n) => Busy(A, d, n)
      /\ Pending(A2, d2)
  BY <1>s DEF Settled
<1> USE DEF Last
<1>2. \A h \in A2 : h \in A \/ h = g
  BY DEF Swapped
<1>3. f \in Message /\ f.body = d[f.src].tbuf /\ f.dst = f.body.to
  BY OwnFacts
<1> HIDE DEF A2
<1>4. ASSUME NEW t \in Tool PROVE ReadFits(A2, d2, c, w, t)
  <2>1. ReadFits(A, d, c, w, t)
    BY DEF Exchange
  <2>2. d2[t].tbuf = d[t].tbuf /\ d2[Server].tbuf = d[Server].tbuf
    BY <1>0 DEF SameBuffer
  <2>3. ASSUME f.dst = t PROVE ~Asked(c, t)
    <3>1. f.src = Server
      BY <1>3, <2>3, MessageFacts DEF Tool
    <3>2. Answered(A, d, t)
      BY <1>3, <2>3, <3>1 DEF Answered, Busy
    <3> QED BY <2>1, <3>2 DEF ReadFits
  <2>4. Asked(c, t) => Asked(c, t) /\ \A h \in A2 : h.src = t => ~IsReply(h)
    BY <1>1, <1>2, <2>1, <2>3 DEF ReadFits
  <2> QED BY <1>0, <1>1, <2>1, <2>2, <2>4, ReadKept
<1> QED BY <1>1, <1>4 DEF Exchange, A2

(* A tool gets the answer to its read request. *)
LEMMA AnswerHeard ==
  ASSUME NEW A, NEW d, NEW d2, NEW c, NEW w,
         NEW f, Last(A, d, d2, c, w, f), f.dst \in Tool,
         NEW g, g = Reply("ACK", f.dst, f.src),
         NEW w2, w2[f.dst] = "nothing", \A t \in Tool : t # f.dst => w2[t] = w[t]
  PROVE  w[f.dst] = "read" /\ Exchange(Swapped(A, f, g), d2, c, w2)
<1> DEFINE A2 == Swapped(A, f, g)
<1>0. Server \in Node /\ \A t \in Tool : t \in Node
  BY LoopAssumption DEF Tool
<1>k. "ACK" \in Replies /\ "ACK" # "NAK" /\ g.kind = "ACK"
  BY DEF Replies, Reply
<1>s. Settled(A, A2, d, d2, f, g)
  BY <1>k, LastHeard
<1>1. /\ A2 \in SUBSET Message
      /\ \A n \in Node : Own(A2, d2, n)
      /\ \A n \in Node : Busy(A2, d2, n) => Busy(A, d, n)
      /\ ~Busy(A2, d2, f.src)
      /\ Pending(A2, d2)
  BY <1>k, <1>s DEF Settled
<1>2. Exchange(A2, d2, c, w)
  BY <1>k, LastAnswered
<1> USE DEF Last
<1>3. f \in Message /\ f.body = d[f.src].tbuf /\ f.dst = f.body.to
  BY OwnFacts
<1>4. f.src = Server
  BY <1>3, MessageFacts DEF Tool
<1>5. Answered(A, d, f.dst)
  BY <1>3, <1>4 DEF Answered, Busy
<1>6. w[f.dst] = "read" /\ ~Busy(A, d, f.dst) /\ ~Asked(c, f.dst)
  BY <1>5 DEF Exchange, ReadFits
<1> HIDE DEF A2
<1>8. ASSUME NEW t \in Tool PROVE ReadFits(A2, d2, c, w2, t)
  <2>1. ReadFits(A2, d2, c, w, t)
    BY <1>2 DEF Exchange
  <2>2. CASE t = f.dst
    <3>1. ~Busy(A2, d2, t) /\ ~Asked(c, t) /\ ~Answered(A2, d2, t)
      BY <1>0, <1>1, <1>4, <1>6, <2>2 DEF Answered
    <3> QED BY <3>1 DEF ReadFits
  <2>3. CASE t # f.dst
    BY <2>1, <2>3 DEF ReadFits
  <2> QED BY <2>2, <2>3
<1>9. Exchange(A2, d2, c, w2)
  BY <1>1, <1>8 DEF Exchange
<1> QED BY <1>6, <1>9 DEF A2

(* Configuration gets a request. *)
LEMMA RequestHeard ==
  ASSUME NEW A, NEW d, NEW d2, NEW c, NEW w, NEW f, Last(A, d, d2, c, w, f), f.dst = Server,
         NEW g, g = Reply("ACK", f.dst, f.src)
  PROVE  f.body \in Requests /\ Exchange(Swapped(A, f, g), d2, f.body, w)
<1> DEFINE A2 == Swapped(A, f, g)
           t == f.src
<1>0. Server \in Node /\ \A x \in Tool : x \in Node /\ x # Server
  BY LoopAssumption DEF Tool
<1>k. "ACK" \in Replies /\ "ACK" # "NAK" /\ g.kind = "ACK"
  BY DEF Replies, Reply
<1>s. Settled(A, A2, d, d2, f, g)
  BY <1>k, LastHeard
<1>1. /\ A2 \in SUBSET Message /\ g.src = f.dst
      /\ \A n \in Node : Own(A2, d2, n)
      /\ \A n \in Node : Busy(A2, d2, n) => Busy(A, d, n)
      /\ ~Busy(A2, d2, t)
      /\ Pending(A2, d2)
  BY <1>k, <1>s DEF Settled
<1> USE DEF Last
<1>2. /\ f \in Message /\ f.body = d[t].tbuf /\ f.dst = f.body.to /\ f.body.by = t
      /\ f.body \in Datagrams /\ t \in Tool
  BY <1>0, OwnFacts, FragmentFacts, MessageFacts
<1>3. f.body \in Requests
  BY <1>0, <1>2 DEF Datagrams, Responses
<1>4. Busy(A, d, t)
  BY DEF Busy
<1>5. \A h : h \in A2 => (h \in A /\ h # f) \/ h = g
  BY DEF Swapped
<1> HIDE DEF A2, t
<1>6. ASSUME NEW x \in Tool PROVE ReadFits(A2, d2, f.body, w, x)
  <2>1. ReadFits(A, d, c, w, x) /\ SameBuffer(d[x], d2[x]) /\ SameBuffer(d[Server], d2[Server])
    BY <1>0 DEF Exchange
  <2>2. Busy(A2, d2, x) /\ d2[x].tbuf.size = 1 => w[x] = "read"
    BY <1>0, <1>1, <2>1 DEF ReadFits, SameBuffer
  <2>3. ASSUME Asked(f.body, x)
        PROVE  /\ w[x] = "read" /\ ~Busy(A2, d2, x)
               /\ \A h \in A2 : h.src = x => ~IsReply(h)
    <3>1. x = t /\ d[t].tbuf.size = 1
      BY <1>2, <2>3 DEF Asked, Size
    <3>2. w[x] = "read" /\ ~Busy(A2, d2, x)
      BY <1>1, <1>4, <2>1, <3>1 DEF ReadFits
    <3>3. ASSUME NEW h \in A2, h.src = x, IsReply(h) PROVE FALSE
      <4>1. h \in A /\ h # f
        BY <1>0, <1>1, <1>5, <3>3
      <4>2. h.dst = Server
        <5>1. h \in Message
          BY <4>1 DEF Exchange
        <5> QED BY <1>0, <3>3, <5>1, MessageFacts
      <4>3. Before(f, h)
        BY <4>1, <4>2
      <4> QED BY <1>0, <3>1, <3>3, <4>3 DEF Before, t
    <3> QED BY <3>2, <3>3
  <2>4. ASSUME Answered(A2, d2, x) PROVE w[x] = "read" /\ ~Busy(A2, d2, x) /\ ~Asked(f.body, x)
    <3>1. Answered(A, d, x)
      BY <1>0, <1>1, <2>1, <2>4 DEF Answered, SameBuffer
    <3>2. w[x] = "read" /\ ~Busy(A, d, x)
      BY <2>1, <3>1 DEF ReadFits
    <3>3. x # t
      BY <1>4, <3>2
    <3> QED BY <1>0, <1>1, <1>2, <3>2, <3>3 DEF Asked, Size
  <2> QED BY <2>2, <2>3, <2>4 DEF ReadFits
<1> QED BY <1>1, <1>3, <1>6 DEF Exchange, A2

(* The sender hears that it has been acknowledged, or rejected for good, ...   *)
LEMMA SenderFreed ==
  ASSUME NEW A, NEW d \in [Node -> Object], NEW d2, NEW c, NEW w, Exchange(A, d, c, w),
         NEW f \in A, f.kind \in {"ACK", "REJECT"},
         d2[f.dst].reserved = FALSE, d2[f.dst].tbuf = d[f.dst].tbuf, d2[f.dst].left = d[f.dst].left,
         \A m \in Node : m # f.dst => SameBuffer(d[m], d2[m])
  PROVE  Exchange(A \ {f}, d2, c, w)
<1> DEFINE A2 == A \ {f}
           n == f.dst
<1>0. Server \in Node /\ \A t \in Tool : t \in Node
  BY LoopAssumption DEF Tool
<1>1. IsReply(f) /\ ~IsFragment(f) /\ f.kind # "NAK"
  BY DEF IsReply, IsFragment, Replies
<1>2. n \in Node /\ d[n].left = 0
  BY <1>1, OwnFacts
<1>3. \A g : g \in A2 <=> g \in A /\ g # f
  OBVIOUS
<1>4. A2 \in SUBSET Message
  BY DEF Exchange
<1>5. Own(A, d, n)
  BY <1>2 DEF Exchange
<1>6. \A g \in A2 : (IsReply(g) => g.dst # n) /\ (IsFragment(g) => g.src # n)
  BY <1>1, <1>3, <1>5 DEF Own
<1> HIDE DEF A2, n
<1>n. /\ d2[n].reserved = FALSE /\ d2[n].tbuf = d[n].tbuf /\ d2[n].left = 0
      /\ \A m \in Node : m # n => SameBuffer(d[m], d2[m])
      /\ f.dst = n
  BY <1>2 DEF n
<1>7. ASSUME NEW m \in Node PROVE Own(A2, d2, m) /\ (Busy(A2, d2, m) => Busy(A, d, m))
  <2>1. CASE m = n
    <3>1. Own(A2, d2, m)
      BY <1>6, <1>n, <2>1 DEF Own
    <3>2. Busy(A2, d2, m) => Busy(A, d, m)
      BY <1>3, <1>n, <2>1 DEF Busy
    <3> QED BY <3>1, <3>2
  <2>2. CASE m # n
    <3>1. Own(A, d, m) /\ SameBuffer(d[m], d2[m])
      BY <1>n, <2>2 DEF Exchange
    <3>2. \A g : IsFragment(g) => (g \in A2 <=> g \in A)
      BY <1>1, <1>3
    <3>3. \A g : IsReply(g) /\ g.dst = m => (g \in A2 <=> g \in A)
      BY <1>3, <1>n, <2>2
    <3>4. Own(A2, d2, m)
      BY <3>1, <3>2, <3>3 DEF Own, SameBuffer
    <3>5. Busy(A2, d2, m) => Busy(A, d, m)
      BY <1>3, <3>1 DEF Busy, SameBuffer
    <3> QED BY <3>4, <3>5
  <2> QED BY <2>1, <2>2
<1>8. Pending(A2, d2)
  <2>1. CASE n = Server
    BY <1>n, <2>1 DEF Pending
  <2>2. CASE n # Server
    <3>1. Pending(A, d) /\ SameBuffer(d[Server], d2[Server])
      BY <1>0, <1>n, <2>2 DEF Exchange
    <3>2. \A g \in A : IsFragment(g) \/ g.dst = Server => g \in A2
      BY <1>1, <1>3, <1>n, <2>2
    <3> QED BY <3>1, <3>2 DEF Pending, Busy, SameBuffer
  <2> QED BY <2>1, <2>2
<1>9. ASSUME NEW t \in Tool PROVE ReadFits(A2, d2, c, w, t)
  <2>1. ReadFits(A, d, c, w, t)
    BY DEF Exchange
  <2>2. d2[t].tbuf = d[t].tbuf /\ d2[Server].tbuf = d[Server].tbuf
    BY <1>0, <1>n DEF SameBuffer
  <2>3. Asked(c, t) => Asked(c, t) /\ \A g \in A2 : g.src = t => ~IsReply(g)
    BY <1>3, <2>1 DEF ReadFits
  <2> QED BY <1>0, <1>7, <2>1, <2>2, <2>3, ReadKept
<1> QED BY <1>4, <1>7, <1>8, <1>9 DEF Exchange, A2

(* ... or that it is to send again.                                        *)
LEMMA SenderRepeats ==
  ASSUME NEW A, NEW d \in [Node -> Object], NEW d2, NEW c, NEW w, Exchange(A, d, c, w),
         NEW f \in A, f.kind = "NAK",
         d2[f.dst].reserved = d[f.dst].reserved, d2[f.dst].tbuf = d[f.dst].tbuf,
         d2[f.dst].left = d[f.dst].tbuf.size,
         \A m \in Node : m # f.dst => SameBuffer(d[m], d2[m])
  PROVE  Exchange(A \ {f}, d2, c, w)
<1> DEFINE A2 == A \ {f}
           n == f.dst
<1>0. Server \in Node /\ \A t \in Tool : t \in Node
  BY LoopAssumption DEF Tool
<1>1. IsReply(f) /\ ~IsFragment(f)
  BY DEF IsReply, IsFragment, Replies
<1>2. n \in Node /\ d[n].reserved
  BY <1>1, OwnFacts
<1>3. \A g : g \in A2 <=> g \in A /\ g # f
  OBVIOUS
<1>4. A2 \in SUBSET Message
  BY DEF Exchange
<1>5. Own(A, d, n) /\ Busy(A, d, n)
  BY <1>2 DEF Exchange, Busy
<1>6. \A g \in A2 : (IsReply(g) => g.dst # n) /\ (IsFragment(g) => g.src # n)
  BY <1>1, <1>3, <1>5 DEF Own
<1>7. d[n].tbuf \in Datagrams /\ d[n].tbuf.by = n /\ d[n].tbuf.size \in {1, 2}
  BY <1>2, <1>5 DEF Own, Datagrams, Requests, Responses
<1> HIDE DEF A2, n
<1>n. /\ d2[n].reserved /\ d2[n].tbuf = d[n].tbuf /\ d2[n].left = d[n].tbuf.size
      /\ \A m \in Node : m # n => SameBuffer(d[m], d2[m])
      /\ f.dst = n
  BY <1>2 DEF n
<1>8. ASSUME NEW m \in Node PROVE Own(A2, d2, m) /\ (Busy(A2, d2, m) => Busy(A, d, m))
  <2>1. CASE m = n
    <3>1. d2[n].left <= d2[n].tbuf.size
      BY <1>7, <1>n
    <3>2. Own(A2, d2, m)
      BY <1>6, <1>7, <1>n, <2>1, <3>1 DEF Own
    <3> QED BY <1>5, <2>1, <3>2
  <2>2. CASE m # n
    <3>1. Own(A, d, m) /\ SameBuffer(d[m], d2[m])
      BY <1>n, <2>2 DEF Exchange
    <3>2. \A g : IsFragment(g) => (g \in A2 <=> g \in A)
      BY <1>1, <1>3
    <3>3. \A g : IsReply(g) /\ g.dst = m => (g \in A2 <=> g \in A)
      BY <1>3, <1>n, <2>2
    <3>4. Own(A2, d2, m)
      BY <3>1, <3>2, <3>3 DEF Own, SameBuffer
    <3>5. Busy(A2, d2, m) => Busy(A, d, m)
      BY <1>3, <3>1 DEF Busy, SameBuffer
    <3> QED BY <3>4, <3>5
  <2> QED BY <2>1, <2>2
<1>9. Pending(A2, d2)
  <2>1. CASE n = Server
    BY <1>7, <1>n, <2>1 DEF Pending, Busy
  <2>2. CASE n # Server
    <3>1. Pending(A, d) /\ SameBuffer(d[Server], d2[Server])
      BY <1>0, <1>n, <2>2 DEF Exchange
    <3>2. \A g \in A : IsFragment(g) \/ g.dst = Server => g \in A2
      BY <1>1, <1>3, <1>n, <2>2
    <3> QED BY <3>1, <3>2 DEF Pending, Busy, SameBuffer
  <2> QED BY <2>1, <2>2
<1>10. ASSUME NEW t \in Tool PROVE ReadFits(A2, d2, c, w, t)
  <2>1. ReadFits(A, d, c, w, t)
    BY DEF Exchange
  <2>2. d2[t].tbuf = d[t].tbuf /\ d2[Server].tbuf = d[Server].tbuf
    BY <1>0, <1>n DEF SameBuffer
  <2>3. Asked(c, t) => Asked(c, t) /\ \A g \in A2 : g.src = t => ~IsReply(g)
    BY <1>3, <2>1 DEF ReadFits
  <2> QED BY <1>0, <1>8, <2>1, <2>2, <2>3, ReadKept
<1> QED BY <1>4, <1>8, <1>9, <1>10 DEF Exchange, A2

(* A datagram is put into a free buffer. *)
LEMMA BufferFilled ==
  ASSUME NEW A, NEW d \in [Node -> Object], NEW d2, NEW c, NEW w, Exchange(A, d, c, w),
         NEW n \in Node, ~d[n].reserved,
         NEW b \in Datagrams, b.by = n,
         d2[n].reserved, d2[n].tbuf = b, d2[n].left = b.size,
         \A m \in Node : m # n => d2[m] = d[m]
  PROVE  /\ ~Busy(A, d, n) /\ Busy(A, d2, n)
         /\ \A m \in Node : m # n => (Busy(A, d2, m) <=> Busy(A, d, m))
         /\ \A m \in Node : Own(A, d2, m)
         /\ Pending(A, d2)
<1>0. Server \in Node
  BY LoopAssumption
<1>1. Own(A, d, n) /\ b.size \in {1, 2} /\ d[n].left \in Nat
  BY DEF Exchange, Object, Datagrams, Requests, Responses
<1>2. d[n].left = 0 /\ \A f \in A : (IsFragment(f) => f.src # n) /\ (IsReply(f) => f.dst # n)
  BY <1>1 DEF Own
<1>3. \A f : f.kind = "NAK" => IsReply(f)
  BY DEF IsReply, Replies
<1>4. ~Busy(A, d, n)
  BY <1>2, <1>3 DEF Busy
<1>5. Busy(A, d2, n)
  BY <1>1 DEF Busy
<1>6. \A m \in Node : m # n => (Busy(A, d2, m) <=> Busy(A, d, m))
  BY DEF Busy
<1>7. ASSUME NEW m \in Node PROVE Own(A, d2, m)
  <2>1. CASE m = n
    BY <1>1, <1>2, <2>1 DEF Own
  <2>2. CASE m # n
    <3>1. Own(A, d, m) /\ d2[m] = d[m]
      BY <2>2 DEF Exchange
    <3> QED BY <3>1 DEF Own
  <2> QED BY <2>1, <2>2
<1>8. n = Server => Pending(A, d2)
  BY <1>5 DEF Pending
<1>9. n # Server => Pending(A, d2)
  <2>1. Pending(A, d)
    BY DEF Exchange
  <2> QED BY <1>0, <1>6, <2>1 DEF Pending
<1> QED BY <1>4, <1>5, <1>6, <1>7, <1>8, <1>9

(* A tool that waits for nothing asks for something to be read or written. *)
LEMMA ToolSends ==
  ASSUME NEW A, NEW d \in [Node -> Object], NEW d2, NEW c,
         NEW w, Exchange(A, d, c, w),
         NEW t \in Tool, ~d[t].reserved, w[t] = "nothing",
         NEW b \in Requests, b.by = t,
         d2[t].reserved, d2[t].tbuf = b, d2[t].left = b.size,
         \A m \in Node : m # t => d2[m] = d[m],
         NEW w2, b.size = 1 => w2[t] = "read", \A y \in Tool : y # t => w2[y] = w[y]
  PROVE  Exchange(A, d2, c, w2)
<1>0. Server \in Node /\ t # Server /\ t \in Node /\ \A y \in Tool : y \in Node /\ y # Server
  BY LoopAssumption DEF Tool
<1>1. b \in Datagrams
  BY DEF Datagrams
<1>2. /\ ~Busy(A, d, t) /\ Busy(A, d2, t)
      /\ \A m \in Node : m # t => (Busy(A, d2, m) <=> Busy(A, d, m))
      /\ \A m \in Node : Own(A, d2, m)
      /\ Pending(A, d2)
  BY <1>0, <1>1, BufferFilled
<1>4. ASSUME NEW y \in Tool PROVE ReadFits(A, d2, c, w2, y)
  <2>1. ReadFits(A, d, c, w, y)
    BY DEF Exchange
  <2>2. Answered(A, d2, y) => Answered(A, d, y)
    BY <1>0, <1>2 DEF Answered
  <2>3. CASE y = t
    <3>1. ~Asked(c, t) /\ ~Answered(A, d2, t)
      BY <2>1, <2>2, <2>3 DEF ReadFits
    <3> QED BY <2>3, <3>1 DEF ReadFits
  <2>4. CASE y # t
    <3>1. d2[y] = d[y] /\ (Busy(A, d2, y) <=> Busy(A, d, y)) /\ w2[y] = w[y]
      BY <1>0, <1>2, <2>4
    <3> QED BY <2>1, <2>2, <3>1 DEF ReadFits
  <2> QED BY <2>3, <2>4
<1> QED BY <1>0, <1>2, <1>4 DEF Exchange

(* The node answers a read request. *)
LEMMA ServerSends ==
  ASSUME NEW A, NEW d \in [Node -> Object], NEW d2, NEW c \in Requests, NEW w, Exchange(A, d, c, w),
         c.size = 1, ~d[Server].reserved, c # None,
         NEW b \in Responses, b.to = c.by,
         d2[Server].reserved, d2[Server].tbuf = b, d2[Server].left = b.size,
         \A m \in Node : m # Server => d2[m] = d[m]
  PROVE  Exchange(A, d2, None, w)
<1>0. Server \in Node /\ \A y \in Tool : y \in Node /\ y # Server
  BY LoopAssumption DEF Tool
<1>1. b \in Datagrams /\ b.by = Server
  BY DEF Datagrams, Responses
<1>2. /\ ~Busy(A, d, Server) /\ Busy(A, d2, Server)
      /\ \A m \in Node : m # Server => (Busy(A, d2, m) <=> Busy(A, d, m))
      /\ \A m \in Node : Own(A, d2, m)
      /\ Pending(A, d2)
  BY <1>0, <1>1, BufferFilled
<1>3. ASSUME NEW y \in Tool PROVE ReadFits(A, d2, None, w, y)
  <2>1. ReadFits(A, d, c, w, y)
    BY DEF Exchange
  <2>2. d2[y] = d[y] /\ (Busy(A, d2, y) <=> Busy(A, d, y))
    BY <1>0, <1>2
  <2>3. ~Asked(None, y)
    BY DEF Asked, Size
  <2>4. ASSUME Answered(A, d2, y) PROVE w[y] = "read" /\ ~Busy(A, d2, y)
    <3>1. Asked(c, y)
      BY <2>4 DEF Answered, Asked, Size
    <3> QED BY <2>1, <2>2, <3>1 DEF ReadFits
  <2> QED BY <2>1, <2>2, <2>3, <2>4 DEF ReadFits
<1> QED BY <1>2, <1>3 DEF Exchange

----------------------------------------------------------------------------
(* A tool that waits for nothing asks. *)
LEMMA QuestionBehind ==
  ASSUME NEW A \in SUBSET Message, NEW p, NEW s, NEW w, NEW h, Questions(A, p, s, w, h),
         NEW t \in Tool, w[t] = "nothing",
         NEW what \in {"pip", "snii"}, NEW g, g = Reply(what, t, Server)
  PROVE  /\ g \in Message /\ g.src = t /\ ~IsFragment(g) /\ ~IsReply(g)
         /\ \A f \in A : Before(f, g)
<1>0. t # Server
  BY DEF Tool
<1>1. g \in Message /\ g.src = t /\ g.dst = Server /\ g.kind = what
  BY Kinds
<1>2. ~IsFragment(g) /\ ~IsReply(g) /\ g.kind \notin {"SNII", "OIR", "PIP"}
  BY <1>1 DEF IsFragment, IsReply, Replies
<1>3. PipFits(A, p, w, t) /\ InfoFits(A, s, w, h, t)
  BY DEF Questions
<1>4. g \notin A
  BY <1>1, <1>3 DEF PipFits, InfoFits
<1>5. ASSUME NEW f \in A PROVE Before(f, g)
  BY <1>2, <1>4 DEF Before
<1> QED BY <1>1, <1>2, <1>5

LEMMA ToolAsks ==
  ASSUME NEW A \in SUBSET Message, NEW p, NEW s, NEW w, NEW w2, NEW h, NEW h2,
         Questions(A, p, s, w, h), NEW t \in Tool, w[t] = "nothing",
         NEW what \in {"pip", "snii"}, w2[t] = what, h2[t] = 0,
         \A y \in Tool : y # t => w2[y] = w[y] /\ h2[y] = h[y],
         NEW g, g = Reply(what, t, Server)
  PROVE  Questions(A \cup {g}, p, s, w2, h2)
<1> DEFINE A2 == A \cup {g}
<1>0. \A y \in Tool : y # Server
  BY DEF Tool
<1>1. g \in Message /\ g.src = t /\ g.dst = Server /\ g.kind = what
  BY Kinds
<1>2. ~IsFragment(g) /\ ~IsReply(g) /\ g.kind \notin {"SNII", "OIR", "PIP"}
  BY <1>1 DEF IsFragment, IsReply, Replies
<1>3. PipFits(A, p, w, t) /\ InfoFits(A, s, w, h, t)
  BY DEF Questions
<1>6. \A f \in A2 : f \in A \/ f = g
  OBVIOUS
<1>7. A \subseteq A2
  OBVIOUS
<1> HIDE DEF A2
<1>8. PipFits(A2, p, w2, t)
  BY <1>1, <1>2, <1>3, <1>6 DEF PipFits
<1>9. InfoFits(A2, s, w2, h2, t)
  <2>1. \A f \in A : (f.kind = "snii" => f.src # t) /\ (f.kind \in {"SNII", "OIR"} => f.dst # t)
    BY <1>3 DEF InfoFits
  <2>2. ~Telling(s, t)
    BY <1>3 DEF InfoFits
  <2> QED BY <1>1, <1>2, <1>6, <2>1, <2>2 DEF InfoFits
<1>10. ASSUME NEW y \in Tool, y # t PROVE PipFits(A2, p, w2, y) /\ InfoFits(A2, s, w2, h2, y)
  <2>1. PipFits(A, p, w, y) /\ InfoFits(A, s, w, h, y)
    BY DEF Questions
  <2>2. \A f \in A2 : f.src = y \/ f.dst = y => f \in A
    BY <1>0, <1>1, <1>6, <1>10
  <2>3. w2[y] = w[y] /\ h2[y] = h[y]
    BY <1>10
  <2>4. PipFits(A2, p, w2, y)
    BY <2>1, <2>2, <2>3, PipKept
  <2>5. InfoFits(A2, s, w2, h2, y)
    BY <1>7, <2>1, <2>2, <2>3, InfoKept
  <2> QED BY <2>4, <2>5
<1>11. Questions(A2, p, s, w2, h2)
  BY <1>8, <1>9, <1>10 DEF Questions
<1> QED BY <1>11 DEF A2

(* PIP_receivedFrame() *)
LEMMA PipHeard ==
  ASSUME NEW A \in SUBSET Message, NEW p, NEW s, NEW w, NEW h, Questions(A, p, s, w, h),
         NEW f \in A, f.kind = "pip"
  PROVE  f.src \in Tool /\ Questions(A \ {f}, f.src, s, w, h)
<1> DEFINE A2 == A \ {f}
           t == f.src
<1>1. t \in Tool /\ f = Reply("pip", t, Server)
  BY MessageFacts, OtherFacts
<1>2. \A g : g \in A2 <=> g \in A /\ g # f
  OBVIOUS
<1>3. \A g \in A2 : g.kind = "pip" => g.src # t
  BY <1>1, <1>2, OtherFacts
<1> HIDE DEF A2
<1>4. ASSUME NEW y \in Tool PROVE PipFits(A2, t, w, y) /\ InfoFits(A2, s, w, h, y)
  <2>1. PipFits(A, p, w, y) /\ InfoFits(A, s, w, h, y)
    BY DEF Questions
  <2>4. InfoFits(A2, s, w, h, y)
    BY <1>2, <2>1, InfoKept
  <2>5. PipFits(A2, t, w, y)
    <3>1. CASE y = t
      BY <1>2, <1>3, <2>1, <3>1 DEF PipFits, t
    <3>2. CASE y # t
      BY <1>2, <2>1, <3>2, PipKept
    <3> QED BY <3>1, <3>2
  <2> QED BY <2>4, <2>5
<1>5. Questions(A2, t, s, w, h)
  BY <1>4 DEF Questions
<1> QED BY <1>1, <1>5 DEF A2, t

(* SNII_receivedFrame() *)
LEMMA InfoHeard ==
  ASSUME NEW A \in SUBSET Message, NEW p, NEW s, NEW w, NEW h, Questions(A, p, s, w, h),
         NEW f \in A, f.kind = "snii"
  PROVE  /\ f.src \in Tool
         /\ s.sent = SniiFrames => Questions(A \ {f}, p, [sent |-> 0, dest |-> f.src], w, h)
<1> DEFINE A2 == A \ {f}
           t == f.src
           s2 == [sent |-> 0, dest |-> t]
<1>1. t \in Tool /\ f = Reply("snii", t, Server)
  BY MessageFacts, OtherFacts
<1>2. \A g : g \in A2 <=> g \in A /\ g # f
  OBVIOUS
<1>3. \A g \in A2 : g.kind = "snii" => g.src # t
  BY <1>1, <1>2, OtherFacts
<1>4. SniiFrames \in Nat \ {0}
  BY LoopAssumption
<1>5. s2.sent = 0 /\ s2.dest = t
  OBVIOUS
<1>t. f.src = t
  OBVIOUS
<1> HIDE DEF A2, s2, t
<1>6. ASSUME s.sent = SniiFrames, NEW y \in Tool PROVE PipFits(A2, p, w, y) /\ InfoFits(A2, s2, w, h, y)
  <2>1. PipFits(A, p, w, y) /\ InfoFits(A, s, w, h, y)
    BY DEF Questions
  <2>2. PipFits(A2, p, w, y)
    BY <1>2, <2>1, PipKept
  <2>3. CASE y = t
    <3>1. /\ w[t] = "snii" /\ h[t] = 0
          /\ \A g \in A : g.kind \in {"SNII", "OIR"} => g.dst # t
      BY <1>t, <2>1, <2>3 DEF InfoFits
    <3>2. Telling(s2, t)
      BY <1>4, <1>5 DEF Telling
    <3>3. h[t] <= s2.sent /\ Told(A2, h, t, s2.sent)
      BY <1>5, <3>1 DEF Told
    <3> QED BY <1>2, <1>3, <2>2, <2>3, <3>1, <3>2, <3>3 DEF InfoFits
  <2>4. CASE y # t
    <3>1. ~Telling(s2, y) /\ ~Telling(s, y)
      BY <1>4, <1>5, <1>6, <2>4 DEF Telling
    <3>2. InfoFits(A2, s2, w, h, y)
      BY <1>2, <2>1, <3>1, InfoKept
    <3> QED BY <2>2, <3>2
  <2> QED BY <2>3, <2>4
<1>7. s.sent = SniiFrames => Questions(A2, p, s2, w, h)
  BY <1>6 DEF Questions
<1> QED BY <1>1, <1>7 DEF A2, s2, t

LEMMA InfoRefused ==
  ASSUME NEW A \in SUBSET Message, NEW p, NEW s, NEW w, NEW h, Questions(A, p, s, w, h),
         NEW f \in A, f.kind = "snii", NEW g, g = Reply("OIR", Server, f.src)
  PROVE  /\ f.src \in Tool
         /\ g \in Message /\ g.src = Server /\ ~IsFragment(g) /\ ~IsReply(g)
         /\ \A x \in A : Before(x, g)
         /\ Questions(Swapped(A, f, g), p, s, w, h)
<1> DEFINE A2 == Swapped(A, f, g)
           t == f.src
<1>0. \A y \in Tool : y # Server
  BY DEF Tool
<1>1. t \in Tool /\ f = Reply("snii", t, Server)
  BY MessageFacts, OtherFacts
<1>2. g \in Message /\ g.src = Server /\ g.dst = t /\ g.kind = "OIR"
  BY <1>1, Kinds
<1>3. ~IsFragment(g) /\ ~IsReply(g)
  BY <1>2 DEF IsFragment, IsReply, Replies
<1>4. \A x : x \in A2 <=> (x \in A /\ x # f) \/ x = g
  BY DEF Swapped
<1>5. \A x \in A2 : x.kind = "snii" => x.src # t
  BY <1>1, <1>2, <1>4, OtherFacts
<1>t. f.src = t
  OBVIOUS
<1> HIDE DEF A2, t
<1>6. /\ w[t] = "snii" /\ ~Telling(s, t)
      /\ \A x \in A : x.kind \in {"SNII", "OIR"} => x.dst # t
  <2>1. InfoFits(A, s, w, h, t)
    BY <1>1 DEF Questions
  <2> QED BY <1>t, <2>1 DEF InfoFits
<1>7. g \notin A
  BY <1>2, <1>6
<1>8. ASSUME NEW x \in A PROVE Before(x, g)
  BY <1>2, <1>3, <1>7 DEF Before
<1>9. ASSUME NEW y \in Tool PROVE PipFits(A2, p, w, y) /\ InfoFits(A2, s, w, h, y)
  <2>1. PipFits(A, p, w, y) /\ InfoFits(A, s, w, h, y)
    BY DEF Questions
  <2>2. PipFits(A2, p, w, y)
    BY <1>2, <1>4, <2>1, PipKept
  <2>3. CASE y = t
    BY <1>2, <1>4, <1>5, <1>6, <2>2, <2>3 DEF InfoFits
  <2>4. CASE y # t
    <3>1. \A x \in A2 : x.src = y \/ x.dst = y => x \in A
      BY <1>0, <1>2, <1>4, <2>4
    <3>2. \A x \in A : x.kind = "SNII" => x \in A2
      BY <1>4
    <3>3. InfoFits(A2, s, w, h, y)
      BY <2>1, <3>1, <3>2, InfoKept
    <3> QED BY <2>2, <3>3
  <2> QED BY <2>3, <2>4
<1>10. Questions(A2, p, s, w, h)
  BY <1>9 DEF Questions
<1> QED BY <1>1, <1>2, <1>3, <1>8, <1>10 DEF A2, t

(* PIP_check() *)
LEMMA PipAnswered ==
  ASSUME NEW A \in SUBSET Message, NEW p \in Tool, NEW s, NEW w, NEW h, Questions(A, p, s, w, h),
         NEW g, g = Reply("PIP", Server, p)
  PROVE  /\ g \in Message /\ g.src = Server /\ ~IsFragment(g) /\ ~IsReply(g)
         /\ \A x \in A : Before(x, g)
         /\ Questions(A \cup {g}, None, s, w, h)
<1> DEFINE A2 == A \cup {g}
<1>0. \A y \in Tool : y # Server /\ y # None
  BY DatagramAssumption DEF Tool
<1>1. g \in Message /\ g.src = Server /\ g.dst = p /\ g.kind = "PIP"
  BY Kinds
<1>2. ~IsFragment(g) /\ ~IsReply(g)
  BY <1>1 DEF IsFragment, IsReply, Replies
<1>3. \A x : x \in A2 <=> x \in A \/ x = g
  OBVIOUS
<1> HIDE DEF A2
<1>4. PipFits(A, p, w, p)
  BY DEF Questions
<1>5. w[p] = "pip" /\ \A x \in A : (x.kind = "PIP" => x.dst # p) /\ (x.kind = "pip" => x.src # p)
  BY <1>4 DEF PipFits
<1>6. ASSUME NEW x \in A PROVE Before(x, g)
  BY <1>1, <1>2, <1>5 DEF Before
<1>7. ASSUME NEW y \in Tool PROVE PipFits(A2, None, w, y) /\ InfoFits(A2, s, w, h, y)
  <2>1. PipFits(A, p, w, y) /\ InfoFits(A, s, w, h, y)
    BY DEF Questions
  <2>2. InfoFits(A2, s, w, h, y)
    BY <1>1, <1>3, <2>1, InfoKept
  <2>3. CASE y = p
    BY <1>0, <1>1, <1>3, <1>5, <2>2, <2>3 DEF PipFits
  <2>4. CASE y # p
    <3>1. \A x \in A2 : x.src = y \/ x.dst = y => x \in A
      BY <1>0, <1>1, <1>3, <2>4
    <3>2. None # y
      BY <1>0
    <3>3. PipFits(A2, None, w, y)
      BY <2>1, <3>1, <3>2, PipKept
    <3> QED BY <2>2, <3>3
  <2> QED BY <2>3, <2>4
<1>8. Questions(A2, None, s, w, h)
  BY <1>7 DEF Questions
<1> QED BY <1>1, <1>2, <1>6, <1>8 DEF A2

(* SNII_check(): a frame more. *)
LEMMA InfoBehind ==
  ASSUME NEW A \in SUBSET Message, NEW p, NEW s, NEW w, NEW h, Questions(A, p, s, w, h),
         NEW t \in Tool, s.dest = t, s.sent < SniiFrames, s.sent \in Nat,
         NEW g, g = Info(t, s.sent + 1)
  PROVE  /\ g \in Message /\ g.src = Server /\ ~IsFragment(g) /\ ~IsReply(g)
         /\ \A x \in A : Before(x, g)
<1> DEFINE k == s.sent
<1>1. SniiFrames \in Nat /\ k \in Nat /\ k + 1 \in 1 .. SniiFrames
  BY LoopAssumption
<1> HIDE DEF k
<1>2. g \in Message /\ g.src = Server /\ g.dst = t /\ g.kind = "SNII" /\ g.i = k + 1
  BY <1>1, Kinds DEF k
<1>3. ~IsFragment(g) /\ ~IsReply(g)
  BY <1>2 DEF IsFragment, IsReply, Replies
<1>5. InfoFits(A, s, w, h, t) /\ Telling(s, t)
  BY DEF Questions, Telling
<1>7. \A x \in A : x.kind = "SNII" /\ x.dst = t => h[t] < x.i /\ x.i <= k /\ x.i \in Nat
  <2> SUFFICES ASSUME NEW x \in A, x.kind = "SNII", x.dst = t
               PROVE  h[t] < x.i /\ x.i <= k /\ x.i \in Nat
    OBVIOUS
  <2>1. x.i \in 1 .. SniiFrames
    BY OtherFacts
  <2> QED BY <1>1, <1>5, <2>1 DEF InfoFits, k
<1>9. ASSUME NEW x \in A PROVE Before(x, g)
  <2>1. x.kind = "SNII" /\ x.dst = t => x.i < g.i /\ x # g
    BY <1>1, <1>2, <1>7
  <2>2. x # g
    BY <1>2, <2>1
  <2> QED BY <1>2, <1>3, <2>1, <2>2 DEF Before
<1> QED BY <1>2, <1>3, <1>9

LEMMA InfoSent ==
  ASSUME NEW A \in SUBSET Message, NEW p, NEW s, NEW s2, NEW w, NEW h, Questions(A, p, s, w, h),
         NEW t \in Tool, s.dest = t, s.sent < SniiFrames, s.sent \in Nat, h[t] \in Nat,
         s2.dest = t, s2.sent = s.sent + 1,
         NEW g, g = Info(t, s.sent + 1)
  PROVE  Questions(A \cup {g}, p, s2, w, h)
<1> DEFINE A2 == A \cup {g}
           k == s.sent
<1>0. \A y \in Tool : y # Server
  BY DEF Tool
<1>1. SniiFrames \in Nat /\ k \in Nat /\ k + 1 \in 1 .. SniiFrames
  BY LoopAssumption
<1> HIDE DEF k
<1>2. g \in Message /\ g.src = Server /\ g.dst = t /\ g.kind = "SNII" /\ g.i = k + 1
  BY <1>1, Kinds DEF k
<1>4. \A x : x \in A2 <=> x \in A \/ x = g
  OBVIOUS
<1>g. Info(t, k + 1) = g
  BY DEF k
<1> HIDE DEF A2
<1>5. InfoFits(A, s, w, h, t) /\ Telling(s, t)
  BY DEF Questions, Telling
<1>6. w[t] = "snii" /\ h[t] <= k /\ Told(A, h, t, k)
  BY <1>5 DEF InfoFits, k
<1>7. \A x \in A : x.kind = "SNII" /\ x.dst = t => h[t] < x.i /\ x.i <= k /\ x.i \in Nat
  <2> SUFFICES ASSUME NEW x \in A, x.kind = "SNII", x.dst = t
               PROVE  h[t] < x.i /\ x.i <= k /\ x.i \in Nat
    OBVIOUS
  <2>1. x.i \in 1 .. SniiFrames
    BY OtherFacts
  <2> QED BY <1>1, <1>5, <2>1 DEF InfoFits, k
<1>8. \A x \in A : (x.kind = "snii" => x.src # t) /\ (x.kind = "OIR" => x.dst # t)
  BY <1>5 DEF InfoFits
<1>10. Told(A2, h, t, k + 1)
  <2> SUFFICES ASSUME NEW i \in h[t] + 1 .. k + 1 PROVE Info(t, i) \in A2
    BY DEF Told
  <2>1. CASE i = k + 1
    BY <1>4, <1>g, <2>1
  <2>2. CASE i # k + 1
    <3>1. i \in h[t] + 1 .. k
      BY <1>1, <2>2
    <3> QED BY <1>4, <1>6, <3>1 DEF Told
  <2> QED BY <2>1, <2>2
<1>11. \A x \in A2 : x.kind = "SNII" /\ x.dst = t => h[t] < x.i /\ x.i <= k + 1
  BY <1>1, <1>2, <1>4, <1>6, <1>7
<1>12. s2.dest = t /\ s2.sent = k + 1
  BY DEF k
<1>13. InfoFits(A2, s2, w, h, t)
  <2>1. CASE k + 1 < SniiFrames
    <3>1. Telling(s2, t)
      BY <1>12, <2>1 DEF Telling
    <3>2. h[t] <= k + 1
      BY <1>1, <1>6
    <3>3. \A x \in A2 : (x.kind = "snii" => x.src # t) /\ (x.kind = "OIR" => x.dst # t)
      BY <1>2, <1>4, <1>8
    <3> QED BY <1>6, <1>10, <1>11, <1>12, <3>1, <3>2, <3>3 DEF InfoFits
  <2>2. CASE k + 1 = SniiFrames
    <3>1. ~Telling(s2, t)
      BY <1>1, <1>12, <2>2 DEF Telling
    <3>3. \A x \in A2 : (x.kind = "snii" => x.src # t) /\ (x.kind = "OIR" => x.dst # t)
      BY <1>2, <1>4, <1>8
    <3> QED BY <1>6, <1>10, <1>11, <2>2, <3>1, <3>3 DEF InfoFits
  <2> QED BY <1>1, <2>1, <2>2
<1>14. ASSUME NEW y \in Tool PROVE PipFits(A2, p, w, y) /\ InfoFits(A2, s2, w, h, y)
  <2>1. PipFits(A, p, w, y) /\ InfoFits(A, s, w, h, y)
    BY DEF Questions
  <2>2. PipFits(A2, p, w, y)
    BY <1>2, <1>4, <2>1, PipKept
  <2>4. CASE y # t
    <3>1. \A x \in A2 : x.src = y \/ x.dst = y => x \in A
      BY <1>0, <1>2, <1>4, <2>4
    <3>2. \A x \in A : x.kind = "SNII" => x \in A2
      BY <1>4
    <3>3. ~Telling(s2, y) /\ ~Telling(s, y)
      BY <1>12, <2>4 DEF Telling
    <3>4. InfoFits(A2, s2, w, h, y)
      BY <2>1, <3>1, <3>2, <3>3, InfoKept
    <3> QED BY <2>2, <3>4
  <2> QED BY <1>13, <2>2, <2>4
<1>15. Questions(A2, p, s2, w, h)
  BY <1>14 DEF Questions
<1> QED BY <1>15 DEF A2

(* A tool hears a frame of node information: it is the next. *)
LEMMA InfoNext ==
  ASSUME NEW A \in SUBSET Message, NEW p, NEW s, NEW w, NEW h,
         Questions(A, p, s, w, h),
         NEW f \in A, f.kind = "SNII", \A x \in A : x # f /\ x.dst = f.dst => Before(f, x),
         s.sent \in Nat, h[f.dst] \in Nat
  PROVE  f.dst \in Tool /\ f.i \in Nat /\ f.i = h[f.dst] + 1 /\ w[f.dst] = "snii"
<1> DEFINE t == f.dst
           k == f.i
<1>0. SniiFrames \in Nat
  BY LoopAssumption
<1>1. t \in Tool /\ t # Server /\ f = Info(t, k) /\ k \in 1 .. SniiFrames /\ f.src = Server
  BY MessageFacts, OtherFacts DEF Tool
<1>t. /\ f.dst = t /\ f.i = k
      /\ \A x \in A : x # f /\ x.dst = t => Before(f, x)
      /\ h[t] \in Nat
  OBVIOUS
<1> HIDE DEF t, k
<1>3. PipFits(A, p, w, t) /\ InfoFits(A, s, w, h, t)
  BY <1>1 DEF Questions
<1>4. /\ w[t] = "snii" /\ h[t] < k
      /\ IF Telling(s, t) THEN k <= s.sent ELSE Told(A, h, t, SniiFrames)
  BY <1>3, <1>t DEF InfoFits
<1>5. \A x \in A : (x.kind = "snii" => x.src # t) /\ (x.kind = "OIR" => x.dst # t)
  BY <1>3, <1>t DEF InfoFits
<1>6. ASSUME NEW i \in Int, Info(t, i) \in A, i # k PROVE k < i
  <2>1. /\ Info(t, i).kind = "SNII" /\ Info(t, i).src = Server /\ Info(t, i).dst = t
        /\ Info(t, i).i = i
    BY DEF Info
  <2>2. Info(t, i) # f
    BY <1>6, <1>t, <2>1
  <2>3. Before(f, Info(t, i))
    BY <1>6, <1>t, <2>1, <2>2
  <2> QED BY <1>1, <1>6, <1>t, <2>1, <2>2, <2>3 DEF Before
<1>7. k = h[t] + 1
  <2> SUFFICES ASSUME k # h[t] + 1 PROVE FALSE
    OBVIOUS
  <2>1. h[t] + 1 \in Int /\ h[t] + 1 < k /\ h[t] + 1 # k
    BY <1>1, <1>4, <1>t
  <2>2. Info(t, h[t] + 1) \in A
    <3>1. CASE Telling(s, t)
      <4>1. Told(A, h, t, s.sent)
        BY <1>3, <3>1 DEF InfoFits
      <4>2. h[t] + 1 \in h[t] + 1 .. s.sent
        BY <1>1, <1>4, <1>t, <2>1, <3>1
      <4> QED BY <4>1, <4>2 DEF Told
    <3>2. CASE ~Telling(s, t)
      <4>2. h[t] + 1 \in h[t] + 1 .. SniiFrames
        BY <1>0, <1>1, <1>t, <2>1
      <4> QED BY <1>4, <3>2, <4>2 DEF Told
    <3> QED BY <3>1, <3>2
  <2>3. k < h[t] + 1
    BY <1>6, <2>1, <2>2
  <2> QED BY <1>1, <1>t, <2>1, <2>3
<1> QED BY <1>1, <1>4, <1>7 DEF t, k

LEMMA InfoGot ==
  ASSUME NEW A \in SUBSET Message, NEW p, NEW s, NEW w, NEW w2, NEW h, NEW h2,
         Questions(A, p, s, w, h),
         NEW f \in A, f.kind = "SNII", \A x \in A : x # f /\ x.dst = f.dst => Before(f, x),
         s.sent \in Nat, h[f.dst] \in Nat,
         w2[f.dst] = IF f.i < SniiFrames THEN w[f.dst] ELSE "nothing", h2[f.dst] = f.i,
         \A y \in Tool : y # f.dst => w2[y] = w[y] /\ h2[y] = h[y]
  PROVE  Questions(A \ {f}, p, s, w2, h2)
<1> DEFINE A2 == A \ {f}
           t == f.dst
           k == f.i
<1>0. SniiFrames \in Nat
  BY LoopAssumption
<1>1. t \in Tool /\ t # Server /\ f = Info(t, k) /\ k \in 1 .. SniiFrames /\ f.src = Server
  BY MessageFacts, OtherFacts DEF Tool
<1>2. \A x : x \in A2 <=> x \in A /\ x # f
  OBVIOUS
<1>t. /\ f.dst = t /\ f.i = k
      /\ w2[t] = (IF k < SniiFrames THEN w[t] ELSE "nothing") /\ h2[t] = k
      /\ \A y \in Tool : y # t => w2[y] = w[y] /\ h2[y] = h[y]
      /\ \A x \in A : x # f /\ x.dst = t => Before(f, x)
      /\ h[t] \in Nat
  OBVIOUS
<1>n. f.dst \in Tool /\ f.i \in Nat /\ f.i = h[f.dst] + 1 /\ w[f.dst] = "snii"
  BY InfoNext
<1> HIDE DEF A2, t, k
<1>3. PipFits(A, p, w, t) /\ InfoFits(A, s, w, h, t)
  BY <1>1 DEF Questions
<1>4. /\ w[t] = "snii" /\ h[t] < k
      /\ IF Telling(s, t) THEN k <= s.sent ELSE Told(A, h, t, SniiFrames)
  BY <1>3, <1>t DEF InfoFits
<1>5. \A x \in A : (x.kind = "snii" => x.src # t) /\ (x.kind = "OIR" => x.dst # t)
  BY <1>3, <1>t DEF InfoFits
<1>6. ASSUME NEW i \in Int, Info(t, i) \in A, i # k PROVE k < i /\ Info(t, i) \in A2
  <2>1. /\ Info(t, i).kind = "SNII" /\ Info(t, i).src = Server /\ Info(t, i).dst = t
        /\ Info(t, i).i = i
    BY DEF Info
  <2>2. Info(t, i) # f
    BY <1>6, <1>t, <2>1
  <2>3. Before(f, Info(t, i))
    BY <1>6, <1>t, <2>1, <2>2
  <2> QED BY <1>1, <1>2, <1>6, <1>t, <2>1, <2>2, <2>3 DEF Before
<1>7. k = h[t] + 1
  BY <1>n, <1>t
<1>8. \A x \in A2 : x.kind = "SNII" /\ x.dst = t => k < x.i /\ x.i \in 1 .. SniiFrames /\ x \in A
  <2> SUFFICES ASSUME NEW x \in A2, x.kind = "SNII", x.dst = t
               PROVE  k < x.i /\ x.i \in 1 .. SniiFrames /\ x \in A
    OBVIOUS
  <2>1. x \in A /\ x # f /\ Before(f, x)
    BY <1>2, <1>t
  <2>2. x = Info(t, x.i) /\ x.i \in 1 .. SniiFrames
    BY <2>1, OtherFacts
  <2>3. x.i # k
    BY <1>1, <2>1, <2>2
  <2> QED BY <1>6, <2>1, <2>2, <2>3
<1>9. ASSUME NEW l \in Nat, Told(A, h, t, l) PROVE Told(A2, h2, t, l)
  <2> SUFFICES ASSUME NEW i \in k + 1 .. l PROVE Info(t, i) \in A2
    BY <1>t DEF Told
  <2>1. i \in h[t] + 1 .. l /\ i \in Int /\ i # k
    BY <1>1, <1>7, <1>t
  <2> QED BY <1>6, <1>9, <2>1 DEF Told
<1>10. InfoFits(A2, s, w2, h2, t)
  <2>1. CASE k < SniiFrames
    <3>1. w2[t] = "snii"
      BY <1>4, <1>t, <2>1
    <3>2. \A x \in A2 : (x.kind = "snii" => x.src # t) /\ (x.kind = "OIR" => x.dst # t)
      BY <1>2, <1>5
    <3>3. Telling(s, t) => h2[t] <= s.sent /\ Told(A2, h2, t, s.sent)
      BY <1>3, <1>4, <1>9, <1>t DEF InfoFits
    <3>4. ~Telling(s, t) => Told(A2, h2, t, SniiFrames)
      BY <1>0, <1>4, <1>9
    <3>5. \A x \in A2 : x.kind = "SNII" /\ x.dst = t => h2[t] < x.i /\ (Telling(s, t) => x.i <= s.sent)
      BY <1>3, <1>8, <1>t DEF InfoFits
    <3> QED BY <3>1, <3>2, <3>3, <3>4, <3>5 DEF InfoFits
  <2>2. CASE k = SniiFrames
    <3>1. ~Telling(s, t)
      BY <1>0, <1>4, <2>2 DEF Telling
    <3>2. \A x \in A2 : x.kind = "SNII" => x.dst # t
      BY <1>0, <1>8, <2>2
    <3>3. \A x \in A2 : (x.kind = "snii" => x.src # t) /\ (x.kind = "OIR" => x.dst # t)
      BY <1>2, <1>5
    <3> QED BY <3>1, <3>2, <3>3 DEF InfoFits
  <2> QED BY <1>0, <1>1, <2>1, <2>2
<1>11. PipFits(A2, p, w2, t)
  BY <1>2, <1>3, <1>4, PipKept
<1>12. ASSUME NEW y \in Tool, y # t PROVE PipFits(A2, p, w2, y) /\ InfoFits(A2, s, w2, h2, y)
  <2>1. PipFits(A, p, w, y) /\ InfoFits(A, s, w, h, y)
    BY DEF Questions
  <2>2. w2[y] = w[y] /\ h2[y] = h[y]
    BY <1>12, <1>t
  <2>3. PipFits(A2, p, w2, y)
    BY <1>2, <2>1, <2>2, PipKept
  <2>4. \A x \in A : x.dst = y => x \in A2
    BY <1>2, <1>12, <1>t
  <2>5. InfoFits(A2, s, w2, h2, y)
    BY <1>2, <2>1, <2>2, <2>4, InfoKept
  <2> QED BY <2>3, <2>5
<1>13. Questions(A2, p, s, w2, h2)
  BY <1>10, <1>11, <1>12 DEF Questions
<1> QED BY <1>13 DEF A2

(* ... or another answer to what it asked for. *)
LEMMA OtherGot ==
  ASSUME NEW A \in SUBSET Message, NEW p, NEW s, NEW w, NEW w2, NEW h, Questions(A, p, s, w, h),
         NEW f \in A, f.kind \in {"OIR", "PIP"},
         w2[f.dst] = "nothing",
         \A y \in Tool : y # f.dst => w2[y] = w[y]
  PROVE  /\ f.dst \in Tool /\ w[f.dst] \in {"snii", "pip"}
         /\ Questions(A \ {f}, p, s, w2, h)
<1> DEFINE A2 == A \ {f}
           t == f.dst
<1>1. t \in Tool /\ t # Server /\ f = Reply(f.kind, Server, t)
  BY MessageFacts, OtherFacts DEF Tool
<1>2. \A x : x \in A2 <=> x \in A /\ x # f
  OBVIOUS
<1>3. \A x \in A2 : x.kind = f.kind => x.dst # t
  BY <1>1, <1>2, OtherFacts
<1>t. f.dst = t /\ w2[t] = "nothing" /\ \A y \in Tool : y # t => w2[y] = w[y]
  OBVIOUS
<1> HIDE DEF A2, t
<1>4. PipFits(A, p, w, t) /\ InfoFits(A, s, w, h, t)
  BY <1>1 DEF Questions
<1>5. PipFits(A2, p, w2, t) /\ InfoFits(A2, s, w2, h, t) /\ w[t] \in {"snii", "pip"}
  <2>1. CASE f.kind = "OIR"
    <3>1. w[t] = "snii" /\ ~Telling(s, t) /\ \A x \in A : x.kind = "SNII" => x.dst # t
      BY <1>4, <1>t, <2>1 DEF InfoFits
    <3>2. \A x \in A : x.kind = "snii" => x.src # t
      BY <1>4, <1>t, <2>1 DEF InfoFits
    <3>3. InfoFits(A2, s, w2, h, t)
      BY <1>2, <1>3, <2>1, <3>1, <3>2 DEF InfoFits
    <3>4. PipFits(A2, p, w2, t)
      BY <1>2, <1>4, <3>1, PipKept
    <3> QED BY <3>1, <3>3, <3>4
  <2>2. CASE f.kind = "PIP"
    <3>1. w[t] = "pip" /\ p # t /\ \A x \in A : x.kind = "pip" => x.src # t
      BY <1>4, <1>t, <2>2 DEF PipFits
    <3>2. PipFits(A2, p, w2, t)
      BY <1>2, <1>3, <2>2, <3>1 DEF PipFits
    <3>3. \A x \in A : x.dst = t /\ x.kind = "SNII" => FALSE
      BY <1>4, <3>1 DEF InfoFits
    <3>4. InfoFits(A2, s, w2, h, t)
      BY <1>2, <1>4, <3>1, <3>3, InfoKept
    <3> QED BY <3>1, <3>2, <3>4
  <2> QED BY <2>1, <2>2
<1>6. ASSUME NEW y \in Tool, y # t PROVE PipFits(A2, p, w2, y) /\ InfoFits(A2, s, w2, h, y)
  <2>1. PipFits(A, p, w, y) /\ InfoFits(A, s, w, h, y)
    BY DEF Questions
  <2>2. w2[y] = w[y]
    BY <1>6, <1>t
  <2>3. PipFits(A2, p, w2, y)
    BY <1>2, <2>1, <2>2, PipKept
  <2>4. \A x \in A : x.dst = y => x \in A2
    BY <1>2, <1>6, <1>t
  <2>5. InfoFits(A2, s, w2, h, y)
    BY <1>2, <2>1, <2>2, <2>4, InfoKept
  <2> QED BY <2>3, <2>5
<1>7. Questions(A2, p, s, w2, h)
  BY <1>5, <1>6 DEF Questions
<1> QED BY <1>1, <1>5, <1>7 DEF A2, t

----------------------------------------------------------------------------
(* The steps. *)
LEMMA LoopStart == LoopInit => LoopInv
<1> SUFFICES ASSUME LoopInit PROVE LoopInv
  OBVIOUS
<1> USE DEF LoopInit, Init
<1>0. /\ Server \in Node /\ SniiFrames \in Nat \ {0} /\ None \notin Node
      /\ \A t \in Tool : t \in Node /\ t # None
  BY LoopAssumption, DatagramAssumption DEF Tool
<1>1. tx \in [Node -> Seq(Message)] /\ rx \in [Node -> Seq(Message)]
  OBVIOUS
<1>2. \A n \in Node : Len(tx[n]) = 0 /\ Len(rx[n]) = 0
  OBVIOUS
<1>3. Buffers(tx, rx)
  BY <1>1, <1>2 DEF Buffers
<1>4. InOrder(tx, rx)
  BY <1>2 DEF InOrder
<1>5. ASSUME NEW f PROVE f \notin Air(tx, rx)
  BY <1>2, AirIs
<1>6. Reset \in Object
  BY DEF Reset, Object
<1>7. Stored
  <2>1. dg \in [Node -> Object]
    BY <1>6
  <2>2. snii \in [sent : 0 .. SniiFrames, dest : Tool \cup {None}] /\ ~(snii.sent < SniiFrames)
    BY <1>0 DEF Done
  <2> QED BY <2>1, <2>2 DEF Stored
<1>9. \A n \in Node : ~dg[n].reserved /\ dg[n].left = 0
  BY DEF Reset
<1> DEFINE A == Air(tx, rx)
<1>a. \A f \in A : FALSE
  BY <1>5
<1> HIDE DEF A
<1>10. ASSUME NEW n \in Node PROVE Own(A, dg, n) /\ ~Busy(A, dg, n)
  BY <1>9, <1>a DEF Own, Busy
<1>11. Exchange(A, dg, cfg, waiting)
  <2>1. Pending(A, dg)
    BY <1>0, <1>9 DEF Pending
  <2>2. ASSUME NEW t \in Tool PROVE ReadFits(A, dg, cfg, waiting, t)
    BY <1>0, <1>10 DEF ReadFits, Asked, Answered
  <2> QED BY <1>10, <1>a, <2>1, <2>2 DEF Exchange
<1>12. Questions(A, pip, snii, waiting, heard)
  <2>1. ASSUME NEW t \in Tool PROVE PipFits(A, pip, waiting, t) /\ InfoFits(A, snii, waiting, heard, t)
    BY <1>0, <1>a DEF PipFits, InfoFits, Telling, Done
  <2> QED BY <2>1 DEF Questions
<1> QED BY <1>3, <1>4, <1>7, <1>11, <1>12 DEF LoopInv, A

LEMMA Established ==
  ASSUME Stored', Buffers(tx', rx'), InOrder(tx', rx'),
         Exchange(Air(tx', rx'), dg', cfg', waiting'),
         Questions(Air(tx', rx'), pip', snii', waiting', heard')
  PROVE  LoopInv'
<1>1. Buffers(tx, rx)' /\ InOrder(tx, rx)'
  BY DEF Buffers, InOrder
<1>2. Air(tx, rx)' = Air(tx', rx')
  BY DEF Air
<1>3. Exchange(Air(tx, rx)', dg', cfg', waiting')
  BY <1>2, Zenon
<1>4. Questions(Air(tx, rx)', pip', snii', waiting', heard')
  BY <1>2, Zenon
<1> QED BY <1>1, <1>3, <1>4 DEF LoopInv

(* A received frame is taken, ... *)
Pop(r, n) == [r EXCEPT ![n] = Tail(@)]
LEMMA Taken ==
  ASSUME Buffers(tx, rx), InOrder(tx, rx), NEW n \in Node, rx[n] # << >>,
         rx' = Pop(rx, n), NEW f, f = Head(rx[n])
  PROVE  /\ Buffers(tx, rx') /\ InOrder(tx, rx')
         /\ Air(tx, rx') = Air(tx, rx) \ {f}
         /\ f \in Air(tx, rx) /\ f \in Message /\ f.dst = n
         /\ \A h \in Air(tx, rx) : h # f /\ h.dst = f.dst => Before(f, h)
<1>1. LET r2 == [rx EXCEPT ![n] = Tail(@)]
      IN  /\ Buffers(tx, r2) /\ InOrder(tx, r2) /\ Air(tx, r2) = Air(tx, rx) \ {Head(rx[n])}
          /\ Head(rx[n]) \in Air(tx, rx) /\ Head(rx[n]).dst = n
          /\ \A h \in Air(tx, r2) : h.dst = n => Before(Head(rx[n]), h)
  BY TakenInOrder
<1>2. /\ Buffers(tx, rx') /\ InOrder(tx, rx') /\ Air(tx, rx') = Air(tx, rx) \ {f}
      /\ f \in Air(tx, rx) /\ f.dst = n
      /\ \A h \in Air(tx, rx') : h.dst = n => Before(f, h)
  BY <1>1, Zenon DEF Pop
<1>3. f \in Message
  <2>1. \A m \in Node : \A k \in 1 .. Len(tx[m]) : tx[m][k] \in Message
    BY InAir
  <2>2. \A m \in Node : \A k \in 1 .. Len(rx[m]) : rx[m][k] \in Message
    BY InAir
  <2> QED BY <1>2, <2>1, <2>2, AirIs
<1>4. \A h \in Air(tx, rx) : h # f /\ h.dst = f.dst => Before(f, h)
  BY <1>2
<1> QED BY <1>2, <1>3, <1>4

(* ... or both: one is replied to. *)
LEMMA TakenAndQueued ==
  ASSUME Buffers(tx, rx), InOrder(tx, rx), NEW n \in Node, rx[n] # << >>,
         rx' = Pop(rx, n), NEW f, f = Head(rx[n]),
         NEW g \in Message, g.src = n, Behind(g, Air(tx, rx)),
         tx' = Put(tx, n, g)
  PROVE  /\ Buffers(tx', rx') /\ InOrder(tx', rx')
         /\ Air(tx', rx') = Swapped(Air(tx, rx), f, g)
<1>1. Buffers(tx, rx') /\ InOrder(tx, rx') /\ Air(tx, rx') = Air(tx, rx) \ {f}
  BY Taken
<1>2. Behind(g, Air(tx, rx'))
  BY <1>1 DEF Behind
<1>3. /\ Buffers(Put(tx, n, g), rx') /\ InOrder(Put(tx, n, g), rx')
      /\ Air(Put(tx, n, g), rx') = Air(tx, rx') \cup {g}
  <2>1. PICK r2 : r2 = rx'
    OBVIOUS
  <2>2. Buffers(tx, r2) /\ InOrder(tx, r2) /\ Behind(g, Air(tx, r2))
    BY <1>1, <1>2, <2>1, Zenon
  <2>3. Buffers(Put(tx, n, g), r2)
    BY <2>2, SentInOrder
  <2>4. InOrder(Put(tx, n, g), r2)
    BY <2>2, SentInOrder
  <2>5. Air(Put(tx, n, g), r2) = Air(tx, r2) \cup {g}
    BY <2>2, SentInOrder
  <2> QED BY <2>1, <2>3, <2>4, <2>5, Zenon
<1>4. /\ Buffers(tx', rx') /\ InOrder(tx', rx')
      /\ Air(tx', rx') = Air(tx, rx') \cup {g}
  BY <1>3, Zenon
<1> QED BY <1>1, <1>4 DEF Swapped

LEMMA CarryStep ==
  ASSUME LoopInv, NEW n \in Node, Carry(n)
  PROVE  LoopInv'
<1>0. /\ tx[n] # << >> /\ tx' = [tx EXCEPT ![n] = Tail(@)]
      /\ rx' = [m \in Node |-> IF m \in on /\ For(Head(tx[n]), m) THEN Append(rx[m], Head(tx[n])) ELSE rx[m]]
      /\ UNCHANGED <<dg, hdr, on, count, phase, cfg, pip, snii, waiting, heard>>
  BY DEF Carry, Bus, server, tools
<1>1. Buffers(tx, rx) /\ InOrder(tx, rx) /\ on = Node
  BY DEF LoopInv, Stored
<1>2. tx[n] \in Seq(Message) /\ Head(tx[n]) \in Message
  <2>1. tx[n] \in Seq(Message)
    BY <1>1 DEF Buffers
  <2> QED BY <1>0, <2>1, HeadTailProperties
<1>3. rx' = Brought(rx, Head(tx[n]))
  <2>1. Head(tx[n]).dst \in Node /\ Head(tx[n]).dst # Head(tx[n]).src /\ None \notin Node
    BY <1>2, MessageFacts, DatagramAssumption
  <2>2. \A m \in Node : m \in on /\ For(Head(tx[n]), m) <=> Head(tx[n]).dst = m
    BY <1>1, <2>1 DEF For
  <2> QED BY <1>0, <2>2 DEF Brought
<1>4. /\ Buffers(tx', rx') /\ InOrder(tx', rx') /\ Air(tx', rx') = Air(tx, rx)
  <2>1. LET t2 == [tx EXCEPT ![n] = Tail(@)]
            r2 == Brought(rx, Head(tx[n]))
        IN  Buffers(t2, r2) /\ InOrder(t2, r2) /\ Air(t2, r2) = Air(tx, rx)
    BY <1>0, <1>1, BroughtInOrder
  <2> QED BY <1>0, <1>3, <2>1, Zenon
<1>5. Stored'
  BY <1>0 DEF LoopInv, Stored
<1>6. Exchange(Air(tx', rx'), dg', cfg', waiting')
  BY <1>0, <1>4, Zenon DEF LoopInv
<1>7. Questions(Air(tx', rx'), pip', snii', waiting', heard')
  BY <1>0, <1>4, Zenon DEF LoopInv
<1> QED BY <1>4, <1>5, <1>6, <1>7, Established

----------------------------------------------------------------------------
(* receivedFrame(), at a tool or at the node.                              *)

(* The frame n hears is replied to. *)
LEMMA ReplyBehind ==
  ASSUME NEW A, NEW d, NEW c, NEW w, Exchange(A, d, c, w), NEW f \in A, IsFragment(f),
         NEW kind \in Replies
  PROVE  /\ Reply(kind, f.dst, f.src) \in Message /\ Reply(kind, f.dst, f.src).src = f.dst
         /\ Behind(Reply(kind, f.dst, f.src), A)
<1> DEFINE g == Reply(kind, f.dst, f.src)
<1>1. /\ f \in Message /\ f.body = d[f.src].tbuf /\ f.dst = f.body.to
      /\ \A h \in A : IsReply(h) => h.dst # f.src
  BY OwnFacts
<1>2. \/ f.src \in Tool /\ f.dst = Server
      \/ f.src = Server /\ f.dst \in Tool
  BY <1>1, MessageFacts
<1>3. /\ g \in Message /\ g.kind = kind /\ g.src = f.dst /\ g.dst = f.src
  BY <1>2, Kinds
<1>4. IsReply(g) /\ ~IsFragment(g) /\ g.kind # "SNII"
  BY <1>3 DEF IsReply, IsFragment, Replies
<1> HIDE DEF g
<1>5. ASSUME NEW h \in A, h.src = f.dst, f.dst # Server PROVE ~IsFragment(h)
  <2>1. f.src = Server /\ f.dst \in Tool
    BY <1>2, <1>5
  <2>2. Answered(A, d, f.dst)
    BY <1>1, <2>1 DEF Answered, Busy
  <2>3. ~Busy(A, d, f.dst)
    BY <2>1, <2>2 DEF Exchange, ReadFits
  <2> QED BY <1>5, <2>3 DEF Busy
<1>6. \A h \in A : h # g
  BY <1>1, <1>3, <1>4
<1>7. ASSUME NEW h \in A PROVE Before(h, g)
  BY <1>3, <1>4, <1>5, <1>6 DEF Before
<1>8. Behind(g, A)
  BY <1>7 DEF Behind
<1> QED BY <1>3, <1>8 DEF g

(* What a step of datagrams at n leaves alone. *)
Confined(n) ==
  /\ Buffers(tx', rx') /\ InOrder(tx', rx') /\ Air(tx', rx') \subseteq Message
  /\ dg' \in [Node -> Object] /\ hdr' = hdr
  /\ \A m \in Node : m # n => dg'[m] = dg[m]
  /\ \A h : ~IsFragment(h) /\ ~IsReply(h) => (h \in Air(tx', rx') <=> h \in Air(tx, rx))

LEMMA ObjectKept ==
  ASSUME dg \in [Node -> Object], NEW n \in Node, NEW x \in Object, dg' = [dg EXCEPT ![n] = x]
  PROVE  /\ dg' \in [Node -> Object] /\ dg'[n] = x
         /\ \A m \in Node : m # n => dg'[m] = dg[m]
OBVIOUS

LEMMA ReplyHeard ==
  ASSUME LoopInv, NEW n \in Node, rx[n] # << >>, rx' = Pop(rx, n), NEW f, f = Head(rx[n]),
         HearAck(n, f) \/ HearReject(n, f) \/ HearNak(n, f)
  PROVE  Confined(n) /\ Exchange(Air(tx', rx'), dg', cfg, waiting)
<1> DEFINE A == Air(tx, rx)
<1>1. /\ Buffers(tx, rx) /\ InOrder(tx, rx) /\ Exchange(A, dg, cfg, waiting)
      /\ dg \in [Node -> Object] /\ hdr = [m \in Node |-> "OLCB"]
  BY DEF LoopInv, Stored
<1>2. tx' = tx /\ hdr' = hdr /\ IsReply(f)
  BY DEF HearAck, HearReject, HearNak, hist, IsReply, Replies
<1>3. /\ Buffers(tx, rx') /\ InOrder(tx, rx') /\ Air(tx, rx') = A \ {f}
      /\ f \in A /\ f \in Message /\ f.dst = n
  BY <1>1, Taken
<1>4. /\ Buffers(tx', rx') /\ InOrder(tx', rx') /\ Air(tx', rx') = A \ {f}
  BY <1>2, <1>3, Zenon
<1>5. A \subseteq Message
  BY <1>1 DEF Exchange
<1>6. dg[n] \in Object /\ dg[n].reserved /\ dg[n].tbuf \in Datagrams
  <2>1. dg[f.dst].reserved
    BY <1>1, <1>2, <1>3, OwnFacts
  <2>2. Own(A, dg, n)
    BY <1>1 DEF Exchange
  <2> QED BY <1>1, <1>3, <2>1, <2>2 DEF Own
<1> HIDE DEF A
<1>7. /\ dg' \in [Node -> Object] /\ \A m \in Node : m # n => dg'[m] = dg[m]
      /\ dg'[n].tbuf = dg[n].tbuf
      /\ f.kind \in {"ACK", "REJECT"} => dg'[n].reserved = FALSE /\ dg'[n].left = dg[n].left
      /\ f.kind \notin {"ACK", "REJECT"} =>
           f.kind = "NAK" /\ dg'[n].reserved = dg[n].reserved /\ dg'[n].left = dg[n].tbuf.size
  <2>1. CASE HearAck(n, f) \/ HearReject(n, f)
    <3>1. dg' = [dg EXCEPT ![n].reserved = FALSE] /\ f.kind \in {"ACK", "REJECT"}
      BY <2>1 DEF HearAck, HearReject
    <3>2. [dg[n] EXCEPT !.reserved = FALSE] \in Object
      BY <1>6 DEF Object
    <3> QED BY <1>1, <1>6, <3>1, <3>2 DEF Object
  <2>2. CASE HearNak(n, f)
    <3>1. dg' = [dg EXCEPT ![n].left = dg[n].tbuf.size] /\ f.kind = "NAK"
      BY <2>2 DEF HearNak
    <3>2. dg[n].tbuf.size \in Nat
      BY <1>6 DEF Datagrams, Requests, Responses
    <3>3. [dg[n] EXCEPT !.left = dg[n].tbuf.size] \in Object
      BY <1>6, <3>2 DEF Object
    <3> QED BY <1>1, <1>6, <3>1, <3>3 DEF Object
  <2> QED BY <2>1, <2>2
<1>8. \A m \in Node : m # f.dst => SameBuffer(dg[m], dg'[m])
  BY <1>3, <1>7 DEF SameBuffer
<1>9. Exchange(A \ {f}, dg', cfg, waiting)
  <2>1. CASE f.kind \in {"ACK", "REJECT"}
    BY <1>1, <1>3, <1>7, <1>8, <2>1, SenderFreed
  <2>2. CASE f.kind \notin {"ACK", "REJECT"}
    BY <1>1, <1>3, <1>7, <1>8, <2>2, SenderRepeats
  <2> QED BY <2>1, <2>2
<1>10. Confined(n)
  <2>1. Air(tx', rx') \subseteq Message
    BY <1>4, <1>5
  <2>2. ASSUME NEW h, ~IsReply(h) PROVE h \in Air(tx', rx') <=> h \in Air(tx, rx)
    BY <1>2, <1>4, <2>2 DEF A
  <2> QED BY <1>2, <1>4, <1>7, <2>1, <2>2 DEF Confined
<1> QED BY <1>4, <1>9, <1>10, Zenon

LEMMA FragmentKept ==
  ASSUME LoopInv, NEW n \in Node, rx[n] # << >>, rx' = Pop(rx, n), NEW f, f = Head(rx[n]),
         f.kind \in {"FIRST", "MID"}, tx' = tx, hdr' = hdr,
         dg' \in [Node -> Object], \A m \in Node : m # n => dg'[m] = dg[m],
         SameBuffer(dg[n], dg'[n])
  PROVE  Confined(n) /\ Exchange(Air(tx', rx'), dg', cfg, waiting)
<1> DEFINE A == Air(tx, rx)
<1>1. /\ Buffers(tx, rx) /\ InOrder(tx, rx) /\ Exchange(A, dg, cfg, waiting)
      /\ dg \in [Node -> Object]
  BY DEF LoopInv, Stored
<1>2. IsFragment(f) /\ f.kind \notin Final
  BY DEF IsFragment, Final
<1>3. /\ Buffers(tx, rx') /\ InOrder(tx, rx') /\ Air(tx, rx') = A \ {f}
      /\ f \in A /\ f \in Message /\ f.dst = n
  BY <1>1, Taken
<1>4. /\ Buffers(tx', rx') /\ InOrder(tx', rx') /\ Air(tx', rx') = A \ {f}
  BY <1>3, Zenon
<1>5. A \subseteq Message
  BY <1>1 DEF Exchange
<1>6. f.i < f.body.size
  <2>1. f.i \in 1 .. f.body.size /\ f.body.size \in {1, 2} /\ (f.kind \in Final <=> f.i = f.body.size)
    BY <1>2, <1>3, FragmentFacts
  <2> QED BY <1>2, <2>1
<1> HIDE DEF A
<1>7. \A m \in Node : SameBuffer(dg[m], dg'[m])
  BY DEF SameBuffer
<1>8. Exchange(A \ {f}, dg', cfg, waiting)
  BY <1>1, <1>2, <1>3, <1>6, <1>7, FragmentHeard
<1>9. Confined(n)
  <2>1. Air(tx', rx') \subseteq Message
    BY <1>4, <1>5
  <2>2. ASSUME NEW h, ~IsFragment(h) PROVE h \in Air(tx', rx') <=> h \in Air(tx, rx)
    BY <1>2, <1>4, <2>2 DEF A
  <2> QED BY <1>4, <2>1, <2>2 DEF Confined
<1> QED BY <1>4, <1>8, <1>9, Zenon

LEMMA LastReplied ==
  ASSUME LoopInv, NEW n \in Node, rx[n] # << >>, rx' = Pop(rx, n), NEW f, f = Head(rx[n]),
         f.kind \in Final, NEW kind \in Replies, Queue(n, Reply(kind, n, f.src)),
         dg' \in [Node -> Object], \A m \in Node : m # n => dg'[m] = dg[m],
         SameBuffer(dg[n], dg'[n])
  PROVE  /\ Confined(n) /\ f.dst = n
         /\ Last(Air(tx, rx), dg, dg', cfg, waiting, f)
         /\ Air(tx', rx') = Swapped(Air(tx, rx), f, Reply(kind, f.dst, f.src))
<1> DEFINE A == Air(tx, rx)
           g == Reply(kind, f.dst, f.src)
<1>1. /\ Buffers(tx, rx) /\ InOrder(tx, rx) /\ Exchange(A, dg, cfg, waiting)
      /\ dg \in [Node -> Object] /\ hdr = [m \in Node |-> "OLCB"]
  BY DEF LoopInv, Stored
<1>2. IsFragment(f)
  BY DEF IsFragment, Final
<1>3. /\ Buffers(tx, rx') /\ InOrder(tx, rx') /\ Air(tx, rx') = A \ {f}
      /\ f \in A /\ f \in Message /\ f.dst = n
      /\ \A h \in A : h # f /\ h.dst = f.dst => Before(f, h)
  BY <1>1, Taken
<1>4. A \subseteq Message
  BY <1>1 DEF Exchange
<1>5. g \in Message /\ g.src = n /\ Behind(g, A)
  BY <1>1, <1>2, <1>3, ReplyBehind
<1>6. tx' = Put(tx, n, g) /\ hdr' = hdr
  <2>1. Reply(kind, n, f.src) = g
    BY <1>3
  <2>2. tx' = Put(tx, n, Reply(kind, n, f.src))
    BY DEF Queue, Put
  <2>3. hdr' = hdr
    BY <1>1 DEF Queue
  <2> QED BY <2>1, <2>2, <2>3, Zenon
<1>7. ~IsFragment(g) /\ IsReply(g)
  <2>1. g.kind = kind
    BY DEF Reply
  <2> QED BY <2>1 DEF IsFragment, IsReply, Replies
<1> HIDE DEF A, g
<1>8. Buffers(tx', rx') /\ InOrder(tx', rx') /\ Air(tx', rx') = Swapped(A, f, g)
  <2>1. Buffers(tx, rx) /\ InOrder(tx, rx) /\ Behind(g, Air(tx, rx)) /\ g \in Message /\ g.src = n
    BY <1>1, <1>5 DEF A
  <2>2. Buffers(tx', rx')
    BY <1>6, <2>1, TakenAndQueued
  <2>3. InOrder(tx', rx')
    BY <1>6, <2>1, TakenAndQueued
  <2>4. Air(tx', rx') = Swapped(Air(tx, rx), f, g)
    BY <1>6, <2>1, TakenAndQueued
  <2> QED BY <2>2, <2>3, <2>4 DEF A
<1>9. \A m \in Node : SameBuffer(dg[m], dg'[m])
  BY DEF SameBuffer
<1>10. Last(A, dg, dg', cfg, waiting, f)
  BY <1>1, <1>2, <1>3, <1>9 DEF Last
<1>11. \A h : h \in Air(tx', rx') <=> (h \in A /\ h # f) \/ h = g
  BY <1>8 DEF Swapped
<1>12. Confined(n)
  <2>1. Air(tx', rx') \subseteq Message
    BY <1>4, <1>5, <1>11
  <2>2. ASSUME NEW h, ~IsFragment(h), ~IsReply(h) PROVE h \in Air(tx', rx') <=> h \in Air(tx, rx)
    BY <1>2, <1>7, <1>11, <2>2 DEF A
  <2> QED BY <1>6, <1>8, <2>1, <2>2 DEF Confined
<1>13. Air(tx', rx') = Swapped(A, f, g)
  BY <1>8
<1> QED BY <1>3, <1>10, <1>12, <1>13 DEF A, g

LEMMA ReceiveStep ==
  ASSUME LoopInv, NEW n \in Node, Receive(n), NEW f, f = Head(rx[n])
  PROVE  /\ Confined(n) /\ f.dst = n
         /\ delivered' = delivered => Exchange(Air(tx', rx'), dg', cfg, waiting)
         /\ delivered' # delivered /\ n \in Tool =>
              /\ waiting[n] = "read"
              /\ \A w2 : w2[n] = "nothing" /\ (\A t \in Tool : t # n => w2[t] = waiting[t]) =>
                   Exchange(Air(tx', rx'), dg', cfg, w2)
         /\ delivered' # delivered /\ n = Server =>
              f.body \in Requests /\ Exchange(Air(tx', rx'), dg', f.body, waiting)
<1>1. rx[n] # << >> /\ rx' = Pop(rx, n)
  BY DEF Receive, Pop
<1>2. Buffers(tx, rx) /\ InOrder(tx, rx) /\ dg \in [Node -> Object]
  BY DEF LoopInv, Stored
<1>3. f \in Message /\ f.dst = n
  BY <1>1, <1>2, Taken
<1>4. ~IsMapping(f) /\ f.src \in Node
  BY <1>3, MessageFacts
<1>5. dg[n] \in Object
  BY <1>2
<1>6. IsFragment(f) => f.body \in Datagrams /\ f.i \in {1, 2}
  <2>1. IsFragment(f) => f.body \in Datagrams /\ f.i \in 1 .. f.body.size /\ f.body.size \in {1, 2}
    BY <1>3, FragmentFacts
  <2> QED BY <2>1
<1>7. CASE HearAck(n, f) \/ HearReject(n, f) \/ HearNak(n, f)
  <2>1. Confined(n) /\ Exchange(Air(tx', rx'), dg', cfg, waiting)
    BY <1>1, <1>7, ReplyHeard
  <2>2. delivered' = delivered
    BY <1>7 DEF HearAck, HearReject, HearNak, hist
  <2> QED BY <1>3, <2>1, <2>2
<1>8. CASE Refuse(n, f) /\ f.kind \in {"FIRST", "MID"}
  <2>1. dg' = dg /\ delivered' = delivered /\ tx' = tx /\ hdr' = hdr
    BY <1>8 DEF Refuse, hist, Final
  <2>2. /\ dg' \in [Node -> Object] /\ SameBuffer(dg[n], dg'[n])
        /\ \A m \in Node : m # n => dg'[m] = dg[m]
    BY <1>2, <2>1 DEF SameBuffer
  <2>3. Confined(n) /\ Exchange(Air(tx', rx'), dg', cfg, waiting)
    BY <1>1, <1>8, <2>1, <2>2, FragmentKept
  <2> QED BY <1>3, <2>1, <2>3
<1>9. CASE Refuse(n, f) /\ f.kind \in Final
  <2>1. dg' = dg /\ delivered' = delivered /\ Queue(n, Reply("NAK", n, f.src))
    BY <1>9 DEF Refuse, hist, Final
  <2>2. /\ dg' \in [Node -> Object] /\ SameBuffer(dg[n], dg'[n])
        /\ \A m \in Node : m # n => dg'[m] = dg[m]
    BY <1>2, <2>1 DEF SameBuffer
  <2>3. "NAK" \in Replies
    BY DEF Replies
  <2>4. /\ Confined(n)
        /\ Last(Air(tx, rx), dg, dg', cfg, waiting, f)
        /\ Air(tx', rx') = Swapped(Air(tx, rx), f, Reply("NAK", f.dst, f.src))
    BY <1>1, <1>9, <2>1, <2>2, <2>3, LastReplied
  <2>5. Exchange(Swapped(Air(tx, rx), f, Reply("NAK", f.dst, f.src)), dg', cfg, waiting)
    BY <2>3, <2>4, LastAnswered
  <2>6. Exchange(Air(tx', rx'), dg', cfg, waiting)
    BY <2>4, <2>5, Zenon
  <2> QED BY <1>3, <2>1, <2>4, <2>6
<1>10. CASE Store(n, f)
  <2> DEFINE x == [dg[n] EXCEPT !.receiving = TRUE, !.from = f.src, !.rbuf = Append(@, <<f.body, f.i>>)]
  <2>1. /\ f.kind \in {"FIRST", "MID"} /\ IsFragment(f)
        /\ dg' = [dg EXCEPT ![n] = x] /\ delivered' = delivered /\ tx' = tx /\ hdr' = hdr
    BY <1>10 DEF Store, hist, IsFragment
  <2>2. x \in Object
    <3>1. <<f.body, f.i>> \in Datagrams \X {1, 2} /\ dg[n].rbuf \in Seq(Datagrams \X {1, 2})
      BY <1>5, <1>6, <2>1 DEF Object
    <3>2. Append(dg[n].rbuf, <<f.body, f.i>>) \in Seq(Datagrams \X {1, 2})
      BY <3>1, AppendProperties
    <3> QED BY <1>4, <1>5, <3>2 DEF Object
  <2>3. SameBuffer(dg[n], x)
    BY <1>5 DEF Object, SameBuffer
  <2> HIDE DEF x
  <2>4. /\ dg' \in [Node -> Object] /\ dg'[n] = x
        /\ \A m \in Node : m # n => dg'[m] = dg[m]
    BY <1>2, <2>1, <2>2, ObjectKept
  <2>5. SameBuffer(dg[n], dg'[n])
    BY <2>3, <2>4
  <2>6. Confined(n) /\ Exchange(Air(tx', rx'), dg', cfg, waiting)
    BY <1>1, <2>1, <2>4, <2>5, FragmentKept
  <2> QED BY <1>3, <2>1, <2>6
<1>11. CASE Complete(n, f)
  <2> DEFINE x == [dg[n] EXCEPT !.receiving = FALSE, !.from = f.src, !.rbuf = << >>]
  <2>1. f.kind \in Final /\ dg' = [dg EXCEPT ![n] = x]
    BY <1>11 DEF Complete
  <2>2. PICK kind \in Replies : /\ Queue(n, Reply(kind, n, f.src))
                                /\ delivered' # delivered => kind = "ACK"
    BY <1>11 DEF Complete, Replies
  <2>3. x \in Object
    <3>1. PICK e : e = << >> /\ e \in Seq(Datagrams \X {1, 2})
      BY EmptySeq
    <3>2. x = [dg[n] EXCEPT !.receiving = FALSE, !.from = f.src, !.rbuf = e]
      BY <3>1
    <3> HIDE DEF x
    <3> QED BY <1>4, <1>5, <3>1, <3>2 DEF Object
  <2>4. SameBuffer(dg[n], x)
    BY <1>5 DEF Object, SameBuffer
  <2> HIDE DEF x
  <2>5. /\ dg' \in [Node -> Object] /\ dg'[n] = x
        /\ \A m \in Node : m # n => dg'[m] = dg[m]
    BY <1>2, <2>1, <2>3, ObjectKept
  <2>6. SameBuffer(dg[n], dg'[n])
    BY <2>4, <2>5
  <2>7. /\ Confined(n)
        /\ Last(Air(tx, rx), dg, dg', cfg, waiting, f)
        /\ Air(tx', rx') = Swapped(Air(tx, rx), f, Reply(kind, f.dst, f.src))
    BY <1>1, <2>1, <2>2, <2>5, <2>6, LastReplied
  <2>8. Exchange(Air(tx', rx'), dg', cfg, waiting)
    <3>1. Exchange(Swapped(Air(tx, rx), f, Reply(kind, f.dst, f.src)), dg', cfg, waiting)
      BY <2>7, LastAnswered
    <3> QED BY <2>7, <3>1, Zenon
  <2>9. ASSUME delivered' # delivered, n \in Tool
        PROVE  waiting[n] = "read"
    <3>1. Last(Air(tx, rx), dg, dg', cfg, waiting, f) /\ f.dst \in Tool
      BY <1>3, <2>7, <2>9
    <3>2. PICK w2 : w2 = [t \in Tool |-> IF t = f.dst THEN "nothing" ELSE waiting[t]]
      OBVIOUS
    <3>3. w2[f.dst] = "nothing" /\ \A t \in Tool : t # f.dst => w2[t] = waiting[t]
      BY <3>1, <3>2
    <3> QED BY <1>3, <3>1, <3>3, AnswerHeard
  <2>w. ASSUME delivered' # delivered, n \in Tool,
               NEW w2, w2[n] = "nothing", \A t \in Tool : t # n => w2[t] = waiting[t]
        PROVE  Exchange(Air(tx', rx'), dg', cfg, w2)
    <3>1. /\ Last(Air(tx, rx), dg, dg', cfg, waiting, f) /\ f.dst \in Tool
          /\ w2[f.dst] = "nothing" /\ \A t \in Tool : t # f.dst => w2[t] = waiting[t]
      BY <1>3, <2>7, <2>w
    <3>2. Reply(kind, f.dst, f.src) = Reply("ACK", f.dst, f.src)
      BY <2>2, <2>w
    <3>3. Exchange(Swapped(Air(tx, rx), f, Reply("ACK", f.dst, f.src)), dg', cfg, w2)
      BY <3>1, AnswerHeard
    <3> QED BY <2>7, <3>2, <3>3, Zenon
  <2>10. ASSUME delivered' # delivered, n = Server
         PROVE  f.body \in Requests /\ Exchange(Air(tx', rx'), dg', f.body, waiting)
    <3>2. Reply(kind, f.dst, f.src) = Reply("ACK", f.dst, f.src)
      BY <2>2, <2>10
    <3>3. /\ f.body \in Requests
          /\ Exchange(Swapped(Air(tx, rx), f, Reply("ACK", f.dst, f.src)), dg', f.body, waiting)
      BY <1>3, <2>7, <2>10, RequestHeard
    <3> QED BY <2>7, <3>2, <3>3, Zenon
  <2> QED BY <1>3, <2>7, <2>8, <2>9, <2>w, <2>10
<1>12. Refuse(n, f) => f.kind \in {"FIRST", "MID"} \/ f.kind \in Final
  BY DEF Refuse
<1> QED BY <1>4, <1>7, <1>8, <1>9, <1>10, <1>11, <1>12 DEF Receive, HearMapping

----------------------------------------------------------------------------
(* The steps of the tools. *)

(* What the step leaves alone of the other questions. *)
LEMMA ConfinedQuestions ==
  ASSUME LoopInv, NEW n, Confined(n), NEW w2, NEW h2,
         \A t \in Tool : waiting[t] \in {"pip", "snii"} => w2[t] = waiting[t] /\ h2[t] = heard[t]
  PROVE  Questions(Air(tx', rx'), pip, snii, w2, h2)
<1>1. Questions(Air(tx, rx), pip, snii, waiting, heard) /\ Air(tx, rx) \subseteq Message
  BY DEF LoopInv, Exchange
<1>2. \A h : ~IsFragment(h) /\ ~IsReply(h) => (h \in Air(tx', rx') <=> h \in Air(tx, rx))
  BY DEF Confined
<1> QED BY <1>1, <1>2, QuestionsKept

LEMMA WaitingSet ==
  ASSUME waiting \in [Tool -> {"nothing", "read", "pip", "snii"}], heard \in [Tool -> Nat],
         NEW t \in Tool, NEW x \in {"nothing", "read", "pip", "snii"}, NEW i \in Nat
  PROVE  /\ waiting' = [waiting EXCEPT ![t] = x] =>
              /\ waiting' \in [Tool -> {"nothing", "read", "pip", "snii"}]
              /\ waiting'[t] = x /\ \A y \in Tool : y # t => waiting'[y] = waiting[y]
         /\ heard' = [heard EXCEPT ![t] = i] =>
              /\ heard' \in [Tool -> Nat]
              /\ heard'[t] = i /\ \A y \in Tool : y # t => heard'[y] = heard[y]
OBVIOUS

(* A tool hears a frame of an answer that is no datagram. *)
LEMMA OtherReceiveStep ==
  ASSUME LoopInv, NEW t \in Tool, ToolReceive(t), Head(rx[t]).kind \in {"SNII", "PIP", "OIR"}
  PROVE  /\ LoopInv'
         /\ \A y \in Tool : heard'[y] \in {heard[y], heard[y] + 1}
<1> DEFINE A == Air(tx, rx)
           f == Head(rx[t])
<1>1. /\ Buffers(tx, rx) /\ InOrder(tx, rx) /\ Exchange(A, dg, cfg, waiting)
      /\ Questions(A, pip, snii, waiting, heard) /\ Stored
  BY DEF LoopInv
<1>2. /\ rx[t] # << >> /\ rx' = Pop(rx, t)
      /\ heard' = [heard EXCEPT ![t] = IF f.kind = "SNII" THEN f.i ELSE @]
      /\ waiting' = IF f.kind = "SNII" /\ f.i < SniiFrames THEN waiting
                    ELSE [waiting EXCEPT ![t] = "nothing"]
      /\ UNCHANGED <<dg, hdr, on, tx, count, phase, cfg, pip, snii>>
  BY DEF ToolReceive, Pop, server
<1>t. t \in Node
  BY DEF Tool
<1>3. /\ Buffers(tx, rx') /\ InOrder(tx, rx') /\ Air(tx, rx') = A \ {f}
      /\ f \in A /\ f \in Message /\ f.dst = t
      /\ \A x \in A : x # f /\ x.dst = f.dst => Before(f, x)
  BY <1>1, <1>2, <1>t, Taken
<1>4. /\ Buffers(tx', rx') /\ InOrder(tx', rx') /\ Air(tx', rx') = A \ {f}
  BY <1>2, <1>3, Zenon
<1>5. A \in SUBSET Message
  BY <1>1 DEF Exchange
<1>6. /\ waiting \in [Tool -> {"nothing", "read", "pip", "snii"}] /\ heard \in [Tool -> Nat]
      /\ snii.sent \in Nat
  <2>1. 0 .. SniiFrames \subseteq Nat
    BY LoopAssumption
  <2> QED BY <1>1, <2>1 DEF Stored
<1>7. ~IsFragment(f) /\ ~IsReply(f)
  BY DEF IsFragment, IsReply, Replies
<1> HIDE DEF A, f
<1>8. /\ heard' \in [Tool -> Nat] /\ waiting' \in [Tool -> {"nothing", "read", "pip", "snii"}]
      /\ waiting[t] \in {"snii", "pip"}
      /\ heard'[t] \in {heard[t], heard[t] + 1}
      /\ \A y \in Tool : y # t => waiting'[y] = waiting[y] /\ heard'[y] = heard[y]
      /\ Questions(A \ {f}, pip, snii, waiting', heard')
  <2>1. CASE f.kind = "SNII"
    <3>1. f.i \in Nat
      <4>1. f.i \in 1 .. SniiFrames
        BY <1>3, <2>1, OtherFacts
      <4> QED BY <4>1, LoopAssumption
    <3>2. heard' = [heard EXCEPT ![t] = f.i]
      BY <1>2, <2>1 DEF f
    <3>3. /\ heard' \in [Tool -> Nat]
          /\ heard'[t] = f.i /\ \A y \in Tool : y # t => heard'[y] = heard[y]
      BY <1>6, <3>1, <3>2, WaitingSet
    <3>4. waiting' = IF f.i < SniiFrames THEN waiting ELSE [waiting EXCEPT ![t] = "nothing"]
      BY <1>2, <2>1 DEF f
    <3>5. /\ waiting' \in [Tool -> {"nothing", "read", "pip", "snii"}]
          /\ waiting'[t] = (IF f.i < SniiFrames THEN waiting[t] ELSE "nothing")
          /\ \A y \in Tool : y # t => waiting'[y] = waiting[y]
      <4>1. CASE f.i < SniiFrames
        BY <1>6, <3>4, <4>1
      <4>2. CASE ~(f.i < SniiFrames)
        BY <1>6, <3>4, <4>2, WaitingSet
      <4> QED BY <4>1, <4>2
    <3>h. heard[f.dst] \in Nat
      BY <1>3, <1>6
    <3>6. f.dst \in Tool /\ f.i \in Nat /\ f.i = heard[f.dst] + 1 /\ waiting[f.dst] = "snii"
      BY <1>1, <1>3, <1>5, <1>6, <2>1, <3>h, InfoNext
    <3>7. Questions(A \ {f}, pip, snii, waiting', heard')
      BY <1>1, <1>3, <1>5, <1>6, <2>1, <3>h, <3>3, <3>5, InfoGot
    <3> QED BY <1>3, <3>3, <3>5, <3>6, <3>7
  <2>2. CASE f.kind # "SNII"
    <3>1. f.kind \in {"PIP", "OIR"}
      BY <2>2 DEF f
    <3>2. heard' = heard
      BY <1>2, <1>6, <2>2 DEF f
    <3>3. waiting' = [waiting EXCEPT ![t] = "nothing"]
      BY <1>2, <2>2 DEF f
    <3>4. /\ waiting' \in [Tool -> {"nothing", "read", "pip", "snii"}]
          /\ waiting'[t] = "nothing" /\ \A y \in Tool : y # t => waiting'[y] = waiting[y]
      BY <1>6, <3>3, WaitingSet
    <3>5. waiting[t] \in {"snii", "pip"} /\ Questions(A \ {f}, pip, snii, waiting', heard)
      BY <1>1, <1>3, <1>5, <3>1, <3>4, OtherGot
    <3> QED BY <1>6, <3>2, <3>4, <3>5
  <2> QED BY <2>1, <2>2
<1>9. Exchange(A \ {f}, dg, cfg, waiting')
  <2>1. A \ {f} \in SUBSET Message
    BY <1>5
  <2>2. \A h : IsFragment(h) \/ IsReply(h) => (h \in A \ {f} <=> h \in A)
    BY <1>7
  <2>3. \A n \in Node : SameBuffer(dg[n], dg[n])
    BY DEF SameBuffer
  <2>4. \A y \in Tool : waiting[y] = "read" => waiting'[y] = "read"
    BY <1>8
  <2> QED BY <1>1, <2>1, <2>2, <2>3, <2>4, ExchangeKept
<1>10. Stored'
  BY <1>1, <1>2, <1>8 DEF Stored
<1>11. /\ Exchange(Air(tx', rx'), dg', cfg', waiting')
       /\ Questions(Air(tx', rx'), pip', snii', waiting', heard')
  BY <1>2, <1>4, <1>8, <1>9, Zenon
<1>12. LoopInv'
  BY <1>4, <1>10, <1>11, Established
<1>13. \A y \in Tool : heard'[y] \in {heard[y], heard[y] + 1}
  BY <1>8
<1> QED BY <1>12, <1>13

(* A tool hears a fragment of the answer to a read request, or a reply. *)
LEMMA DatagramReceiveStep ==
  ASSUME LoopInv, NEW t \in Tool, ToolReceive(t), Head(rx[t]).kind \notin {"SNII", "PIP", "OIR"}
  PROVE  LoopInv' /\ heard' = heard
<1> DEFINE f == Head(rx[t])
<1>0. Server \in Node /\ t \in Node /\ t # Server
  BY LoopAssumption DEF Tool
<1>1. /\ Receive(t) /\ heard' = heard
      /\ waiting' = IF delivered' # delivered THEN [waiting EXCEPT ![t] = "nothing"] ELSE waiting
      /\ UNCHANGED <<phase, cfg, pip, snii>>
  BY DEF ToolReceive, server
<1>2. UNCHANGED <<on, count>>
  BY <1>1 DEF Receive
<1>3. Confined(t)
  BY <1>0, <1>1, ReceiveStep
<1>4. /\ Stored /\ heard \in [Tool -> Nat]
      /\ waiting \in [Tool -> {"nothing", "read", "pip", "snii"}]
  BY DEF LoopInv, Stored
<1>5. /\ waiting' \in [Tool -> {"nothing", "read", "pip", "snii"}]
      /\ \A y \in Tool : waiting[y] \in {"pip", "snii"} => waiting'[y] = waiting[y]
      /\ Exchange(Air(tx', rx'), dg', cfg, waiting')
  <2>1. CASE delivered' = delivered
    <3>1. waiting' = waiting
      BY <1>1, <2>1
    <3>2. Exchange(Air(tx', rx'), dg', cfg, waiting)
      BY <1>0, <1>1, <2>1, ReceiveStep
    <3> QED BY <1>4, <3>1, <3>2
  <2>2. CASE delivered' # delivered
    <3>1. /\ waiting[t] = "read"
          /\ \A w2 : w2[t] = "nothing" /\ (\A y \in Tool : y # t => w2[y] = waiting[y]) =>
               Exchange(Air(tx', rx'), dg', cfg, w2)
      BY <1>0, <1>1, <2>2, ReceiveStep
    <3>2. waiting' = [waiting EXCEPT ![t] = "nothing"]
      BY <1>1, <2>2
    <3>3. /\ waiting' \in [Tool -> {"nothing", "read", "pip", "snii"}]
          /\ waiting'[t] = "nothing" /\ \A y \in Tool : y # t => waiting'[y] = waiting[y]
      BY <1>4, <3>2, WaitingSet
    <3> QED BY <3>1, <3>3
  <2> QED BY <2>1, <2>2
<1>6. Questions(Air(tx', rx'), pip, snii, waiting', heard)
  BY <1>3, <1>5, ConfinedQuestions
<1>7. Stored'
  <2>1. dg' \in [Node -> Object] /\ hdr' = hdr /\ dg'[Server] = dg[Server]
    BY <1>0, <1>3 DEF Confined
  <2>2. Stored'
    BY <1>1, <1>2, <1>4, <1>5, <2>1 DEF Stored
  <2> QED BY <2>2
<1>8. /\ Exchange(Air(tx', rx'), dg', cfg', waiting')
      /\ Questions(Air(tx', rx'), pip', snii', waiting', heard')
  BY <1>1, <1>5, <1>6, Zenon
<1>9. Buffers(tx', rx') /\ InOrder(tx', rx')
  BY <1>3 DEF Confined
<1>10. LoopInv'
  BY <1>7, <1>8, <1>9, Established
<1> QED BY <1>1, <1>10

(* check(), of a tool's or of the node's Datagram object. *)
LEMMA CheckStep ==
  ASSUME LoopInv, NEW n \in Node, Check(n), UNCHANGED <<cfg, pip, snii, waiting, heard>>
  PROVE  LoopInv'
<1> DEFINE A == Air(tx, rx)
           g == Fragment(dg[n].tbuf, dg[n].tbuf.size - dg[n].left + 1)
           x == [dg[n] EXCEPT !.left = @ - 1]
<1>1. /\ Buffers(tx, rx) /\ InOrder(tx, rx) /\ Exchange(A, dg, cfg, waiting)
      /\ Questions(A, pip, snii, waiting, heard) /\ Stored /\ A \subseteq Message
  BY DEF LoopInv, Exchange
<1>2. dg \in [Node -> Object] /\ hdr[n] = "OLCB"
  BY <1>1 DEF Stored
<1>3. /\ dg[n].left > 0 /\ tx' = Put(tx, n, g) /\ dg' = [dg EXCEPT ![n] = x]
      /\ UNCHANGED <<hdr, on, rx, count>>
  BY <1>2 DEF Check, Put
<1>4. x \in Object /\ x.reserved = dg[n].reserved /\ x.tbuf = dg[n].tbuf /\ x.left = dg[n].left - 1
  <2>1. dg[n] \in Object /\ dg[n].left - 1 \in Nat
    BY <1>2, <1>3 DEF Object
  <2> QED BY <2>1 DEF Object
<1>g. g = Fragment(dg[n].tbuf, dg[n].tbuf.size - dg[n].left + 1)
  OBVIOUS
<1> HIDE DEF A, x, g
<1>5. /\ dg' \in [Node -> Object] /\ dg'[n] = x
      /\ \A m \in Node : m # n => dg'[m] = dg[m]
  BY <1>2, <1>3, <1>4, ObjectKept
<1>6. /\ g \in Message /\ g.src = n
      /\ \A f \in A : Before(f, g)
      /\ IsFragment(g)
      /\ Exchange(A \cup {g}, dg', cfg, waiting)
  <2>1. /\ dg'[n].reserved = dg[n].reserved /\ dg'[n].tbuf = dg[n].tbuf
        /\ dg'[n].left = dg[n].left - 1 /\ dg[n].left > 0
        /\ \A m \in Node : m # n => dg'[m] = dg[m]
    BY <1>3, <1>4, <1>5
  <2> QED BY <1>1, <1>2, <1>g, <2>1, CheckExchange
<1>7. /\ Buffers(tx', rx') /\ InOrder(tx', rx') /\ Air(tx', rx') = A \cup {g}
  <2>1. Behind(g, Air(tx, rx))
    BY <1>6 DEF Behind, A
  <2>2. /\ Buffers(Put(tx, n, g), rx) /\ InOrder(Put(tx, n, g), rx)
        /\ Air(Put(tx, n, g), rx) = Air(tx, rx) \cup {g}
    BY <1>1, <1>6, <2>1, SentInOrder
  <2> QED BY <1>3, <2>2, Zenon DEF A
<1>8. Questions(A \cup {g}, pip, snii, waiting, heard)
  <2>1. \A f : ~IsFragment(f) /\ ~IsReply(f) => (f \in A \cup {g} <=> f \in A)
    BY <1>6
  <2> QED BY <1>1, <2>1, QuestionsKept
<1>9. Stored'
  BY <1>1, <1>3, <1>5 DEF Stored
<1>10. /\ Exchange(Air(tx', rx'), dg', cfg', waiting')
       /\ Questions(Air(tx', rx'), pip', snii', waiting', heard')
  BY <1>6, <1>7, <1>8, Zenon
<1> QED BY <1>7, <1>9, <1>10, Established

(* A tool asks for something by a datagram, ... *)
LEMMA SendStep ==
  ASSUME LoopInv, NEW t \in Tool, NEW what \in {"read", "command"}, Ask(t, what)
  PROVE  LoopInv'
<1> DEFINE A == Air(tx, rx)
           z == IF what = "read" THEN 1 ELSE 2
           b == [by |-> t, no |-> count.send + 1, to |-> Server, size |-> z]
           x == [dg[t] EXCEPT !.reserved = TRUE, !.tbuf = b, !.left = z]
           new == IF what = "command" THEN "nothing" ELSE what
<1>0. Server \in Node /\ t \in Node /\ t # Server
  BY LoopAssumption DEF Tool
<1>1. /\ Buffers(tx, rx) /\ InOrder(tx, rx) /\ Exchange(A, dg, cfg, waiting)
      /\ Questions(A, pip, snii, waiting, heard) /\ Stored /\ A \subseteq Message
  BY DEF LoopInv, Exchange
<1>2. /\ dg \in [Node -> Object] /\ count \in [send : Nat, fault : Nat] /\ heard \in [Tool -> Nat]
      /\ waiting \in [Tool -> {"nothing", "read", "pip", "snii"}]
  BY <1>1 DEF Stored
<1>3. /\ waiting[t] = "nothing" /\ ~dg[t].reserved /\ dg' = [dg EXCEPT ![t] = x]
      /\ count' = [count EXCEPT !.send = @ + 1]
      /\ waiting' = [waiting EXCEPT ![t] = new] /\ heard' = [heard EXCEPT ![t] = 0]
      /\ UNCHANGED <<hdr, on, tx, rx, phase, cfg, pip, snii>>
  <2>1. what \in DOMAIN Size /\ Size[what] = z
    BY DEF Size
  <2>2. Send(t, Server, z)
    BY <2>1 DEF Ask
  <2> QED BY <2>1, <2>2 DEF Ask, Send, server
<1>4. b \in Requests /\ b.by = t /\ b.size = z /\ z \in {1, 2} /\ (z = 1 => new = "read")
  BY <1>2 DEF Requests
<1>5. new \in {"nothing", "read", "pip", "snii"}
  OBVIOUS
<1>6. x \in Object /\ x.reserved /\ x.tbuf = b /\ x.left = b.size
  <2>1. dg[t] \in Object /\ z \in Nat /\ b \in Datagrams
    BY <1>0, <1>2, <1>4 DEF Datagrams
  <2> HIDE DEF b, z
  <2> QED BY <1>4, <2>1 DEF Object
<1> HIDE DEF A, b, x, z, new
<1>7. /\ dg' \in [Node -> Object] /\ dg'[t] = x
      /\ \A m \in Node : m # t => dg'[m] = dg[m]
  BY <1>0, <1>2, <1>3, <1>6, ObjectKept
<1>8. /\ waiting' \in [Tool -> {"nothing", "read", "pip", "snii"}]
      /\ waiting'[t] = new /\ \A y \in Tool : y # t => waiting'[y] = waiting[y]
  BY <1>2, <1>3, <1>5, WaitingSet
<1>9. /\ heard' \in [Tool -> Nat]
      /\ heard'[t] = 0 /\ \A y \in Tool : y # t => heard'[y] = heard[y]
  BY <1>2, <1>3
<1>10. Exchange(A, dg', cfg, waiting')
  <2>1. /\ dg'[t].reserved /\ dg'[t].tbuf = b /\ dg'[t].left = b.size
        /\ (b.size = 1 => waiting'[t] = "read")
        /\ \A m \in Node : m # t => dg'[m] = dg[m]
        /\ \A y \in Tool : y # t => waiting'[y] = waiting[y]
    BY <1>4, <1>6, <1>7, <1>8
  <2>2. b \in Requests /\ b.by = t /\ ~dg[t].reserved /\ waiting[t] = "nothing"
    BY <1>3, <1>4
  <2> QED BY <1>1, <1>2, <2>1, <2>2, ToolSends
<1>11. Questions(A, pip, snii, waiting', heard')
  <2>1. \A y \in Tool : waiting[y] \in {"pip", "snii"} => waiting'[y] = waiting[y] /\ heard'[y] = heard[y]
    BY <1>3, <1>8, <1>9
  <2> QED BY <1>1, <2>1, QuestionsKept
<1>12. Stored'
  <2>1. count' \in [send : Nat, fault : Nat]
    BY <1>2, <1>3
  <2> QED BY <1>1, <1>3, <1>7, <1>8, <1>9, <2>1 DEF Stored
<1>14. Air(tx', rx') = A /\ Buffers(tx', rx') /\ InOrder(tx', rx')
  BY <1>1, <1>3, Zenon DEF A
<1>15. /\ Exchange(Air(tx', rx'), dg', cfg', waiting')
       /\ Questions(Air(tx', rx'), pip', snii', waiting', heard')
  BY <1>3, <1>10, <1>11, <1>14, Zenon
<1> QED BY <1>12, <1>14, <1>15, Established

(* A message that is no datagram is queued. *)
LEMMA Said ==
  ASSUME LoopInv, NEW n \in Node, NEW g \in Message, g.src = n, ~IsFragment(g), ~IsReply(g),
         \A f \in Air(tx, rx) : Before(f, g),
         tx' = Put(tx, n, g), rx' = rx,
         NEW w2, \A t \in Tool : waiting[t] = "read" => w2[t] = "read"
  PROVE  /\ Buffers(tx', rx') /\ InOrder(tx', rx')
         /\ Air(tx', rx') = Air(tx, rx) \cup {g}
         /\ Exchange(Air(tx', rx'), dg, cfg, w2)
<1> DEFINE A == Air(tx, rx)
<1>1. Buffers(tx, rx) /\ InOrder(tx, rx) /\ Exchange(A, dg, cfg, waiting) /\ A \subseteq Message
  BY DEF LoopInv, Exchange
<1>2. Behind(g, Air(tx, rx))
  BY DEF Behind
<1>3. /\ Buffers(Put(tx, n, g), rx) /\ InOrder(Put(tx, n, g), rx)
      /\ Air(Put(tx, n, g), rx) = Air(tx, rx) \cup {g}
  BY <1>1, <1>2, SentInOrder
<1>4. Buffers(tx', rx') /\ InOrder(tx', rx') /\ Air(tx', rx') = A \cup {g}
  BY <1>3, Zenon
<1> HIDE DEF A
<1>5. Exchange(A \cup {g}, dg, cfg, w2)
  <2>1. A \cup {g} \in SUBSET Message
    BY <1>1
  <2>2. \A h : IsFragment(h) \/ IsReply(h) => (h \in A \cup {g} <=> h \in A)
    OBVIOUS
  <2>3. \A m \in Node : SameBuffer(dg[m], dg[m])
    BY DEF SameBuffer
  <2> QED BY <1>1, <2>1, <2>2, <2>3, ExchangeKept
<1>6. Exchange(Air(tx', rx'), dg, cfg, w2)
  BY <1>4, <1>5, Zenon
<1> QED BY <1>4, <1>6 DEF A

(* ... or for PIP or node information. *)
LEMMA AskStep ==
  ASSUME LoopInv, NEW t \in Tool, NEW what \in {"pip", "snii"}, Ask(t, what)
  PROVE  LoopInv'
<1> DEFINE A == Air(tx, rx)
           g == Reply(what, t, Server)
<1>0. Server \in Node /\ t \in Node /\ t # Server
  BY LoopAssumption DEF Tool
<1>1. Questions(A, pip, snii, waiting, heard) /\ Stored /\ A \in SUBSET Message
  BY DEF LoopInv, Exchange
<1>2. /\ count \in [send : Nat, fault : Nat] /\ heard \in [Tool -> Nat]
      /\ waiting \in [Tool -> {"nothing", "read", "pip", "snii"}]
      /\ hdr = [n \in Node |-> "OLCB"]
  BY <1>1 DEF Stored
<1>3. /\ waiting[t] = "nothing" /\ tx' = Put(tx, t, g) /\ hdr' = [hdr EXCEPT ![t] = "OLCB"]
      /\ count' = [count EXCEPT !.send = @ + 1]
      /\ waiting' = [waiting EXCEPT ![t] = what] /\ heard' = [heard EXCEPT ![t] = 0]
      /\ UNCHANGED <<dg, on, rx, phase, cfg, pip, snii>>
  <2>1. what \notin DOMAIN Size /\ what # "command"
    BY DEF Size
  <2> QED BY <2>1 DEF Ask, Say, Queue, Put, server
<1>4. what \in {"nothing", "read", "pip", "snii"}
  OBVIOUS
<1>5. /\ waiting' \in [Tool -> {"nothing", "read", "pip", "snii"}]
      /\ waiting'[t] = what /\ \A y \in Tool : y # t => waiting'[y] = waiting[y]
  BY <1>2, <1>3, <1>4, WaitingSet
<1>6. /\ heard' \in [Tool -> Nat]
      /\ heard'[t] = 0 /\ \A y \in Tool : y # t => heard'[y] = heard[y]
  BY <1>2, <1>3
<1>g. g = Reply(what, t, Server)
  OBVIOUS
<1> HIDE DEF A, g
<1>7. /\ g \in Message /\ g.src = t /\ ~IsFragment(g) /\ ~IsReply(g)
      /\ \A f \in A : Before(f, g)
      /\ Questions(A \cup {g}, pip, snii, waiting', heard')
  <2>1. /\ waiting[t] = "nothing" /\ waiting'[t] = what /\ heard'[t] = 0
        /\ \A y \in Tool : y # t => waiting'[y] = waiting[y] /\ heard'[y] = heard[y]
    BY <1>3, <1>5, <1>6
  <2>2. /\ g \in Message /\ g.src = t /\ ~IsFragment(g) /\ ~IsReply(g)
        /\ \A f \in A : Before(f, g)
    <3>1. waiting[t] = "nothing" /\ Questions(A, pip, snii, waiting, heard) /\ A \in SUBSET Message
      BY <1>1, <2>1
    <3>2. g \in Message /\ g.src = t
      BY <1>g, <3>1, QuestionBehind
    <3>3. ~IsFragment(g) /\ ~IsReply(g)
      BY <1>g, <3>1, QuestionBehind
    <3>4. \A f \in A : Before(f, g)
      BY <1>g, <3>1, QuestionBehind
    <3> QED BY <3>2, <3>3, <3>4
  <2>3. Questions(A \cup {g}, pip, snii, waiting', heard')
    BY <1>1, <1>g, <2>1, ToolAsks
  <2> QED BY <2>2, <2>3
<1>8. /\ Buffers(tx', rx') /\ InOrder(tx', rx') /\ Air(tx', rx') = Air(tx, rx) \cup {g}
      /\ Exchange(Air(tx', rx'), dg, cfg, waiting')
  <2>1. \A y \in Tool : waiting[y] = "read" => waiting'[y] = "read"
    BY <1>3, <1>5
  <2>2. \A f \in Air(tx, rx) : Before(f, g)
    BY <1>7 DEF A
  <2>3. rx' = rx /\ tx' = Put(tx, t, g) /\ g \in Message /\ g.src = t /\ ~IsFragment(g) /\ ~IsReply(g)
    BY <1>3, <1>7
  <2> HIDE DEF g
  <2> QED BY <1>0, <2>1, <2>2, <2>3, Said
<1>9. Stored'
  <2>1. count' \in [send : Nat, fault : Nat] /\ hdr' = hdr
    BY <1>2, <1>3
  <2> QED BY <1>1, <1>3, <1>5, <1>6, <2>1 DEF Stored
<1>11. /\ Exchange(Air(tx', rx'), dg', cfg', waiting')
       /\ Questions(Air(tx', rx'), pip', snii', waiting', heard')
  BY <1>3, <1>7, <1>8, Zenon DEF A
<1> QED BY <1>8, <1>9, <1>11, Established

----------------------------------------------------------------------------
(* The steps of the node's pass. *)
LEMMA HearNothingStep ==
  ASSUME LoopInv, Then("datagram"), HearNothing, UNCHANGED tools
  PROVE  LoopInv'
<1>1. UNCHANGED <<dg, hdr, on, tx, rx, count, cfg, pip, snii, waiting, heard>> /\ phase' = "datagram"
  BY DEF HearNothing, vars, net, tools, Then
<1>2. Stored'
  BY <1>1 DEF LoopInv, Stored
<1>3. /\ Buffers(tx', rx') /\ InOrder(tx', rx')
      /\ Exchange(Air(tx', rx'), dg', cfg', waiting')
      /\ Questions(Air(tx', rx'), pip', snii', waiting', heard')
  BY <1>1, Zenon DEF LoopInv
<1> QED BY <1>2, <1>3, Established

(* A datagram for Configuration, or what else a Datagram object hears. *)
LEMMA HearDatagramStep ==
  ASSUME LoopInv, Then("datagram"), HearDatagram, UNCHANGED tools
  PROVE  LoopInv'
<1> DEFINE f == Head(rx[Server])
<1>0. Server \in Node
  BY LoopAssumption
<1>1. /\ Receive(Server) /\ cfg' = (IF delivered' # delivered THEN f.body ELSE cfg)
      /\ UNCHANGED <<pip, snii, waiting, heard>> /\ phase' = "datagram"
  BY DEF HearDatagram, tools, Then
<1>2. UNCHANGED <<on, count>>
  BY <1>1 DEF Receive
<1>3. Confined(Server)
  BY <1>0, <1>1, ReceiveStep
<1>4. Stored
  BY DEF LoopInv
<1>5. cfg' \in Requests \cup {None} /\ Exchange(Air(tx', rx'), dg', cfg', waiting)
  <2>1. CASE delivered' = delivered
    <3>1. Exchange(Air(tx', rx'), dg', cfg, waiting)
      BY <1>0, <1>1, <2>1, ReceiveStep
    <3> QED BY <1>1, <1>4, <2>1, <3>1 DEF Stored
  <2>2. CASE delivered' # delivered
    <3>1. f.body \in Requests /\ Exchange(Air(tx', rx'), dg', f.body, waiting)
      BY <1>0, <1>1, <2>2, ReceiveStep
    <3> HIDE DEF f
    <3> QED BY <1>1, <2>2, <3>1
  <2> QED BY <2>1, <2>2
<1>6. Questions(Air(tx', rx'), pip, snii, waiting, heard)
  BY <1>3, ConfinedQuestions
<1>7. Stored'
  <2>1. dg' \in [Node -> Object] /\ hdr' = hdr
    BY <1>3 DEF Confined
  <2>2. Stored'
    BY <1>1, <1>2, <1>4, <1>5, <2>1 DEF Stored
  <2> QED BY <2>2
<1>8. /\ Exchange(Air(tx', rx'), dg', cfg', waiting')
      /\ Questions(Air(tx', rx'), pip', snii', waiting', heard')
  BY <1>1, <1>5, <1>6, Zenon
<1>9. Buffers(tx', rx') /\ InOrder(tx', rx')
  BY <1>3 DEF Confined
<1> QED BY <1>7, <1>8, <1>9, Established

(* The frame that the node takes, when it is no datagram. *)
LEMMA TakenByNode ==
  ASSUME LoopInv, rx[Server] # << >>, rx' = Pop(rx, Server), tx' = tx, NEW f, f = Head(rx[Server]),
         ~IsFragment(f), ~IsReply(f)
  PROVE  /\ Buffers(tx', rx') /\ InOrder(tx', rx')
         /\ Air(tx', rx') = Air(tx, rx) \ {f}
         /\ f \in Air(tx, rx)
         /\ Exchange(Air(tx', rx'), dg, cfg, waiting)
<1> DEFINE A == Air(tx, rx)
<1>0. Server \in Node
  BY LoopAssumption
<1>1. Buffers(tx, rx) /\ InOrder(tx, rx) /\ Exchange(A, dg, cfg, waiting) /\ A \subseteq Message
  BY DEF LoopInv, Exchange
<1>2. /\ Buffers(tx, rx') /\ InOrder(tx, rx') /\ Air(tx, rx') = A \ {f} /\ f \in A
  BY <1>0, <1>1, Taken
<1>3. /\ Buffers(tx', rx') /\ InOrder(tx', rx') /\ Air(tx', rx') = A \ {f}
  BY <1>2, Zenon
<1> HIDE DEF A
<1>4. Exchange(A \ {f}, dg, cfg, waiting)
  <2>1. A \ {f} \in SUBSET Message
    BY <1>1
  <2>2. \A h : IsFragment(h) \/ IsReply(h) => (h \in A \ {f} <=> h \in A)
    OBVIOUS
  <2>3. \A m \in Node : SameBuffer(dg[m], dg[m])
    BY DEF SameBuffer
  <2> QED BY <1>1, <2>1, <2>2, <2>3, ExchangeKept
<1>5. Exchange(Air(tx', rx'), dg, cfg, waiting)
  BY <1>3, <1>4, Zenon
<1> QED BY <1>2, <1>3, <1>5 DEF A

LEMMA HearPipStep ==
  ASSUME LoopInv, Then("datagram"), rx[Server] # << >>, rx' = Pop(rx, Server),
         HearPip(Head(rx[Server])), UNCHANGED <<on, count, tools>>
  PROVE  LoopInv'
<1> DEFINE A == Air(tx, rx)
           f == Head(rx[Server])
<1>1. Questions(A, pip, snii, waiting, heard) /\ Stored /\ A \in SUBSET Message
  BY DEF LoopInv, Exchange
<1>2. /\ f.kind = "pip" /\ pip' = f.src /\ phase' = "datagram"
      /\ UNCHANGED <<dg, hdr, on, tx, count, cfg, snii, waiting, heard>>
  BY DEF HearPip, Then, tools
<1>3. ~IsFragment(f) /\ ~IsReply(f)
  BY <1>2 DEF IsFragment, IsReply, Replies
<1> HIDE DEF f
<1>4. /\ Buffers(tx', rx') /\ InOrder(tx', rx')
      /\ Air(tx', rx') = A \ {f} /\ f \in A
      /\ Exchange(Air(tx', rx'), dg, cfg, waiting)
  BY <1>2, <1>3, TakenByNode DEF f
<1> HIDE DEF A
<1>5. f.src \in Tool /\ Questions(A \ {f}, f.src, snii, waiting, heard)
  BY <1>1, <1>2, <1>4, PipHeard
<1>6. Stored'
  BY <1>1, <1>2, <1>5 DEF Stored
<1>7. /\ Exchange(Air(tx', rx'), dg', cfg', waiting')
      /\ Questions(Air(tx', rx'), pip', snii', waiting', heard')
  BY <1>2, <1>4, <1>5, Zenon
<1> QED BY <1>4, <1>6, <1>7, Established

(* The answer is started, *)
LEMMA HearSniiStep ==
  ASSUME LoopInv, Then("datagram"), rx[Server] # << >>, rx' = Pop(rx, Server),
         Head(rx[Server]).kind = "snii", snii.sent = SniiFrames,
         snii' = [sent |-> 0, dest |-> Head(rx[Server]).src],
         UNCHANGED <<dg, hdr, on, tx, count, cfg, pip, tools>>
  PROVE  LoopInv'
<1> DEFINE A == Air(tx, rx)
           f == Head(rx[Server])
<1>1. Questions(A, pip, snii, waiting, heard) /\ Stored /\ A \in SUBSET Message
  BY DEF LoopInv, Exchange
<1>2. /\ f.kind = "snii" /\ snii' = [sent |-> 0, dest |-> f.src] /\ phase' = "datagram"
      /\ UNCHANGED <<dg, hdr, on, tx, count, cfg, pip, waiting, heard>>
  BY DEF Then, tools
<1>3. ~IsFragment(f) /\ ~IsReply(f)
  BY <1>2 DEF IsFragment, IsReply, Replies
<1> HIDE DEF f
<1>4. /\ Buffers(tx', rx') /\ InOrder(tx', rx')
      /\ Air(tx', rx') = A \ {f} /\ f \in A
      /\ Exchange(Air(tx', rx'), dg, cfg, waiting)
  BY <1>2, <1>3, TakenByNode DEF f
<1> HIDE DEF A
<1>5. f.src \in Tool /\ Questions(A \ {f}, pip, [sent |-> 0, dest |-> f.src], waiting, heard)
  BY <1>1, <1>2, <1>4, InfoHeard
<1>6. Stored'
  <2>1. snii' \in [sent : 0 .. SniiFrames, dest : Tool \cup {None}] /\ snii'.dest \in Tool
    BY <1>2, <1>5, LoopAssumption
  <2> QED BY <1>1, <1>2, <2>1 DEF Stored
<1>7. /\ Exchange(Air(tx', rx'), dg', cfg', waiting')
      /\ Questions(Air(tx', rx'), pip', snii', waiting', heard')
  BY <1>2, <1>4, <1>5, Zenon
<1> QED BY <1>4, <1>6, <1>7, Established

(* ... or refused. *)
LEMMA HearSniiRefused ==
  ASSUME LoopInv, Then("datagram"), rx[Server] # << >>, rx' = Pop(rx, Server),
         Head(rx[Server]).kind = "snii",
         Queue(Server, Reply("OIR", Server, Head(rx[Server]).src)),
         UNCHANGED <<dg, on, count, cfg, pip, snii, tools>>
  PROVE  LoopInv'
<1> DEFINE A == Air(tx, rx)
           f == Head(rx[Server])
           g == Reply("OIR", Server, f.src)
<1>0. Server \in Node
  BY LoopAssumption
<1>1. /\ Buffers(tx, rx) /\ InOrder(tx, rx) /\ Exchange(A, dg, cfg, waiting)
      /\ Questions(A, pip, snii, waiting, heard) /\ Stored /\ A \in SUBSET Message
  BY DEF LoopInv, Exchange
<1>2. /\ f.kind = "snii" /\ tx' = Put(tx, Server, g) /\ phase' = "datagram"
      /\ UNCHANGED <<dg, on, count, cfg, pip, snii, waiting, heard>>
  BY DEF Then, tools, Queue, Put
<1>h. hdr' = hdr
  <2>1. hdr = [n \in Node |-> "OLCB"]
    BY <1>1 DEF Stored
  <2> QED BY <2>1 DEF Queue
<1>3. ~IsFragment(f) /\ ~IsReply(f)
  BY <1>2 DEF IsFragment, IsReply, Replies
<1>g. g = Reply("OIR", Server, f.src)
  OBVIOUS
<1> HIDE DEF f, g
<1>4. f \in A
  BY <1>0, <1>1, Taken DEF f
<1> HIDE DEF A
<1>5. /\ g \in Message /\ g.src = Server /\ ~IsFragment(g) /\ ~IsReply(g)
      /\ \A x \in A : Before(x, g)
      /\ Questions(Swapped(A, f, g), pip, snii, waiting, heard)
  BY <1>1, <1>2, <1>4, <1>g, InfoRefused
<1>6. Buffers(tx', rx') /\ InOrder(tx', rx') /\ Air(tx', rx') = Swapped(A, f, g)
  <2>1. /\ Buffers(tx, rx) /\ InOrder(tx, rx) /\ Behind(g, Air(tx, rx)) /\ g \in Message
        /\ g.src = Server /\ tx' = Put(tx, Server, g) /\ f = Head(rx[Server])
    BY <1>1, <1>2, <1>5 DEF A, f, Behind
  <2>2. Buffers(tx', rx')
    BY <1>0, <2>1, TakenAndQueued
  <2>3. InOrder(tx', rx')
    BY <1>0, <2>1, TakenAndQueued
  <2>4. Air(tx', rx') = Swapped(Air(tx, rx), f, g)
    BY <1>0, <2>1, TakenAndQueued
  <2> QED BY <2>2, <2>3, <2>4 DEF A
<1>7. Exchange(Swapped(A, f, g), dg, cfg, waiting)
  <2>1. Swapped(A, f, g) \in SUBSET Message
    BY <1>1, <1>5 DEF Swapped
  <2>2. \A h : IsFragment(h) \/ IsReply(h) => (h \in Swapped(A, f, g) <=> h \in A)
    BY <1>3, <1>5 DEF Swapped
  <2>3. \A m \in Node : SameBuffer(dg[m], dg[m])
    BY DEF SameBuffer
  <2> QED BY <1>1, <2>1, <2>2, <2>3, ExchangeKept
<1>8. Stored'
  BY <1>1, <1>2, <1>h DEF Stored
<1>9. /\ Exchange(Air(tx', rx'), dg', cfg', waiting')
      /\ Questions(Air(tx', rx'), pip', snii', waiting', heard')
  BY <1>2, <1>5, <1>6, <1>7, Zenon
<1> QED BY <1>6, <1>8, <1>9, Established

LEMMA HearStep ==
  ASSUME LoopInv, Hear
  PROVE  LoopInv'
<1> DEFINE f == Head(rx[Server])
<1>1. CASE HearNothing
  BY <1>1, HearNothingStep DEF Hear
<1>2. CASE HearDatagram
  BY <1>2, HearDatagramStep DEF Hear
<1>3. CASE /\ rx[Server] # << >> /\ rx' = Pop(rx, Server)
           /\ HearPip(f) \/ HearSnii(f)
           /\ UNCHANGED <<on, count>>
  <2>0. Then("datagram") /\ UNCHANGED tools
    BY DEF Hear
  <2>1. CASE HearPip(f)
    BY <1>3, <2>0, <2>1, HearPipStep
  <2>2. CASE HearSnii(f)
    <3>1. f.kind = "snii" /\ UNCHANGED <<dg, cfg, pip>>
      BY <2>2 DEF HearSnii
    <3>2. CASE snii.sent = SniiFrames /\ snii' = [sent |-> 0, dest |-> f.src] /\ UNCHANGED <<hdr, tx>>
      BY <1>3, <2>0, <3>1, <3>2, HearSniiStep
    <3>3. CASE Queue(Server, Reply("OIR", Server, f.src)) /\ UNCHANGED snii
      BY <1>3, <2>0, <3>1, <3>3, HearSniiRefused
    <3> QED BY <2>2, <3>2, <3>3 DEF HearSnii
  <2> QED BY <1>3, <2>1, <2>2
<1> QED BY <1>1, <1>2, <1>3 DEF Hear, Pop

LEMMA NothingSent ==
  ASSUME LoopInv, UNCHANGED <<vars, cfg, pip, snii, tools>>
  PROVE  LoopInv'
<1>1. UNCHANGED <<dg, hdr, on, tx, rx, count, cfg, pip, snii, waiting, heard>>
  BY DEF vars, net, tools
<1>2. Stored'
  BY <1>1 DEF LoopInv, Stored
<1>3. /\ Buffers(tx', rx') /\ InOrder(tx', rx')
      /\ Exchange(Air(tx', rx'), dg', cfg', waiting')
      /\ Questions(Air(tx', rx'), pip', snii', waiting', heard')
  BY <1>1, Zenon DEF LoopInv
<1> QED BY <1>2, <1>3, Established

LEMMA DatagramCheckStep ==
  ASSUME LoopInv, DatagramCheck
  PROVE  LoopInv'
<1>0. Server \in Node
  BY LoopAssumption
<1>1. phase' = "configuration" /\ UNCHANGED <<cfg, pip, snii, waiting, heard>>
  BY DEF DatagramCheck, Then, tools
<1>3. CASE Check(Server)
  BY <1>0, <1>1, <1>3, CheckStep
<1>4. CASE UNCHANGED vars
  BY <1>1, <1>4, NothingSent DEF tools
<1> QED BY <1>3, <1>4 DEF DatagramCheck

(* The request is cleared, and answered if it asks for something. *)
LEMMA RespondStep ==
  ASSUME LoopInv, cfg # None, Respond(cfg), cfg' = None, Then("pip"),
         UNCHANGED <<net, pip, snii, tools>>
  PROVE  LoopInv'
<1> DEFINE A == Air(tx, rx)
           b == [by |-> Server, no |-> cfg.no, to |-> cfg.by, size |-> 2]
           x == [dg[Server] EXCEPT !.reserved = TRUE, !.left = 2, !.tbuf = b]
<1>0. Server \in Node
  BY LoopAssumption
<1>1. /\ Buffers(tx, rx) /\ InOrder(tx, rx) /\ Exchange(A, dg, cfg, waiting)
      /\ Questions(A, pip, snii, waiting, heard) /\ Stored /\ A \in SUBSET Message
  BY DEF LoopInv, Exchange
<1>2. cfg \in Requests /\ cfg.size \in {1, 2} /\ dg \in [Node -> Object] /\ dg[Server] \in Object
  BY <1>0, <1>1 DEF Stored, Requests
<1>3. UNCHANGED <<hdr, on, tx, rx, count, pip, snii, waiting, heard>> /\ phase' = "pip"
  BY DEF net, tools, Then
<1>4. dg' \in [Node -> Object] /\ Exchange(A, dg', None, waiting)
  <2>1. CASE cfg.size = 2
    <3>1. dg' = dg
      BY <2>1 DEF Respond, Size
    <3>2. \A m \in Node : SameBuffer(dg[m], dg[m])
      BY DEF SameBuffer
    <3>3. \A t \in Tool : Asked(None, t) => Asked(cfg, t)
      BY DEF Asked, Size
    <3>4. Exchange(A, dg, None, waiting)
      <4> HIDE DEF A
      <4> QED BY <1>1, <3>2, <3>3, ExchangeKept
    <3> QED BY <1>2, <3>1, <3>4
  <2>2. CASE cfg.size = 1
    <3>1. ~dg[Server].reserved /\ dg' = [dg EXCEPT ![Server] = x]
      <4>1. /\ ~dg[Server].reserved
            /\ dg' = [dg EXCEPT ![Server].reserved = TRUE, ![Server].left = 2, ![Server].tbuf = b]
        <5>1. cfg.size # 2
          BY <2>2
        <5>2. Size["read"] = 1 /\ Size["command"] = 2
          BY DEF Size
        <5> QED BY <2>2, <5>1, <5>2, Zenon DEF Respond
      <4> QED BY <1>2, <4>1
    <3>2. b \in Responses /\ b \in Datagrams /\ b.to = cfg.by /\ b.size = 2
      BY <1>2 DEF Responses, Requests, Datagrams
    <3> HIDE DEF A, b
    <3>3. x \in Object /\ x.reserved /\ x.tbuf = b /\ x.left = 2
      BY <1>2, <3>2 DEF Object
    <3> HIDE DEF x
    <3>4. /\ dg' \in [Node -> Object] /\ dg'[Server] = x
          /\ \A m \in Node : m # Server => dg'[m] = dg[m]
      BY <1>0, <1>2, <3>1, <3>3, ObjectKept
    <3>5. dg'[Server].reserved /\ dg'[Server].tbuf = b /\ dg'[Server].left = b.size
      BY <3>2, <3>3, <3>4
    <3>6. Exchange(A, dg', None, waiting)
      BY <1>1, <1>2, <2>2, <3>1, <3>2, <3>4, <3>5, ServerSends
    <3> QED BY <3>4, <3>6
  <2> QED BY <1>2, <2>1, <2>2
<1>5. Stored'
  BY <1>1, <1>3, <1>4 DEF Stored
<1>6. /\ Buffers(tx', rx') /\ InOrder(tx', rx')
      /\ Exchange(Air(tx', rx'), dg', cfg', waiting')
      /\ Questions(Air(tx', rx'), pip', snii', waiting', heard')
  BY <1>1, <1>3, <1>4, Zenon
<1> QED BY <1>5, <1>6, Established

LEMMA ConfigurationStep ==
  ASSUME LoopInv, ConfigurationCheck
  PROVE  LoopInv'
<1>1. Then("pip") /\ phase' = "pip" /\ UNCHANGED <<net, hist, pip, snii, tools>>
  BY DEF ConfigurationCheck, Then
<1>2. CASE cfg # None /\ Respond(cfg) /\ cfg' = None
  BY <1>1, <1>2, RespondStep
<1>3. CASE UNCHANGED <<dg, cfg>>
  <2>2. UNCHANGED vars
    BY <1>1, <1>3 DEF vars
  <2> QED BY <1>1, <1>3, <2>2, NothingSent
<1> QED BY <1>2, <1>3 DEF ConfigurationCheck

LEMMA PipStep ==
  ASSUME LoopInv, PipCheck
  PROVE  LoopInv'
<1> DEFINE A == Air(tx, rx)
           g == Reply("PIP", Server, pip)
<1>0. Server \in Node
  BY LoopAssumption
<1>1. Questions(A, pip, snii, waiting, heard) /\ Stored /\ A \in SUBSET Message
  BY DEF LoopInv, Exchange
<1>2. phase = "pip" /\ phase' = "snii" /\ UNCHANGED <<cfg, snii, waiting, heard>>
  BY DEF PipCheck, Then, tools
<1>4. CASE pip # None /\ Say(Server, g) /\ pip' = None /\ UNCHANGED count
  <2>1. pip \in Tool
    BY <1>1, <1>4 DEF Stored
  <2>2. tx' = Put(tx, Server, g) /\ rx' = rx /\ UNCHANGED <<dg, on>>
    BY <1>4 DEF Say, Queue, Put
  <2>3. hdr' = hdr
    <3>1. hdr = [n \in Node |-> "OLCB"]
      BY <1>1 DEF Stored
    <3> QED BY <1>4, <3>1 DEF Say, Queue
  <2>g. g = Reply("PIP", Server, pip)
    OBVIOUS
  <2> HIDE DEF A, g
  <2>4. /\ g \in Message /\ g.src = Server /\ ~IsFragment(g) /\ ~IsReply(g)
        /\ \A x \in A : Before(x, g)
        /\ Questions(A \cup {g}, None, snii, waiting, heard)
    BY <1>1, <2>1, <2>g, PipAnswered
  <2>5. /\ Buffers(tx', rx') /\ InOrder(tx', rx') /\ Air(tx', rx') = Air(tx, rx) \cup {g}
        /\ Exchange(Air(tx', rx'), dg, cfg, waiting)
    <3>1. \A y \in Tool : waiting[y] = "read" => waiting[y] = "read"
      OBVIOUS
    <3>2. \A f \in Air(tx, rx) : Before(f, g)
      BY <2>4 DEF A
    <3> QED BY <1>0, <2>2, <2>4, <3>1, <3>2, Said
  <2>6. Stored'
    BY <1>1, <1>2, <1>4, <2>2, <2>3 DEF Stored
  <2>7. /\ Exchange(Air(tx', rx'), dg', cfg', waiting')
        /\ Questions(Air(tx', rx'), pip', snii', waiting', heard')
    BY <1>2, <1>4, <2>2, <2>4, <2>5, Zenon DEF A
  <2> QED BY <2>5, <2>6, <2>7, Established
<1>5. CASE UNCHANGED <<vars, pip>>
  <2> QED BY <1>2, <1>5, NothingSent DEF tools
<1> QED BY <1>4, <1>5 DEF PipCheck

LEMMA SniiStep ==
  ASSUME LoopInv, SniiCheck
  PROVE  LoopInv'
<1> DEFINE A == Air(tx, rx)
           g == [kind |-> "SNII", src |-> Server, dst |-> snii.dest, i |-> snii.sent + 1]
<1>0. Server \in Node
  BY LoopAssumption
<1>1. Questions(A, pip, snii, waiting, heard) /\ Stored /\ A \in SUBSET Message
  BY DEF LoopInv, Exchange
<1>2. phase = "snii" /\ phase' = "receive" /\ UNCHANGED <<cfg, pip, waiting, heard>>
  BY DEF SniiCheck, Then, tools
<1>4. CASE /\ snii.sent < SniiFrames /\ Say(Server, g)
           /\ snii' = [snii EXCEPT !.sent = @ + 1] /\ UNCHANGED count
  <2>1. /\ snii \in [sent : 0 .. SniiFrames, dest : Tool \cup {None}] /\ snii.dest \in Tool
        /\ heard \in [Tool -> Nat]
    BY <1>1, <1>4 DEF Stored
  <2>2. tx' = Put(tx, Server, g) /\ rx' = rx /\ UNCHANGED <<dg, on>>
    BY <1>4 DEF Say, Queue, Put
  <2>3. hdr' = hdr
    <3>1. hdr = [n \in Node |-> "OLCB"]
      BY <1>1 DEF Stored
    <3> QED BY <1>4, <3>1 DEF Say, Queue
  <2>g. g = Info(snii.dest, snii.sent + 1)
    BY DEF Info
  <2> HIDE DEF A, g
  <2>s. /\ snii' \in [sent : 0 .. SniiFrames, dest : Tool \cup {None}]
        /\ snii'.dest = snii.dest /\ snii'.sent = snii.sent + 1
        /\ snii.sent \in Nat
    BY <1>4, <2>1, LoopAssumption
  <2>h. heard[snii.dest] \in Nat
    BY <2>1
  <2>4. /\ g \in Message /\ g.src = Server /\ ~IsFragment(g) /\ ~IsReply(g)
        /\ \A x \in A : Before(x, g)
        /\ Questions(A \cup {g}, pip, snii', waiting, heard)
    <3>1. PICK t \in Tool : t = snii.dest
      BY <2>1
    <3>2. /\ snii.dest = t /\ snii.sent < SniiFrames /\ snii.sent \in Nat /\ heard[t] \in Nat
          /\ snii'.dest = t /\ snii'.sent = snii.sent + 1 /\ g = Info(t, snii.sent + 1)
      BY <1>4, <2>g, <2>h, <2>s, <3>1
    <3>3. Questions(A, pip, snii, waiting, heard) /\ A \in SUBSET Message
      BY <1>1
    <3>4. Questions(A \cup {g}, pip, snii', waiting, heard)
      BY <3>2, <3>3, InfoSent
    <3>5. g \in Message /\ g.src = Server
      BY <3>2, <3>3, InfoBehind
    <3>6. ~IsFragment(g) /\ ~IsReply(g)
      BY <3>2, <3>3, InfoBehind
    <3>7. \A x \in A : Before(x, g)
      BY <3>2, <3>3, InfoBehind
    <3> QED BY <3>4, <3>5, <3>6, <3>7
  <2>5. /\ Buffers(tx', rx') /\ InOrder(tx', rx') /\ Air(tx', rx') = Air(tx, rx) \cup {g}
        /\ Exchange(Air(tx', rx'), dg, cfg, waiting)
    <3>1. \A y \in Tool : waiting[y] = "read" => waiting[y] = "read"
      OBVIOUS
    <3>2. \A f \in Air(tx, rx) : Before(f, g)
      BY <2>4 DEF A
    <3> QED BY <1>0, <2>2, <2>4, <3>1, <3>2, Said
  <2>6. Stored'
    BY <1>1, <1>2, <1>4, <2>1, <2>2, <2>3, <2>s DEF Stored
  <2>7. /\ Exchange(Air(tx', rx'), dg', cfg', waiting')
        /\ Questions(Air(tx', rx'), pip', snii', waiting', heard')
    BY <1>2, <2>2, <2>4, <2>5, Zenon DEF A
  <2> QED BY <2>5, <2>6, <2>7, Established
<1>5. CASE UNCHANGED <<vars, snii>>
  <2> QED BY <1>2, <1>5, NothingSent DEF tools
<1> QED BY <1>4, <1>5 DEF SniiCheck

----------------------------------------------------------------------------
(* The invariant. *)
LEMMA ToolCheckStep ==
  ASSUME LoopInv, NEW t \in Tool, ToolCheck(t)
  PROVE  LoopInv'
<1>0. Server \in Node /\ t \in Node /\ t # Server
  BY LoopAssumption DEF Tool
<1>1. Check(t) /\ UNCHANGED <<phase, cfg, pip, snii, waiting, heard>>
  BY DEF ToolCheck, server, tools
<1>2. dg'[Server] = dg[Server]
  <2>1. dg \in [Node -> Object] /\ dg' = [dg EXCEPT ![t].left = @ - 1]
    BY <1>1 DEF LoopInv, Stored, Check
  <2> QED BY <1>0, <2>1
<1> QED BY <1>0, <1>1, CheckStep

LEMMA LoopStep == LoopInv /\ [LoopNext]_lvars => LoopInv'
<1> SUFFICES ASSUME LoopInv, [LoopNext]_lvars PROVE LoopInv'
  OBVIOUS
<1>1. CASE Pass
  BY <1>1, HearStep, DatagramCheckStep, ConfigurationStep, PipStep, SniiStep DEF Pass
<1>2. ASSUME NEW t \in Tool, NEW what \in Asks, Ask(t, what)
      PROVE  LoopInv'
  <2>1. CASE what \in {"read", "command"}
    BY <1>2, <2>1, SendStep
  <2>2. CASE what \in {"pip", "snii"}
    BY <1>2, <2>2, AskStep
  <2> QED BY <2>1, <2>2 DEF Asks
<1>3. ASSUME NEW t \in Tool, ToolCheck(t) PROVE LoopInv'
  BY <1>3, ToolCheckStep
<1>4. ASSUME NEW t \in Tool, ToolReceive(t) PROVE LoopInv'
  <2>1. CASE Head(rx[t]).kind \in {"SNII", "PIP", "OIR"}
    BY <1>4, <2>1, OtherReceiveStep
  <2>2. CASE Head(rx[t]).kind \notin {"SNII", "PIP", "OIR"}
    BY <1>4, <2>2, DatagramReceiveStep
  <2> QED BY <2>1, <2>2
<1>5. ASSUME NEW n \in Node, Carry(n) PROVE LoopInv'
  BY <1>5, CarryStep
<1>6. CASE UNCHANGED lvars
  <2>1. UNCHANGED <<vars, cfg, pip, snii, tools>> /\ UNCHANGED <<phase, dg>>
    BY <1>6 DEF lvars, server, vars
  <2> QED BY <2>1, NothingSent
<1>7. \A t \in Tool : Wants[t] \subseteq Asks
  BY WantsAssumption
<1> QED BY <1>1, <1>2, <1>3, <1>4, <1>5, <1>6, <1>7 DEF LoopNext

(* The frames under way always fit the states of the nodes, the objects and *)
(* the tools: a tool's question is in one place at a time, and so is the    *)
(* answer to it.                                                            *)
THEOREM LoopInvariant == LoopSpec => []LoopInv
<1>1. LoopInit => LoopInv
  BY LoopStart
<1>2. LoopInv /\ [LoopNext]_lvars => LoopInv'
  BY LoopStep
<1> QED BY <1>1, <1>2, PTL DEF LoopSpec

----------------------------------------------------------------------------
LEMMA AllFit == LoopInv => AnswersFit
<1> SUFFICES ASSUME LoopInv, NEW t \in Tool, NEW f \in Answers(t)
             PROVE  /\ f.kind \in {"SNII", "OIR"} => waiting[t] = "snii"
                    /\ f.kind = "PIP" => waiting[t] = "pip"
                    /\ f.kind = "SNII" => f.i > heard[t]
                    /\ IsFragment(f) => waiting[t] = "read"
  BY DEF AnswersFit
<1> DEFINE A == Air(tx, rx)
<1>0. Server \in Node /\ t \in Node
  BY LoopAssumption DEF Tool
<1>1. /\ Buffers(tx, rx) /\ Exchange(A, dg, cfg, waiting)
      /\ Questions(A, pip, snii, waiting, heard) /\ A \subseteq Message
      /\ heard \in [Tool -> Nat]
  BY DEF LoopInv, Exchange, Stored
<1>2. f \in A /\ f.src = Server /\ f.dst = t
  <2>1. tx[Server] \in Seq(Message) /\ rx[t] \in Seq(Message)
    BY <1>0, <1>1 DEF Buffers
  <2>2. DOMAIN tx[Server] = 1 .. Len(tx[Server]) /\ DOMAIN rx[t] = 1 .. Len(rx[t])
    BY <2>1, LenProperties
  <2>3. \/ \E k \in 1 .. Len(tx[Server]) : f = tx[Server][k]
        \/ \E k \in 1 .. Len(rx[t]) : f = rx[t][k]
    BY <2>2 DEF Answers
  <2>4. \A k \in 1 .. Len(tx[Server]) : tx[Server][k] \in Air(tx, rx)
    BY <1>0, <1>1, InAir
  <2>5. \A k \in 1 .. Len(rx[t]) : rx[t][k] \in Air(tx, rx)
    BY <1>0, <1>1, InAir
  <2> QED BY <2>3, <2>4, <2>5 DEF Answers
<1> HIDE DEF A
<1>3. PipFits(A, pip, waiting, t) /\ InfoFits(A, snii, waiting, heard, t)
      /\ ReadFits(A, dg, cfg, waiting, t)
  BY <1>1 DEF Questions, Exchange
<1>4. f.kind = "SNII" => f.i > heard[t]
  <2> SUFFICES ASSUME f.kind = "SNII" PROVE f.i > heard[t]
    OBVIOUS
  <2>1. heard[t] < f.i
    BY <1>2, <1>3 DEF InfoFits
  <2>2. f.i \in 1 .. SniiFrames /\ SniiFrames \in Nat /\ heard[t] \in Nat
    BY <1>1, <1>2, OtherFacts, LoopAssumption
  <2> QED BY <2>1, <2>2
<1>5. ASSUME IsFragment(f) PROVE waiting[t] = "read"
  <2>1. f.body = dg[Server].tbuf /\ f.dst = f.body.to
    BY <1>1, <1>2, <1>5, OwnFacts
  <2>2. Answered(A, dg, t)
    BY <1>2, <1>5, <2>1 DEF Answered, Busy
  <2> QED BY <1>3, <2>2 DEF ReadFits
<1>6. f.kind \in {"SNII", "OIR"} => waiting[t] = "snii"
  BY <1>2, <1>3 DEF InfoFits
<1>7. f.kind = "PIP" => waiting[t] = "pip"
  BY <1>2, <1>3 DEF PipFits
<1> QED BY <1>4, <1>5, <1>6, <1>7

(* Who gets an answer has asked for it, and has not had it yet: Datagram,   *)
(* PIP and SNII, which share a transmit buffer and each keep a destination  *)
(* of their own, never mix them up, however many tools ask.                 *)
THEOREM AnswersAlwaysFit == LoopSpec => []AnswersFit
BY LoopInvariant, AllFit, PTL

LEMMA HeardStep ==
  LoopInv /\ [LoopNext]_lvars => \A t \in Tool : heard'[t] \in {0, heard[t], heard[t] + 1}
<1> SUFFICES ASSUME LoopInv, [LoopNext]_lvars
             PROVE  \A t \in Tool : heard'[t] \in {0, heard[t], heard[t] + 1}
  OBVIOUS
<1>1. heard \in [Tool -> Nat]
  BY DEF LoopInv, Stored
<1>2. CASE UNCHANGED heard
  BY <1>2
<1>3. ASSUME NEW t \in Tool, NEW what \in Asks, Ask(t, what)
      PROVE  \A y \in Tool : heard'[y] \in {0, heard[y], heard[y] + 1}
  <2>1. heard' = [heard EXCEPT ![t] = 0]
    BY <1>3 DEF Ask
  <2> QED BY <1>1, <2>1
<1>4. ASSUME NEW t \in Tool, ToolReceive(t)
      PROVE  \A y \in Tool : heard'[y] \in {0, heard[y], heard[y] + 1}
  <2>1. CASE Head(rx[t]).kind \in {"SNII", "PIP", "OIR"}
    BY <1>4, <2>1, OtherReceiveStep
  <2>2. CASE Head(rx[t]).kind \notin {"SNII", "PIP", "OIR"}
    BY <1>4, <2>2, DatagramReceiveStep
  <2> QED BY <2>1, <2>2
<1>5. CASE Pass \/ (\E t \in Tool : ToolCheck(t)) \/ (\E n \in Node : Carry(n)) \/ UNCHANGED lvars
  <2>1. UNCHANGED heard
    BY <1>5 DEF Pass, Hear, DatagramCheck, ConfigurationCheck, PipCheck, SniiCheck,
                ToolCheck, Carry, tools, lvars
  <2> QED BY <1>2, <2>1
<1>6. \A t \in Tool : Wants[t] \subseteq Asks
  BY WantsAssumption
<1> QED BY <1>3, <1>4, <1>5, <1>6 DEF LoopNext

(* Node information comes without gaps and never twice, of any length and   *)
(* to any number of tools: SNII_check() counts a frame only if there was    *)
(* room for it, and who asks while it is being sent is refused.             *)
THEOREM InformationWithoutGaps == LoopSpec => NoGap
<1>1. LoopInv /\ [LoopNext]_lvars => [\A t \in Tool : heard'[t] \in {0, heard[t], heard[t] + 1}]_heard
  BY HeardStep
<1> QED BY <1>1, LoopInvariant, PTL DEF LoopSpec, NoGap

=============================================================================
