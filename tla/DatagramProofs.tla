-------------------------- MODULE DatagramProofs --------------------------
(***************************************************************************)
(* The datagrams of any number of nodes, of any length, through losses,    *)
(* crashes and enquiries: their types, that a datagram is delivered once,  *)
(* and that an acknowledgement is for a datagram that was delivered.       *)
(*                                                                         *)
(* Most of the argument is about which frames are under way at all (Air);  *)
(* of their order it needs that a node's fragments come with increasing    *)
(* numbers and that no two replies to a node are under way (Precedes).     *)
(***************************************************************************)
EXTENDS Datagram, SequenceTheorems, TLAPS

(* The frames a node sends: a fragment is one of its datagram's. *)
Sound(f) ==
  IsFragment(f) => f.body \in Body /\ f.i \in 1 .. f.body.size /\ f = Fragment(f.body, f.i)
Frame == {f \in Frames : Sound(f)}
IsReply(f) == f.kind \in Replies

(* f may be under way before g. *)
Precedes(f, g) ==
  /\ IsFragment(f) /\ IsFragment(g) /\ f.src = g.src => f.i < g.i
  /\ ~(IsReply(f) /\ IsReply(g) /\ f.dst = g.dst)

(* The buffers t and r of the senders and the receivers. *)
Buffers(t, r) ==
  /\ t \in [Node -> Seq(Frame)] /\ r \in [Node -> Seq(Frame)]
  /\ \A n \in Node : \A k \in 1 .. Len(t[n]) : t[n][k].src = n
  /\ \A m \in Node : \A k \in 1 .. Len(r[m]) : For(r[m][k], m)
InOrder(t, r) ==
  /\ \A m \in Node : \A j, k \in 1 .. Len(r[m]) : j < k => Precedes(r[m][j], r[m][k])
  /\ \A n \in Node : \A j, k \in 1 .. Len(t[n]) : j < k => Precedes(t[n][j], t[n][k])
  /\ \A m, n \in Node : \A j \in 1 .. Len(r[m]) : \A k \in 1 .. Len(t[n]) :
       Precedes(r[m][j], t[n][k])

(* The frames under way. *)
Air(t, r) ==
  {f \in Frame : \/ \E n \in Node : \E k \in 1 .. Len(t[n]) : f = t[n][k]
                 \/ \E m \in Node : \E k \in 1 .. Len(r[m]) : f = r[m][k]}

----------------------------------------------------------------------------
(* Frames *)
LEMMA FragmentKind ==
  ASSUME NEW b \in Body, NEW i \in 1 .. b.size
  PROVE  /\ Fragment(b, i) \in Frame /\ IsFragment(Fragment(b, i))
         /\ Fragment(b, i).src = b.by /\ Fragment(b, i).dst = b.to
         /\ Fragment(b, i).body = b /\ Fragment(b, i).i = i
         /\ Fragment(b, i).kind \in Final <=> i = b.size
         /\ Starts(Fragment(b, i)) <=> i = 1
         /\ Fragment(b, i).kind \in {"FIRST", "MID"} <=> i < b.size
<1> DEFINE f == Fragment(b, i)
<1>0. b.by \in Node /\ b.to \in Node /\ b.size \in Nat \ {0}
  BY DEF Body
<1>1. b.by \in Node /\ b.to \in Node /\ b.size \in Nat \ {0} /\ i \in Nat
  BY <1>0
<1>2. /\ f.src = b.by /\ f.dst = b.to /\ f.body = b /\ f.i = i
      /\ f.kind = (IF b.size = 1 THEN "ALL" ELSE IF i = 1 THEN "FIRST"
                   ELSE IF i = b.size THEN "LAST" ELSE "MID")
  BY DEF Fragment
<1>3. f = [kind |-> f.kind, src |-> b.by, dst |-> b.to, body |-> b, i |-> i]
  BY DEF Fragment
<1>4. CASE b.size = 1
  <2>0. i = 1
    BY <1>4
  <2>1. i = 1 /\ f.kind = "ALL"
    BY <1>4, <2>0 DEF Fragment
  <2>2. f \in Frames
    BY <1>1, <1>3, <2>1 DEF Frames
  <2> HIDE DEF f
  <2> QED BY <1>2, <1>4, <2>1, <2>2 DEF Frame, Sound, IsFragment, Starts, Final, f
<1>5. CASE b.size # 1
  <2>1. /\ i = 1 => f.kind = "FIRST"
        /\ i = b.size => f.kind = "LAST"
        /\ i # 1 /\ i # b.size => f.kind = "MID"
    BY <1>1, <1>5 DEF Fragment
  <2>2. f \in Frames
    BY <1>1, <1>3, <2>1 DEF Frames
  <2>3. IsFragment(f) /\ f \in Frame
    BY <1>2, <2>1, <2>2 DEF Frame, Sound, IsFragment
  <2> HIDE DEF f
  <2>4. /\ f.kind \in Final <=> i = b.size
        /\ Starts(f) <=> i = 1
        /\ f.kind \in {"FIRST", "MID"} <=> i < b.size
    BY <1>1, <1>5, <2>1 DEF Starts, Final
  <2> QED BY <1>2, <2>3, <2>4 DEF f
<1> QED BY <1>4, <1>5

(* What is known of a fragment under way. *)
LEMMA FragmentFacts ==
  ASSUME NEW f \in Frame, IsFragment(f)
  PROVE  /\ f.body \in Body /\ f.i \in 1 .. f.body.size /\ f = Fragment(f.body, f.i)
         /\ f.body.size \in Nat \ {0}
         /\ f.src = f.body.by /\ f.dst = f.body.to /\ f.src \in Node /\ f.dst \in Node
         /\ f.kind \in Final <=> f.i = f.body.size
         /\ Starts(f) <=> f.i = 1
         /\ f.kind \in {"FIRST", "MID"} <=> f.i < f.body.size
         /\ ~IsReply(f) /\ ~IsMapping(f)
<1>1. f.body \in Body /\ f.i \in 1 .. f.body.size /\ f = Fragment(f.body, f.i)
  BY DEF Frame, Sound
<1>2. ~IsReply(f) /\ ~IsMapping(f)
  BY DEF IsFragment, IsReply, IsMapping, Replies
<1>3. f.body.by \in Node /\ f.body.to \in Node /\ f.body.size \in Nat \ {0}
  BY <1>1 DEF Body
<1> QED BY <1>1, <1>2, <1>3, FragmentKind

LEMMA ReplyKind ==
  ASSUME NEW kind \in Replies, NEW n \in Node, NEW d \in Node
  PROVE  /\ Reply(kind, n, d) \in Frame /\ IsReply(Reply(kind, n, d))
         /\ ~IsFragment(Reply(kind, n, d))
         /\ Reply(kind, n, d).kind = kind
         /\ Reply(kind, n, d).src = n /\ Reply(kind, n, d).dst = d
BY DEF Reply, Frame, Frames, Sound, IsReply, IsFragment, Replies

LEMMA AMDKind ==
  ASSUME NEW n \in Node
  PROVE  /\ AMD(n) \in Frame /\ ~IsReply(AMD(n)) /\ ~IsFragment(AMD(n))
         /\ IsMapping(AMD(n)) /\ AMD(n).src = n /\ AMD(n).dst = None
BY DEF AMD, Mapping, IsMapping, Frame, Frames, Sound, IsReply, IsFragment, Replies

LEMMA AMRKind ==
  ASSUME NEW n \in Node
  PROVE  /\ AMR(n) \in Frame /\ ~IsReply(AMR(n)) /\ ~IsFragment(AMR(n))
         /\ IsMapping(AMR(n)) /\ AMR(n).src = n /\ AMR(n).dst = None
BY DEF AMR, Mapping, IsMapping, Frame, Frames, Sound, IsReply, IsFragment, Replies

(* There are no other frames. *)
LEMMA FrameKinds ==
  ASSUME NEW f \in Frame
  PROVE  /\ IsFragment(f) \/ IsReply(f) \/ IsMapping(f)
         /\ f.src \in Node
         /\ IsReply(f) => f.dst \in Node
         /\ IsMapping(f) => f.dst = None
         /\ IsFragment(f) => ~IsReply(f) /\ ~IsMapping(f)
         /\ IsReply(f) => ~IsMapping(f)
BY DEF Frame, Frames, IsMapping, IsFragment, IsReply, Replies

----------------------------------------------------------------------------
(* Buffers *)

(* What is left of a buffer, from some place on and up to another. *)
From(u, s, a) == Len(u) + a <= Len(s) /\ \A k \in 1 .. Len(u) : u[k] = s[k + a]
Part(u, s) == \E a \in Nat : From(u, s, a)

LEMMA Parted ==
  ASSUME NEW s \in Seq(Frame)
  PROVE  /\ Part(s, s) /\ Part(<< >>, s)
         /\ s # << >> => /\ Tail(s) \in Seq(Frame) /\ Part(Tail(s), s)
                         /\ SubSeq(s, 1, Len(s) - 1) \in Seq(Frame)
                         /\ Part(SubSeq(s, 1, Len(s) - 1), s)
<1> DEFINE L == Len(s)
           u == SubSeq(s, 1, L - 1)
<1>0. L \in Nat /\ 0 \in Nat /\ 1 \in Nat
  BY LenProperties
<1>1. From(s, s, 0)
  BY <1>0 DEF From
<1>2. From(<< >>, s, 0)
  BY <1>0 DEF From
<1>3. ASSUME s # << >> PROVE Tail(s) \in Seq(Frame) /\ Part(Tail(s), s)
  <2>1. Tail(s) \in Seq(Frame) /\ Len(Tail(s)) = L - 1
    BY <1>3, HeadTailProperties
  <2>2. \A k \in 1 .. Len(Tail(s)) : Tail(s)[k] = s[k + 1]
    BY <1>3, HeadTailProperties
  <2>3. From(Tail(s), s, 1)
    BY <1>0, <2>1, <2>2 DEF From
  <2> QED BY <1>0, <2>1, <2>3 DEF Part
<1>4. ASSUME s # << >> PROVE u \in Seq(Frame) /\ Part(u, s)
  <2>1. L \in Nat \ {0} /\ 1 \in 1 .. L
    BY <1>0, <1>4, EmptySeq
  <2>2. L - 1 \in Int /\ 1 \in Int /\ \A k \in 1 .. L - 1 : s[k] \in Frame
    <3>1. \A k \in 1 .. L : s[k] \in Frame
      BY ElementOfSeq
    <3> QED BY <1>0, <3>1
  <2>3. /\ u \in Seq(Frame)
        /\ Len(u) = IF 1 <= L - 1 THEN (L - 1) - 1 + 1 ELSE 0
        /\ \A k \in 1 .. (L - 1) - 1 + 1 : u[k] = s[1 + k - 1]
    <3> HIDE DEF L
    <3> QED BY <2>2, SubSeqProperties
  <2>4. L = Len(s)
    OBVIOUS
  <2> HIDE DEF u, L
  <2>5. Len(u) = L - 1
    BY <2>1, <2>3
  <2>6. \A k \in 1 .. Len(u) : u[k] = s[k + 0]
    BY <2>1, <2>3, <2>5
  <2>7. Len(u) + 0 <= Len(s)
    BY <2>1, <2>4, <2>5
  <2> QED BY <1>0, <2>3, <2>6, <2>7 DEF Part, From
<1> QED BY <1>0, <1>1, <1>2, <1>3, <1>4 DEF Part

LEMMA LessInOrder ==
  ASSUME NEW t, NEW r, Buffers(t, r), InOrder(t, r),
         NEW t2 \in [Node -> Seq(Frame)], NEW r2 \in [Node -> Seq(Frame)],
         \A n \in Node : Part(t2[n], t[n]) /\ Part(r2[n], r[n])
  PROVE  Buffers(t2, r2) /\ InOrder(t2, r2) /\ Air(t2, r2) \subseteq Air(t, r)
<1> DEFINE T(n) == Len(t[n])
           R(n) == Len(r[n])
           T2(n) == Len(t2[n])
           R2(n) == Len(r2[n])
           a == [n \in Node |-> CHOOSE x \in Nat : From(t2[n], t[n], x)]
           b == [n \in Node |-> CHOOSE x \in Nat : From(r2[n], r[n], x)]
<1>a. ASSUME NEW n \in Node
      PROVE  /\ a[n] \in Nat /\ Len(t2[n]) + a[n] <= Len(t[n])
             /\ \A k \in 1 .. Len(t2[n]) : t2[n][k] = t[n][k + a[n]]
  <2>1. a[n] \in Nat /\ From(t2[n], t[n], a[n])
    BY DEF Part
  <2> HIDE DEF a
  <2> QED BY <2>1 DEF From
<1>b. ASSUME NEW n \in Node
      PROVE  /\ b[n] \in Nat /\ Len(r2[n]) + b[n] <= Len(r[n])
             /\ \A k \in 1 .. Len(r2[n]) : r2[n][k] = r[n][k + b[n]]
  <2>1. b[n] \in Nat /\ From(r2[n], r[n], b[n])
    BY DEF Part
  <2> HIDE DEF b
  <2> QED BY <2>1 DEF From
<1> HIDE DEF a, b
<1>0. /\ t \in [Node -> Seq(Frame)] /\ r \in [Node -> Seq(Frame)]
      /\ \A n \in Node : \A k \in 1 .. T(n) : t[n][k].src = n
      /\ \A m \in Node : \A k \in 1 .. R(m) : For(r[m][k], m)
  BY DEF Buffers
<1>1. \A n \in Node : T(n) \in Nat /\ R(n) \in Nat /\ T2(n) \in Nat /\ R2(n) \in Nat
  BY <1>0, LenProperties
<1>2. ASSUME NEW n \in Node, NEW k \in 1 .. T2(n)
      PROVE  k + a[n] \in 1 .. T(n) /\ t2[n][k] = t[n][k + a[n]] /\ k \in Nat
  <2>1. a[n] \in Nat /\ T2(n) + a[n] <= T(n) /\ T2(n) \in Nat /\ T(n) \in Nat
    BY <1>1, <1>a
  <2>3. t2[n][k] = t[n][k + a[n]]
    BY <1>a
  <2> HIDE DEF T, T2
  <2>2. k + a[n] \in 1 .. T(n) /\ k \in Nat
    BY <2>1
  <2> QED BY <2>2, <2>3
<1>3. ASSUME NEW n \in Node, NEW k \in 1 .. R2(n)
      PROVE  k + b[n] \in 1 .. R(n) /\ r2[n][k] = r[n][k + b[n]] /\ k \in Nat
  <2>1. b[n] \in Nat /\ R2(n) + b[n] <= R(n) /\ R2(n) \in Nat /\ R(n) \in Nat
    BY <1>1, <1>b
  <2>3. r2[n][k] = r[n][k + b[n]]
    BY <1>b
  <2> HIDE DEF R, R2
  <2>2. k + b[n] \in 1 .. R(n) /\ k \in Nat
    BY <2>1
  <2> QED BY <2>2, <2>3
<1>o. /\ \A m \in Node : \A j, k \in 1 .. R(m) : j < k => Precedes(r[m][j], r[m][k])
      /\ \A n \in Node : \A j, k \in 1 .. T(n) : j < k => Precedes(t[n][j], t[n][k])
      /\ \A m, n \in Node : \A j \in 1 .. R(m) : \A k \in 1 .. T(n) : Precedes(r[m][j], t[n][k])
  BY DEF InOrder
<1> HIDE DEF T, R, T2, R2
<1>4. Buffers(t2, r2)
  <2>1. ASSUME NEW n \in Node, NEW k \in 1 .. T2(n) PROVE t2[n][k].src = n
    <3>1. PICK x \in 1 .. T(n) : t2[n][k] = t[n][x]
      BY <1>2
    <3> QED BY <1>0, <3>1
  <2>2. ASSUME NEW m \in Node, NEW k \in 1 .. R2(m) PROVE For(r2[m][k], m)
    <3>1. PICK x \in 1 .. R(m) : r2[m][k] = r[m][x]
      BY <1>3
    <3> QED BY <1>0, <3>1
  <2> QED BY <2>1, <2>2 DEF Buffers, T2, R2
<1>i. ASSUME NEW n \in Node, NEW k \in 1 .. T2(n)
      PROVE  \E x \in 1 .. T(n) : x = k + a[n] /\ t2[n][k] = t[n][x]
  BY <1>2
<1>j. ASSUME NEW n \in Node, NEW k \in 1 .. R2(n)
      PROVE  \E x \in 1 .. R(n) : x = k + b[n] /\ r2[n][k] = r[n][x]
  BY <1>3
<1>5. InOrder(t2, r2)
  <2>1. ASSUME NEW m \in Node, NEW j \in 1 .. R2(m), NEW k \in 1 .. R2(m), j < k
        PROVE  Precedes(r2[m][j], r2[m][k])
    <3>1. PICK x \in 1 .. R(m) : x = j + b[m] /\ r2[m][j] = r[m][x]
      BY <1>j
    <3>2. PICK y \in 1 .. R(m) : y = k + b[m] /\ r2[m][k] = r[m][y]
      BY <1>j
    <3>3. x < y
      <4>1. b[m] \in Nat
        BY <1>b
      <4> QED BY <1>3, <2>1, <3>1, <3>2, <4>1
    <3>4. Precedes(r[m][x], r[m][y])
      BY <1>o, <3>3
    <3> QED BY <3>1, <3>2, <3>4
  <2>2. ASSUME NEW m \in Node, NEW j \in 1 .. T2(m), NEW k \in 1 .. T2(m), j < k
        PROVE  Precedes(t2[m][j], t2[m][k])
    <3>1. PICK x \in 1 .. T(m) : x = j + a[m] /\ t2[m][j] = t[m][x]
      BY <1>i
    <3>2. PICK y \in 1 .. T(m) : y = k + a[m] /\ t2[m][k] = t[m][y]
      BY <1>i
    <3>3. x < y
      <4>1. a[m] \in Nat
        BY <1>a
      <4> QED BY <1>2, <2>2, <3>1, <3>2, <4>1
    <3>4. Precedes(t[m][x], t[m][y])
      BY <1>o, <3>3
    <3> QED BY <3>1, <3>2, <3>4
  <2>3. ASSUME NEW m \in Node, NEW n \in Node, NEW j \in 1 .. R2(m), NEW k \in 1 .. T2(n)
        PROVE  Precedes(r2[m][j], t2[n][k])
    <3>1. PICK x \in 1 .. R(m) : x = j + b[m] /\ r2[m][j] = r[m][x]
      BY <1>j
    <3>2. PICK y \in 1 .. T(n) : y = k + a[n] /\ t2[n][k] = t[n][y]
      BY <1>i
    <3>3. Precedes(r[m][x], t[n][y])
      BY <1>o
    <3> QED BY <3>1, <3>2, <3>3
  <2> QED BY <2>1, <2>2, <2>3 DEF InOrder, T2, R2
<1>6. Air(t2, r2) \subseteq Air(t, r)
  <2> SUFFICES ASSUME NEW f \in Air(t2, r2) PROVE f \in Air(t, r)
    OBVIOUS
  <2>1. f \in Frame /\ \/ \E n \in Node : \E k \in 1 .. T2(n) : f = t2[n][k]
                       \/ \E n \in Node : \E k \in 1 .. R2(n) : f = r2[n][k]
    BY DEF Air, T2, R2
  <2>2. \/ \E n \in Node : \E k \in 1 .. T(n) : f = t[n][k]
        \/ \E n \in Node : \E k \in 1 .. R(n) : f = r[n][k]
    <3>1. ASSUME NEW n \in Node, NEW k \in 1 .. T2(n), f = t2[n][k]
          PROVE  \E x \in 1 .. T(n) : f = t[n][x]
      <4>1. PICK x \in 1 .. T(n) : t2[n][k] = t[n][x]
        BY <1>i
      <4> QED BY <3>1, <4>1
    <3>2. ASSUME NEW n \in Node, NEW k \in 1 .. R2(n), f = r2[n][k]
          PROVE  \E x \in 1 .. R(n) : f = r[n][x]
      <4>1. PICK x \in 1 .. R(n) : r2[n][k] = r[n][x]
        BY <1>j
      <4> QED BY <3>2, <4>1
    <3> QED BY <2>1, <3>1, <3>2
  <2> QED BY <2>1, <2>2 DEF Air, T, R
<1> QED BY <1>4, <1>5, <1>6

(* The frames of the buffers are under way. *)
LEMMA InAir ==
  ASSUME NEW t, NEW r, Buffers(t, r)
  PROVE  /\ \A n \in Node : \A k \in 1 .. Len(t[n]) : t[n][k] \in Air(t, r) /\ t[n][k] \in Frame
         /\ \A n \in Node : \A k \in 1 .. Len(r[n]) : r[n][k] \in Air(t, r) /\ r[n][k] \in Frame
<1>1. \A n \in Node : t[n] \in Seq(Frame) /\ r[n] \in Seq(Frame)
  BY DEF Buffers
<1>2. \A n \in Node : \A k \in 1 .. Len(t[n]) : t[n][k] \in Frame
  BY <1>1, ElementOfSeq
<1>3. \A n \in Node : \A k \in 1 .. Len(r[n]) : r[n][k] \in Frame
  BY <1>1, ElementOfSeq
<1> QED BY <1>2, <1>3 DEF Air

(* A frame more, put behind the others. *)
LEMMA MoreInOrder ==
  ASSUME NEW t, NEW r, Buffers(t, r), InOrder(t, r), NEW n \in Node,
         NEW g \in Frame, g.src = n, \A h \in Air(t, r) : Precedes(h, g)
  PROVE  LET t2 == [t EXCEPT ![n] = Append(@, g)]
         IN  /\ Buffers(t2, r) /\ InOrder(t2, r)
             /\ Air(t2, r) \subseteq Air(t, r) \cup {g}
<1> DEFINE t2 == [t EXCEPT ![n] = Append(@, g)]
           u == Append(t[n], g)
           L == Len(t[n])
<1>0. /\ t \in [Node -> Seq(Frame)] /\ r \in [Node -> Seq(Frame)]
      /\ \A m \in Node : \A k \in 1 .. Len(t[m]) : t[m][k].src = m
      /\ \A m \in Node : \A k \in 1 .. Len(r[m]) : For(r[m][k], m)
  BY DEF Buffers
<1>1. t[n] \in Seq(Frame) /\ L \in Nat
  BY <1>0, LenProperties
<1>2. u \in Seq(Frame)
  BY <1>1
<1>3. Len(u) = L + 1
  BY <1>1
<1>4. \A k \in 1 .. L : u[k] = t[n][k]
  BY <1>1
<1>5. u[L + 1] = g
  BY <1>1
<1>6. t2 \in [Node -> Seq(Frame)] /\ t2[n] = u /\ \A m \in Node : m # n => t2[m] = t[m]
  BY <1>0, <1>2
<1>7. \A m \in Node : \A k \in 1 .. Len(t[m]) : t[m][k] \in Air(t, r)
  BY InAir
<1>8. \A m \in Node : \A k \in 1 .. Len(r[m]) : r[m][k] \in Air(t, r)
  BY InAir
<1>9. \A k \in 1 .. L : Precedes(t[n][k], g)
  BY <1>7
<1>o. /\ \A m \in Node : \A j, k \in 1 .. Len(r[m]) : j < k => Precedes(r[m][j], r[m][k])
      /\ \A m \in Node : \A j, k \in 1 .. Len(t[m]) : j < k => Precedes(t[m][j], t[m][k])
      /\ \A m, x \in Node : \A j \in 1 .. Len(r[m]) : \A k \in 1 .. Len(t[x]) :
           Precedes(r[m][j], t[x][k])
  BY DEF InOrder
<1>p. \A j, k \in 1 .. L : j < k => Precedes(t[n][j], t[n][k])
  BY <1>o
<1>q. \A m \in Node : \A j \in 1 .. Len(r[m]) : \A k \in 1 .. L : Precedes(r[m][j], t[n][k])
  BY <1>o
<1>s. \A k \in 1 .. L : t[n][k].src = n
  BY <1>0
<1> HIDE DEF t2, u, L
<1>10. Buffers(t2, r)
  <2>1. ASSUME NEW m \in Node, NEW k \in 1 .. Len(t2[m]) PROVE t2[m][k].src = m
    <3>1. CASE m = n
      <4>1. k \in 1 .. L \/ k = L + 1
        BY <1>1, <1>3, <1>6, <3>1
      <4> QED BY <1>4, <1>5, <1>6, <1>s, <3>1, <4>1
    <3>2. CASE m # n
      BY <1>0, <1>6, <3>2
    <3> QED BY <3>1, <3>2
  <2> QED BY <1>0, <1>6, <2>1 DEF Buffers
<1>11. InOrder(t2, r)
  <2>1. ASSUME NEW m \in Node, NEW j \in 1 .. Len(t2[m]), NEW k \in 1 .. Len(t2[m]), j < k
        PROVE  Precedes(t2[m][j], t2[m][k])
    <3>1. CASE m = n
      <4>1. j \in 1 .. L + 1 /\ k \in 1 .. L + 1 /\ t2[m] = u
        BY <1>3, <1>6, <3>1
      <4>2. j \in 1 .. L /\ (k \in 1 .. L \/ k = L + 1)
        BY <1>1, <2>1, <4>1
      <4> QED BY <1>4, <1>5, <1>9, <1>p, <2>1, <4>1, <4>2
    <3>2. CASE m # n
      BY <1>6, <1>o, <2>1, <3>2
    <3> QED BY <3>1, <3>2
  <2>2. ASSUME NEW m \in Node, NEW x \in Node, NEW j \in 1 .. Len(r[m]), NEW k \in 1 .. Len(t2[x])
        PROVE  Precedes(r[m][j], t2[x][k])
    <3>1. CASE x = n
      <4>1. (k \in 1 .. L \/ k = L + 1) /\ t2[x] = u
        BY <1>1, <1>3, <1>6, <3>1
      <4> QED BY <1>4, <1>5, <1>8, <1>q, <4>1
    <3>2. CASE x # n
      BY <1>6, <1>o, <3>2
    <3> QED BY <3>1, <3>2
  <2> QED BY <1>o, <2>1, <2>2 DEF InOrder
<1>12. Air(t2, r) \subseteq Air(t, r) \cup {g}
  <2> SUFFICES ASSUME NEW f \in Air(t2, r), f # g PROVE f \in Air(t, r)
    OBVIOUS
  <2>1. CASE \E m \in Node : \E k \in 1 .. Len(r[m]) : f = r[m][k]
    BY <1>8, <2>1
  <2>2. ASSUME NEW m \in Node, NEW k \in 1 .. Len(t2[m]), f = t2[m][k] PROVE f \in Air(t, r)
    <3>1. CASE m = n
      <4>1. (k \in 1 .. L \/ k = L + 1) /\ t2[m] = u
        BY <1>1, <1>3, <1>6, <3>1
      <4> QED BY <1>4, <1>5, <1>7, <2>2, <4>1 DEF L
    <3>2. CASE m # n
      BY <1>6, <1>7, <2>2, <3>2
    <3> QED BY <3>1, <3>2
  <2> QED BY <2>1, <2>2 DEF Air
<1> QED BY <1>10, <1>11, <1>12 DEF t2

(* A receiver takes the first frame. *)
LEMMA TakenInOrder ==
  ASSUME NEW t, NEW r, Buffers(t, r), InOrder(t, r), NEW n \in Node, r[n] # << >>,
         \A f, g \in Air(t, r) : IsFragment(f) /\ IsFragment(g) /\ f.src = g.src => f.body = g.body
  PROVE  LET r2 == [r EXCEPT ![n] = Tail(@)]
         IN  /\ Buffers(t, r2) /\ InOrder(t, r2) /\ Air(t, r2) \subseteq Air(t, r)
             /\ Head(r[n]) \in Air(t, r) /\ For(Head(r[n]), n)
             /\ \A h \in Air(t, r2) : Precedes(Head(r[n]), h)
<1> DEFINE r2 == [r EXCEPT ![n] = Tail(@)]
           f == Head(r[n])
           u == Tail(r[n])
           L == Len(r[n])
<1>0. /\ t \in [Node -> Seq(Frame)] /\ r \in [Node -> Seq(Frame)]
      /\ \A m \in Node : \A k \in 1 .. Len(r[m]) : For(r[m][k], m)
  BY DEF Buffers
<1>1. r[n] \in Seq(Frame) /\ L \in Nat \ {0} /\ f = r[n][1]
  BY <1>0, EmptySeq, LenProperties
<1>2. u \in Seq(Frame) /\ Len(u) = L - 1 /\ \A k \in 1 .. L - 1 : u[k] = r[n][k + 1]
  <2>1. u \in Seq(Frame) /\ Len(u) = L - 1
    BY <1>0, HeadTailProperties
  <2>2. \A k \in 1 .. Len(u) : u[k] = r[n][k + 1]
    BY <1>0, HeadTailProperties
  <2> QED BY <2>1, <2>2
<1>3. r2 \in [Node -> Seq(Frame)] /\ r2[n] = u /\ \A m \in Node : m # n => r2[m] = r[m]
  BY <1>0, <1>2
<1>4. 1 \in 1 .. L
  BY <1>1
<1>5. f \in Air(t, r) /\ For(f, n) /\ f \in Frame
  BY <1>0, <1>1, <1>4, InAir
<1>o. /\ \A m \in Node : \A j, k \in 1 .. Len(r[m]) : j < k => Precedes(r[m][j], r[m][k])
      /\ \A m, x \in Node : \A j \in 1 .. Len(r[m]) : \A k \in 1 .. Len(t[x]) :
           Precedes(r[m][j], t[x][k])
  BY DEF InOrder
<1>p. \A k \in 1 .. L : 1 < k => Precedes(f, r[n][k])
  BY <1>1, <1>4, <1>o
<1>q. \A x \in Node : \A k \in 1 .. Len(t[x]) : Precedes(f, t[x][k])
  BY <1>1, <1>4, <1>o
<1> HIDE DEF r2, f, u, L
<1>6. Buffers(t, r2) /\ InOrder(t, r2) /\ Air(t, r2) \subseteq Air(t, r)
  <2>1. \A m \in Node : Part(t[m], t[m])
    BY <1>0, Parted
  <2>2. \A m \in Node : Part(r2[m], r[m])
    BY <1>0, <1>3, Parted DEF u
  <2> QED BY <1>0, <1>3, <2>1, <2>2, LessInOrder
<1>7. ASSUME NEW h \in Air(t, r2) PROVE Precedes(f, h)
  <2>0. h \in Air(t, r) /\ h \in Frame
    BY <1>6 DEF Air
  <2>1. CASE \E x \in Node : \E k \in 1 .. Len(t[x]) : h = t[x][k]
    BY <1>q, <2>1
  <2>2. ASSUME NEW m \in Node, NEW k \in 1 .. Len(r2[m]), h = r2[m][k] PROVE Precedes(f, h)
    <3>1. CASE m = n
      <4>1. k \in 1 .. L - 1 /\ h = u[k]
        BY <1>2, <1>3, <2>2, <3>1
      <4>2. k + 1 \in 1 .. L /\ 1 < k + 1
        BY <1>1, <4>1
      <4>3. h = r[n][k + 1]
        BY <1>2, <4>1
      <4> QED BY <1>p, <4>2, <4>3
    <3>2. CASE m # n
      <4>1. For(h, m)
        BY <1>0, <1>3, <2>2, <3>2
      <4>2. None \notin Node
        BY DatagramAssumption
      <4>3. IsReply(f) /\ IsReply(h) => f.dst # h.dst
        BY <1>5, <2>0, <3>2, <4>1, <4>2, FrameKinds DEF For
      <4>4. ASSUME IsFragment(f), IsFragment(h), f.src = h.src PROVE FALSE
        <5>1. f.dst = f.body.to /\ h.dst = h.body.to /\ f.dst \in Node /\ h.dst \in Node
          BY <1>5, <2>0, <4>4, FragmentFacts
        <5>2. f.body = h.body
          BY <1>5, <2>0, <4>4
        <5> QED BY <1>5, <3>2, <4>1, <4>2, <5>1, <5>2 DEF For
      <4> QED BY <4>3, <4>4 DEF Precedes
    <3> QED BY <3>1, <3>2
  <2> QED BY <2>1, <2>2 DEF Air
<1> QED BY <1>5, <1>6, <1>7 DEF r2, f

(* The bus takes the first frame of a sender to those nodes of o it is for. *)
Brought(r, o, f) == [m \in Node |-> IF m \in o /\ For(f, m) THEN Append(r[m], f) ELSE r[m]]
LEMMA BroughtInOrder ==
  ASSUME NEW t, NEW r, Buffers(t, r), InOrder(t, r), NEW n \in Node, t[n] # << >>, NEW o,
         \A f, g \in Air(t, r) : IsReply(f) /\ IsReply(g) /\ f.dst = g.dst => f.src = g.src
  PROVE  LET t2 == [t EXCEPT ![n] = Tail(@)]
             r2 == Brought(r, o, Head(t[n]))
         IN  Buffers(t2, r2) /\ InOrder(t2, r2) /\ Air(t2, r2) \subseteq Air(t, r)
<1> DEFINE t2 == [t EXCEPT ![n] = Tail(@)]
           f == Head(t[n])
           r2 == Brought(r, o, f)
           u == Tail(t[n])
           L == Len(t[n])
<1>0. /\ t \in [Node -> Seq(Frame)] /\ r \in [Node -> Seq(Frame)]
      /\ \A m \in Node : \A k \in 1 .. Len(t[m]) : t[m][k].src = m
      /\ \A m \in Node : \A k \in 1 .. Len(r[m]) : For(r[m][k], m)
  BY DEF Buffers
<1>1. t[n] \in Seq(Frame) /\ L \in Nat \ {0} /\ f = t[n][1]
  BY <1>0, EmptySeq, LenProperties
<1>2. u \in Seq(Frame) /\ Len(u) = L - 1 /\ \A k \in 1 .. L - 1 : u[k] = t[n][k + 1]
  <2>1. u \in Seq(Frame) /\ Len(u) = L - 1
    BY <1>0, HeadTailProperties
  <2>2. \A k \in 1 .. Len(u) : u[k] = t[n][k + 1]
    BY <1>0, HeadTailProperties
  <2> QED BY <2>1, <2>2
<1>3. t2 \in [Node -> Seq(Frame)] /\ t2[n] = u /\ \A m \in Node : m # n => t2[m] = t[m]
  BY <1>0, <1>2
<1>4. 1 \in 1 .. L
  BY <1>1
<1>5. f \in Air(t, r) /\ f.src = n /\ f \in Frame
  BY <1>0, <1>1, <1>4, InAir
<1>6. ASSUME NEW m \in Node
      PROVE  /\ r2[m] \in Seq(Frame)
             /\ \A k \in 1 .. Len(r2[m]) :
                  \/ k \in 1 .. Len(r[m]) /\ r2[m][k] = r[m][k]
                  \/ k = Len(r[m]) + 1 /\ r2[m][k] = f /\ For(f, m)
  <2>0. r[m] \in Seq(Frame) /\ Len(r[m]) \in Nat
    BY <1>0, LenProperties
  <2>1. CASE m \in o /\ For(f, m)
    <3>0. r2[m] = Append(r[m], f)
      BY <2>1 DEF Brought
    <3> HIDE DEF r2, f
    <3>1. Append(r[m], f) \in Seq(Frame)
      BY <1>5, <2>0
    <3>2. Len(Append(r[m], f)) = Len(r[m]) + 1
      BY <1>5, <2>0
    <3>3. \A k \in 1 .. Len(r[m]) : Append(r[m], f)[k] = r[m][k]
      BY <1>5, <2>0
    <3>4. Append(r[m], f)[Len(r[m]) + 1] = f
      BY <1>5, <2>0
    <3>5. ASSUME NEW k \in 1 .. Len(r[m]) + 1 PROVE k \in 1 .. Len(r[m]) \/ k = Len(r[m]) + 1
      BY <2>0
    <3> QED BY <2>1, <3>0, <3>1, <3>2, <3>3, <3>4, <3>5
  <2>2. CASE ~(m \in o /\ For(f, m))
    <3>0. r2[m] = r[m]
      BY <2>2 DEF Brought
    <3> HIDE DEF r2
    <3> QED BY <2>0, <3>0
  <2> QED BY <2>1, <2>2
<1>7. r2 \in [Node -> Seq(Frame)]
  BY <1>6 DEF Brought
<1>o. /\ \A m \in Node : \A j, k \in 1 .. Len(r[m]) : j < k => Precedes(r[m][j], r[m][k])
      /\ \A m \in Node : \A j, k \in 1 .. Len(t[m]) : j < k => Precedes(t[m][j], t[m][k])
      /\ \A m, x \in Node : \A j \in 1 .. Len(r[m]) : \A k \in 1 .. Len(t[x]) :
           Precedes(r[m][j], t[x][k])
  BY DEF InOrder
<1>p. \A k \in 1 .. L : 1 < k => Precedes(f, t[n][k])
  BY <1>1, <1>4, <1>o
<1>q. \A m \in Node : \A j \in 1 .. Len(r[m]) : Precedes(r[m][j], f)
  BY <1>1, <1>4, <1>o
<1>s. \A m \in Node : Len(r[m]) \in Nat
  BY <1>0, LenProperties
<1>a. \A m \in Node : \A k \in 1 .. Len(t[m]) : t[m][k] \in Air(t, r)
  BY InAir
<1>b. \A m \in Node : \A k \in 1 .. Len(r[m]) : r[m][k] \in Air(t, r)
  BY InAir
<1>t. ASSUME NEW m \in Node, NEW k \in 1 .. Len(t2[m])
      PROVE  \E y \in 1 .. Len(t[m]) : /\ t2[m][k] = t[m][y]
                                       /\ y = IF m = n THEN k + 1 ELSE k
  <2>1. CASE m = n
    <3>1. k \in 1 .. L - 1 /\ t2[m][k] = u[k]
      BY <1>2, <1>3, <2>1
    <3>2. k + 1 \in 1 .. L
      BY <1>1, <3>1
    <3> QED BY <1>2, <2>1, <3>1, <3>2
  <2>2. CASE m # n
    BY <1>3, <2>2
  <2> QED BY <2>1, <2>2
<1> HIDE DEF t2, r2, f, u, L
<1>8. Buffers(t2, r2)
  <2>1. ASSUME NEW m \in Node, NEW k \in 1 .. Len(t2[m]) PROVE t2[m][k].src = m
    <3>1. PICK y \in 1 .. Len(t[m]) : t2[m][k] = t[m][y]
      BY <1>t
    <3> QED BY <1>0, <3>1
  <2>2. ASSUME NEW m \in Node, NEW k \in 1 .. Len(r2[m]) PROVE For(r2[m][k], m)
    BY <1>0, <1>6
  <2> QED BY <1>3, <1>7, <2>1, <2>2 DEF Buffers
<1>9. InOrder(t2, r2)
  <2>1. ASSUME NEW m \in Node, NEW j \in 1 .. Len(r2[m]), NEW k \in 1 .. Len(r2[m]), j < k
        PROVE  Precedes(r2[m][j], r2[m][k])
    <3>1. j \in 1 .. Len(r[m]) /\ r2[m][j] = r[m][j]
      <4>1. \/ k \in 1 .. Len(r[m])
            \/ k = Len(r[m]) + 1
        BY <1>6
      <4>2. j # Len(r[m]) + 1
        BY <1>s, <2>1, <4>1
      <4> QED BY <1>6, <4>2
    <3>2. CASE k \in 1 .. Len(r[m]) /\ r2[m][k] = r[m][k]
      BY <1>o, <2>1, <3>1, <3>2
    <3>3. CASE r2[m][k] = f
      BY <1>q, <3>1, <3>3
    <3> QED BY <1>6, <3>2, <3>3
  <2>2. ASSUME NEW m \in Node, NEW j \in 1 .. Len(t2[m]), NEW k \in 1 .. Len(t2[m]), j < k
        PROVE  Precedes(t2[m][j], t2[m][k])
    <3>1. PICK x \in 1 .. Len(t[m]) : t2[m][j] = t[m][x] /\ x = IF m = n THEN j + 1 ELSE j
      BY <1>t
    <3>2. PICK y \in 1 .. Len(t[m]) : t2[m][k] = t[m][y] /\ y = IF m = n THEN k + 1 ELSE k
      BY <1>t
    <3>3. x < y
      BY <2>2, <3>1, <3>2
    <3> QED BY <1>o, <3>1, <3>2, <3>3
  <2>3. ASSUME NEW m \in Node, NEW x \in Node, NEW j \in 1 .. Len(r2[m]), NEW k \in 1 .. Len(t2[x])
        PROVE  Precedes(r2[m][j], t2[x][k])
    <3>1. PICK y \in 1 .. Len(t[x]) : t2[x][k] = t[x][y] /\ y = IF x = n THEN k + 1 ELSE k
      BY <1>t
    <3>2. CASE j \in 1 .. Len(r[m]) /\ r2[m][j] = r[m][j]
      BY <1>o, <3>1, <3>2
    <3>3. CASE r2[m][j] = f
      <4>1. CASE x = n
        <5>1. 1 < y /\ y \in 1 .. L
          BY <1>1, <3>1, <4>1 DEF L
        <5> QED BY <1>p, <3>1, <3>3, <4>1, <5>1
      <4>2. CASE x # n
        <5>1. t[x][y].src = x /\ t[x][y] \in Air(t, r)
          BY <1>0, <1>a
        <5>2. f.src # t[x][y].src
          BY <1>5, <4>2, <5>1
        <5>3. ~(IsReply(f) /\ IsReply(t[x][y]) /\ f.dst = t[x][y].dst)
          BY <1>5, <5>1, <5>2
        <5> QED BY <3>1, <3>3, <5>2, <5>3 DEF Precedes
      <4> QED BY <4>1, <4>2
    <3> QED BY <1>6, <3>2, <3>3
  <2> QED BY <2>1, <2>2, <2>3 DEF InOrder
<1>10. Air(t2, r2) \subseteq Air(t, r)
  <2> SUFFICES ASSUME NEW h \in Air(t2, r2) PROVE h \in Air(t, r)
    OBVIOUS
  <2>1. ASSUME NEW m \in Node, NEW k \in 1 .. Len(t2[m]), h = t2[m][k] PROVE h \in Air(t, r)
    <3>1. PICK y \in 1 .. Len(t[m]) : t2[m][k] = t[m][y]
      BY <1>t
    <3> QED BY <1>a, <2>1, <3>1
  <2>2. ASSUME NEW m \in Node, NEW k \in 1 .. Len(r2[m]), h = r2[m][k] PROVE h \in Air(t, r)
    BY <1>5, <1>6, <1>b, <2>2
  <2> QED BY <2>1, <2>2 DEF Air
<1> QED BY <1>8, <1>9, <1>10 DEF t2, r2, f

----------------------------------------------------------------------------
(* What holds of the frames under way, a, the Datagram objects, d, the     *)
(* running nodes, o, the number of datagrams so far, c, and those that     *)
(* were delivered, v.                                                      *)
Object == [reserved : BOOLEAN, tbuf : Body \cup {None}, left : Nat,
           receiving : BOOLEAN, from : Node \cup {None}, rbuf : Seq(Body \X Nat)]
Being(x) == x.rbuf[1][1]

Objects(d, c) ==
  /\ d \in [Node -> Object]
  /\ \A n \in Node :
       /\ d[n].reserved => /\ d[n].tbuf \in Body /\ d[n].tbuf.by = n /\ d[n].tbuf.no <= c
                           /\ d[n].left <= d[n].tbuf.size
       /\ ~d[n].reserved => d[n].left = 0
       /\ d[n].receiving => /\ d[n].rbuf # << >> /\ d[n].from \in Node
                            /\ Being(d[n]) \in Body /\ Being(d[n]).by = d[n].from
                            /\ Being(d[n]).to = n /\ Being(d[n]).size > 1
                            /\ Being(d[n]).no <= c
       /\ ~d[n].receiving => d[n].rbuf = << >>

(* Fragments under way are of the datagram being sent, and sent already. *)
Numbered(a, c) == \A f \in a : IsFragment(f) => f.body.no <= c
Sending(a, d, o) ==
  \A f \in a : IsFragment(f) /\ f.src \in o =>
    d[f.src].reserved /\ f.body = d[f.src].tbuf /\ f.i <= f.body.size - d[f.src].left
OneBody(a) ==
  \A f, g \in a : IsFragment(f) /\ IsFragment(g) /\ f.src = g.src => f.body = g.body

(* A reply comes when all of it has been received, and one only. *)
ReplyLast(a) == \A f, g \in a : IsFragment(f) /\ IsReply(g) => f.src # g.dst
OneReplier(a) == \A f, g \in a : IsReply(f) /\ IsReply(g) /\ f.dst = g.dst => f.src = g.src
Waiting(a, d, o) ==
  \A f \in a : IsReply(f) /\ f.dst \in o => d[f.dst].reserved /\ d[f.dst].left = 0

(* Of a datagram being received the first fragment does not come again, as *)
(* its sender goes on and has nothing to send again.                       *)
PastFirst(a, d) ==
  \A m \in Node : d[m].receiving => \A f \in a : IsFragment(f) /\ f.body = Being(d[m]) => f.i # 1
NotRefused(a, n) == \A f \in a : ~(f.kind = "NAK" /\ f.dst = n)
GoesOn(a, d, o) ==
  \A m \in Node, n \in o : d[m].receiving /\ d[n].reserved /\ d[n].tbuf = Being(d[m]) =>
    d[n].left < d[n].tbuf.size /\ NotRefused(a, n)

(* Of a datagram delivered neither does it: the sender is done with it. *)
First(x) == x[1][1]
Deliveries(v, c) ==
  /\ v \in Seq(Seq(Body \X Nat))
  /\ \A k \in 1 .. Len(v) : v[k] # << >> /\ First(v[k]) \in Body /\ First(v[k]).no <= c
NotAgain(a, v) ==
  \A k \in 1 .. Len(v) : \A f \in a : IsFragment(f) /\ f.body = First(v[k]) => f.i # 1
NotBeing(d, v) ==
  \A k \in 1 .. Len(v) : \A m \in Node : d[m].receiving => Being(d[m]) # First(v[k])
DoneWith(a, d, o, v) ==
  \A k \in 1 .. Len(v) : \A n \in o : d[n].reserved /\ d[n].tbuf = First(v[k]) =>
    /\ d[n].left = 0 /\ NotRefused(a, n)
    /\ \A f \in a : IsFragment(f) /\ f.body = First(v[k]) => f.i # f.body.size
Once(v) == \A j, k \in 1 .. Len(v) : First(v[j]) = First(v[k]) => j = k

(* An acknowledgement is for what the sender has in its buffer. *)
Occurs(v, b) == \E k \in 1 .. Len(v) : \E i \in 1 .. Len(v[k]) : v[k][i][1] = b
TrueAcks(a, d, o, v) ==
  \A f \in a : f.kind = "ACK" /\ f.dst \in o => Occurs(v, d[f.dst].tbuf)

Exchange(a, d, o, c, v) ==
  /\ a \subseteq Frame /\ o \subseteq Node /\ c \in Nat
  /\ Objects(d, c)
  /\ Numbered(a, c) /\ Sending(a, d, o) /\ OneBody(a)
  /\ ReplyLast(a) /\ OneReplier(a) /\ Waiting(a, d, o)
  /\ PastFirst(a, d) /\ GoesOn(a, d, o)
  /\ Deliveries(v, c) /\ NotAgain(a, v) /\ NotBeing(d, v) /\ DoneWith(a, d, o, v) /\ Once(v)
  /\ TrueAcks(a, d, o, v)

----------------------------------------------------------------------------
(* Frames go, or alias definitions come. *)
LEMMA ExchangeThins ==
  ASSUME NEW a, NEW d, NEW o, NEW c, NEW v, Exchange(a, d, o, c, v),
         NEW b \in SUBSET Frame, \A f \in b : f \in a \/ IsMapping(f)
  PROVE  Exchange(b, d, o, c, v)
<1>0. \A f \in b : IsFragment(f) \/ IsReply(f) \/ f.kind \in {"ACK", "NAK"} => f \in a
  BY DEF IsFragment, IsReply, IsMapping, Replies
<1> USE DEF Exchange
<1>1. Numbered(b, c) /\ Sending(b, d, o)
  BY <1>0 DEF Numbered, Sending
<1>2. OneBody(b)
  BY <1>0 DEF OneBody
<1>3. ReplyLast(b) /\ OneReplier(b)
  BY <1>0 DEF ReplyLast, OneReplier
<1>4. Waiting(b, d, o) /\ PastFirst(b, d)
  BY <1>0 DEF Waiting, PastFirst
<1>5. \A n : NotRefused(a, n) => NotRefused(b, n)
  BY <1>0 DEF NotRefused
<1>6. GoesOn(b, d, o)
  BY <1>5 DEF GoesOn
<1>7. NotAgain(b, v)
  BY <1>0 DEF NotAgain
<1>8. DoneWith(b, d, o, v)
  BY <1>0, <1>5 DEF DoneWith
<1>9. TrueAcks(b, d, o, v)
  BY <1>0 DEF TrueAcks
<1> QED BY <1>1, <1>2, <1>3, <1>4, <1>6, <1>7, <1>8, <1>9

(* A node stops. *)
LEMMA ExchangeStops ==
  ASSUME NEW a, NEW d, NEW o, NEW c, NEW v, Exchange(a, d, o, c, v), NEW n \in Node
  PROVE  Exchange(a, [d EXCEPT ![n] = Reset], o \ {n}, c, v)
<1> DEFINE e == [d EXCEPT ![n] = Reset]
           p == o \ {n}
<1> USE DEF Exchange
<1>0. d \in [Node -> Object] /\ p \subseteq o /\ n \notin p /\ p \subseteq Node
  BY DEF Objects
<1>1. Reset \in Object /\ ~Reset.reserved /\ ~Reset.receiving /\ Reset.left = 0 /\ Reset.rbuf = << >>
  BY DEF Reset, Object
<1>2. e \in [Node -> Object] /\ e[n] = Reset /\ \A m \in Node : m # n => e[m] = d[m]
  BY <1>0, <1>1
<1> HIDE DEF e, p
<1>3. Objects(e, c)
  BY <1>1, <1>2 DEF Objects
<1>4. \A m \in p : e[m] = d[m] /\ m \in o
  BY <1>0, <1>2
<1>5. Sending(a, e, p)
  BY <1>4 DEF Sending
<1>6. Waiting(a, e, p)
  BY <1>4 DEF Waiting
<1>7. \A m \in Node : e[m].receiving => e[m] = d[m]
  BY <1>1, <1>2
<1>8. PastFirst(a, e) /\ NotBeing(e, v)
  BY <1>7 DEF PastFirst, NotBeing
<1>9. GoesOn(a, e, p)
  BY <1>4, <1>7 DEF GoesOn
<1>10. DoneWith(a, e, p, v)
  BY <1>4 DEF DoneWith
<1>11. TrueAcks(a, e, p, v)
  BY <1>4 DEF TrueAcks
<1> QED BY <1>0, <1>3, <1>5, <1>6, <1>8, <1>9, <1>10, <1>11 DEF e, p

(* A node starts again, when nothing of it or for it is under way. *)
LEMMA ExchangeStarts ==
  ASSUME NEW a, NEW d, NEW o, NEW c, NEW v, Exchange(a, d, o, c, v), NEW n \in Node,
         d[n] = Reset,
         \A f \in a : ~(IsFragment(f) /\ f.src = n) /\ ~(IsReply(f) /\ f.dst = n)
  PROVE  Exchange(a, d, o \cup {n}, c, v)
<1> USE DEF Exchange
<1>1. ~d[n].reserved
  BY DEF Reset
<1>2. Sending(a, d, o \cup {n})
  BY DEF Sending
<1>3. Waiting(a, d, o \cup {n})
  BY DEF Waiting
<1>4. GoesOn(a, d, o \cup {n})
  BY <1>1 DEF GoesOn
<1>5. DoneWith(a, d, o \cup {n}, v)
  BY <1>1 DEF DoneWith
<1>6. \A f \in a : f.kind = "ACK" => IsReply(f)
  BY DEF IsReply, Replies
<1>7. TrueAcks(a, d, o \cup {n}, v)
  BY <1>6 DEF TrueAcks
<1> QED BY <1>2, <1>3, <1>4, <1>5, <1>7

(* A node has a datagram to send. *)
LEMMA ExchangeSends ==
  ASSUME NEW a, NEW d, NEW o, NEW c, NEW v, Exchange(a, d, o, c, v), NEW n \in o,
         ~d[n].reserved, NEW x \in Body, x.by = n, x.no = c + 1
  PROVE  Exchange(a, [d EXCEPT ![n].reserved = TRUE, ![n].tbuf = x, ![n].left = x.size],
                  o, c + 1, v)
<1> DEFINE e == [d EXCEPT ![n].reserved = TRUE, ![n].tbuf = x, ![n].left = x.size]
<1> USE DEF Exchange
<1>0. d \in [Node -> Object] /\ n \in Node /\ c \in Nat
  BY DEF Objects
<1>1. /\ e \in [Node -> Object] /\ e[n].reserved /\ e[n].tbuf = x /\ e[n].left = x.size
      /\ e[n].receiving = d[n].receiving /\ e[n].from = d[n].from /\ e[n].rbuf = d[n].rbuf
      /\ \A m \in Node : m # n => e[m] = d[m]
  <2>1. x.size \in Nat /\ d[n] \in Object
    BY <1>0 DEF Body
  <2>2. [d[n] EXCEPT !.reserved = TRUE, !.tbuf = x, !.left = x.size] \in Object
    BY <2>1 DEF Object
  <2>3. e = [d EXCEPT ![n] = [d[n] EXCEPT !.reserved = TRUE, !.tbuf = x, !.left = x.size]]
    BY <1>0
  <2>4. e \in [Node -> Object]
    BY <1>0, <2>2, <2>3
  <2>5. e[n] = [d[n] EXCEPT !.reserved = TRUE, !.tbuf = x, !.left = x.size]
    BY <1>0, <2>3
  <2>6. \A m \in Node : m # n => e[m] = d[m]
    BY <1>0, <2>3
  <2> HIDE DEF e
  <2> QED BY <2>1, <2>4, <2>5, <2>6 DEF Object
<1> HIDE DEF e
<1>2. \A f \in a : ~(IsFragment(f) /\ f.src = n) /\ ~(IsReply(f) /\ f.dst = n)
  BY DEF Sending, Waiting
<1>3. \A m \in Node : /\ e[m].receiving = d[m].receiving /\ e[m].rbuf = d[m].rbuf
                      /\ e[m].from = d[m].from /\ Being(e[m]) = Being(d[m])
  BY <1>1 DEF Being
<1>4. Objects(e, c + 1)
  <2>1. x.size \in Nat /\ x.size <= x.size
    BY DEF Body
  <2>2. \A y : y \in Body => y.no \in Nat
    BY DatagramAssumption DEF Body
  <2>3. \A m \in Node : d[m].reserved => d[m].tbuf.no <= c + 1
    BY <1>0, <2>2 DEF Objects
  <2>4. \A m \in Node : d[m].receiving => Being(d[m]).no <= c + 1
    BY <1>0, <2>2 DEF Objects
  <2>5. ASSUME NEW m \in Node
        PROVE  /\ e[m].reserved => /\ e[m].tbuf \in Body /\ e[m].tbuf.by = m /\ e[m].tbuf.no <= c + 1
                                   /\ e[m].left <= e[m].tbuf.size
               /\ ~e[m].reserved => e[m].left = 0
    <3>1. CASE m = n
      BY <1>0, <1>1, <2>1, <3>1
    <3>2. CASE m # n
      BY <1>1, <2>3, <3>2 DEF Objects
    <3> QED BY <3>1, <3>2
  <2>6. ASSUME NEW m \in Node
        PROVE  /\ e[m].receiving => /\ e[m].rbuf # << >> /\ e[m].from \in Node
                                    /\ Being(e[m]) \in Body /\ Being(e[m]).by = e[m].from
                                    /\ Being(e[m]).to = m /\ Being(e[m]).size > 1
                                    /\ Being(e[m]).no <= c + 1
               /\ ~e[m].receiving => e[m].rbuf = << >>
    BY <1>3, <2>4 DEF Objects
  <2> QED BY <1>1, <2>5, <2>6 DEF Objects
<1>5. Numbered(a, c + 1)
  <2>1. \A f \in a : IsFragment(f) => f.body.no \in Nat
    BY DatagramAssumption, FragmentFacts DEF Body
  <2> QED BY <1>0, <2>1 DEF Numbered
<1>6. Sending(a, e, o) /\ Waiting(a, e, o)
  <2>1. \A m \in o : m # n => e[m] = d[m]
    BY <1>1
  <2>2. Sending(a, e, o)
    BY <1>2, <2>1 DEF Sending
  <2>3. Waiting(a, e, o)
    BY <1>2, <2>1 DEF Waiting
  <2> QED BY <2>2, <2>3
<1>7. PastFirst(a, e) /\ NotBeing(e, v)
  BY <1>3 DEF PastFirst, NotBeing
<1>8. GoesOn(a, e, o)
  <2> SUFFICES ASSUME NEW m \in Node, NEW k \in o, e[m].receiving, e[k].reserved, e[k].tbuf = Being(e[m])
               PROVE  e[k].left < e[k].tbuf.size /\ NotRefused(a, k)
    BY DEF GoesOn
  <2>1. d[m].receiving /\ Being(e[m]) = Being(d[m]) /\ Being(d[m]).no <= c /\ Being(d[m]) \in Body
    BY <1>3 DEF Objects
  <2>2. k # n
    BY <1>0, <1>1, <2>1
  <2> QED BY <1>1, <2>1, <2>2 DEF GoesOn
<1>9. Deliveries(v, c + 1)
  <2>1. \A y : y \in Body => y.no \in Nat
    BY DatagramAssumption DEF Body
  <2> QED BY <1>0, <2>1 DEF Deliveries
<1>10. DoneWith(a, e, o, v)
  <2> SUFFICES ASSUME NEW k \in 1 .. Len(v), NEW m \in o, e[m].reserved, e[m].tbuf = First(v[k])
               PROVE  /\ e[m].left = 0 /\ NotRefused(a, m)
                      /\ \A f \in a : IsFragment(f) /\ f.body = First(v[k]) => f.i # f.body.size
    BY DEF DoneWith
  <2>1. First(v[k]).no <= c
    BY DEF Deliveries
  <2>2. m # n
    BY <1>0, <1>1, <2>1
  <2> QED BY <1>1, <2>2 DEF DoneWith
<1>11. TrueAcks(a, e, o, v)
  <2>1. \A f \in a : f.kind = "ACK" /\ f.dst \in o => f.dst # n
    BY <1>2 DEF IsReply, Replies
  <2> QED BY <1>1, <2>1 DEF TrueAcks
<1> QED BY <1>0, <1>4, <1>5, <1>6, <1>7, <1>8, <1>9, <1>10, <1>11 DEF e

(* A node sends the next fragment, or it is spoilt. *)
LEMMA ExchangeFragments ==
  ASSUME NEW a, NEW d, NEW o, NEW c, NEW v, Exchange(a, d, o, c, v), NEW n \in o, d[n].left > 0
  PROVE  LET f == Fragment(d[n].tbuf, d[n].tbuf.size - d[n].left + 1)
             e == [d EXCEPT ![n].left = @ - 1]
         IN  /\ f \in Frame /\ f.src = n
             /\ \A h \in a : Precedes(h, f)
             /\ \A b : b \subseteq a \cup {f} => Exchange(b, e, o, c, v)
<1> DEFINE x == d[n].tbuf
           l == d[n].left
           f == Fragment(x, x.size - l + 1)
           e == [d EXCEPT ![n].left = @ - 1]
<1> USE DEF Exchange
<1>0. d \in [Node -> Object] /\ n \in Node /\ c \in Nat /\ d[n] \in Object
  BY DEF Objects
<1>1. l \in Nat /\ l > 0 /\ d[n].reserved
  BY <1>0 DEF Objects, Object
<1>2. x \in Body /\ x.by = n /\ x.no <= c /\ l <= x.size /\ x.size \in Nat
  <2>1. x \in Body /\ x.by = n /\ x.no <= c /\ l <= x.size
    BY <1>0, <1>1 DEF Objects
  <2> QED BY <2>1 DEF Body
<1>3. /\ e \in [Node -> Object] /\ e[n].left = l - 1
      /\ e[n].reserved = d[n].reserved /\ e[n].tbuf = x
      /\ e[n].receiving = d[n].receiving /\ e[n].from = d[n].from /\ e[n].rbuf = d[n].rbuf
      /\ \A m \in Node : m # n => e[m] = d[m]
  <2>1. l - 1 \in Nat
    BY <1>1
  <2>2. [d[n] EXCEPT !.left = l - 1] \in Object
    BY <1>0, <2>1 DEF Object
  <2>3. e = [d EXCEPT ![n] = [d[n] EXCEPT !.left = l - 1]]
    BY <1>0
  <2>4. e \in [Node -> Object] /\ e[n] = [d[n] EXCEPT !.left = l - 1]
        /\ \A m \in Node : m # n => e[m] = d[m]
    BY <1>0, <2>2, <2>3
  <2> HIDE DEF e, l, x
  <2>5. /\ e[n].left = l - 1 /\ e[n].reserved = d[n].reserved /\ e[n].tbuf = d[n].tbuf
        /\ e[n].receiving = d[n].receiving /\ e[n].from = d[n].from /\ e[n].rbuf = d[n].rbuf
    BY <1>0, <2>4 DEF Object
  <2> QED BY <2>4, <2>5 DEF x
<1>4. x.size - l + 1 \in 1 .. x.size
  BY <1>1, <1>2
<1>5. /\ f \in Frame /\ IsFragment(f) /\ f.src = n /\ f.body = x /\ f.i = x.size - l + 1
      /\ ~IsReply(f) /\ f.kind # "ACK" /\ f.kind # "NAK"
  <2>1. f \in Frame /\ IsFragment(f) /\ f.src = n /\ f.body = x /\ f.i = x.size - l + 1
    BY <1>2, <1>4, FragmentKind
  <2> HIDE DEF f
  <2> QED BY <2>1, FragmentFacts DEF IsFragment
<1>6. \A h \in a : IsFragment(h) /\ h.src = n => h.body = x /\ h.i <= x.size - l /\ h.i \in Nat
  <2> SUFFICES ASSUME NEW h \in a, IsFragment(h), h.src = n
               PROVE  h.body = x /\ h.i <= x.size - l /\ h.i \in Nat
    OBVIOUS
  <2>1. h.body = x /\ h.i <= x.size - l
    BY DEF Sending
  <2>2. h.i \in 1 .. h.body.size /\ h.body.size \in Nat
    BY FragmentFacts
  <2> QED BY <2>1, <2>2
<1>7. \A h \in a : ~(IsReply(h) /\ h.dst = n)
  BY <1>1 DEF Waiting
<1>8. \A m \in Node : /\ e[m].receiving = d[m].receiving /\ e[m].rbuf = d[m].rbuf
                      /\ e[m].from = d[m].from /\ Being(e[m]) = Being(d[m])
                      /\ e[m].reserved = d[m].reserved /\ e[m].tbuf = d[m].tbuf
  BY <1>3 DEF Being
<1> HIDE DEF f, e, x, l
<1>9. \A h \in a : Precedes(h, f)
  <2> SUFFICES ASSUME NEW h \in a PROVE Precedes(h, f)
    OBVIOUS
  <2>1. ASSUME IsFragment(h), h.src = n PROVE h.i < f.i
    <3>1. h.i <= x.size - l /\ h.i \in Nat
      BY <1>6, <2>1
    <3> QED BY <1>1, <1>2, <1>5, <3>1
  <2> QED BY <1>5, <2>1 DEF Precedes
<1>10. ASSUME NEW b, b \subseteq a \cup {f} PROVE Exchange(b, e, o, c, v)
  <2>0. b \subseteq Frame
    BY <1>5, <1>10
  <2>1. Objects(e, c)
    <3>1. ASSUME NEW m \in Node
          PROVE  /\ e[m].reserved => e[m].left <= e[m].tbuf.size
                 /\ ~e[m].reserved => e[m].left = 0
      <4>1. CASE m = n
        <5>1. e[n].reserved
          BY <1>1, <1>3, Zenon
        <5>2. l - 1 <= x.size
          BY <1>1, <1>2
        <5>3. e[n].left <= e[n].tbuf.size
          BY <1>3, <5>2
        <5> QED BY <4>1, <5>1, <5>3
      <4>2. CASE m # n
        BY <1>3, <4>2 DEF Objects
      <4> QED BY <4>1, <4>2
    <3> QED BY <1>3, <1>8, <3>1 DEF Objects
  <2>2. Numbered(b, c)
    BY <1>2, <1>5, <1>10 DEF Numbered
  <2>3. Sending(b, e, o)
    <3> SUFFICES ASSUME NEW h \in b, IsFragment(h), h.src \in o
                 PROVE  /\ e[h.src].reserved /\ h.body = e[h.src].tbuf
                        /\ h.i <= h.body.size - e[h.src].left
      BY DEF Sending
    <3>1. CASE h.src = n
      <4>1. h = f \/ (h.body = x /\ h.i <= x.size - l /\ h.i \in Nat)
        BY <1>6, <1>10, <3>1
      <4>2. h.body = x /\ h.i <= x.size - (l - 1)
        BY <1>1, <1>2, <1>5, <4>1
      <4> QED BY <1>1, <1>3, <3>1, <4>2
    <3>2. CASE h.src # n
      BY <1>3, <1>5, <1>10, <3>2 DEF Sending
    <3> QED BY <3>1, <3>2
  <2>4. OneBody(b)
    BY <1>5, <1>6, <1>10 DEF OneBody
  <2>5. ReplyLast(b)
    BY <1>5, <1>7, <1>10 DEF ReplyLast
  <2>6. OneReplier(b)
    BY <1>5, <1>10 DEF OneReplier
  <2>7. Waiting(b, e, o)
    BY <1>3, <1>5, <1>7, <1>10 DEF Waiting
  <2>8. PastFirst(b, e)
    <3> SUFFICES ASSUME NEW m \in Node, d[m].receiving, NEW h \in b, IsFragment(h), h.body = Being(d[m])
                 PROVE  h.i # 1
      BY <1>8 DEF PastFirst
    <3>1. CASE h \in a
      BY <3>1 DEF PastFirst
    <3>2. CASE h = f
      <4>1. l < x.size
        BY <1>1, <1>5, <3>2 DEF GoesOn, l, x
      <4> QED BY <1>1, <1>2, <1>5, <3>2, <4>1
    <3> QED BY <1>10, <3>1, <3>2
  <2>9. \A m : NotRefused(a, m) => NotRefused(b, m)
    BY <1>5, <1>10 DEF NotRefused
  <2>10. GoesOn(b, e, o)
    <3> SUFFICES ASSUME NEW m \in Node, NEW k \in o, d[m].receiving, d[k].reserved,
                        d[k].tbuf = Being(d[m])
                 PROVE  e[k].left < d[k].tbuf.size /\ NotRefused(b, k)
      BY <1>8 DEF GoesOn
    <3>1. d[k].left < d[k].tbuf.size /\ NotRefused(b, k)
      BY <2>9 DEF GoesOn
    <3>2. CASE k = n
      BY <1>1, <1>2, <1>3, <3>1, <3>2 DEF l, x
    <3>3. CASE k # n
      BY <1>3, <3>1, <3>3
    <3> QED BY <3>1, <3>2, <3>3
  <2>11. \A k \in 1 .. Len(v) : First(v[k]) # x
    BY <1>1 DEF DoneWith, l, x
  <2>12. NotAgain(b, v)
    BY <1>5, <1>10, <2>11 DEF NotAgain
  <2>13. NotBeing(e, v)
    BY <1>8 DEF NotBeing
  <2>14. DoneWith(b, e, o, v)
    <3> SUFFICES ASSUME NEW k \in 1 .. Len(v), NEW m \in o, d[m].reserved, d[m].tbuf = First(v[k])
                 PROVE  /\ e[m].left = 0 /\ NotRefused(b, m)
                        /\ \A h \in b : IsFragment(h) /\ h.body = First(v[k]) => h.i # h.body.size
      BY <1>8 DEF DoneWith
    <3>1. m # n
      BY <2>11 DEF x
    <3> QED BY <1>3, <1>5, <1>10, <2>9, <2>11, <3>1 DEF DoneWith
  <2>15. TrueAcks(b, e, o, v)
    BY <1>5, <1>8, <1>10 DEF TrueAcks
  <2> QED BY <1>0, <2>0, <2>1, <2>2, <2>3, <2>4, <2>5, <2>6, <2>7, <2>8, <2>10, <2>12, <2>13,
             <2>14, <2>15
<1> QED BY <1>5, <1>9, <1>10 DEF f, e, x, l

(* n has ended its reception. *)
Ended(d, e, n) ==
  /\ e \in [Node -> Object] /\ ~e[n].receiving /\ e[n].rbuf = << >>
  /\ \A m \in Node : m # n => e[m] = d[m]
  /\ \A m \in Node : /\ e[m].reserved = d[m].reserved /\ e[m].tbuf = d[m].tbuf
                     /\ e[m].left = d[m].left
LEMMA Ending ==
  ASSUME NEW d \in [Node -> Object], NEW n \in Node, NEW x \in Node \cup {None}, NEW e,
         \/ e = [d EXCEPT ![n].receiving = FALSE, ![n].rbuf = << >>]
         \/ e = [d EXCEPT ![n].receiving = FALSE, ![n].from = x, ![n].rbuf = << >>]
  PROVE  Ended(d, e, n)
<1>1. PICK S : S = Seq(Body \X Nat)
  OBVIOUS
<1>2. PICK z : z = << >>
  OBVIOUS
<1>3. z \in S
  BY <1>1, <1>2
<1>4. Object = [reserved : BOOLEAN, tbuf : Body \cup {None}, left : Nat,
                receiving : BOOLEAN, from : Node \cup {None}, rbuf : S]
  BY <1>1 DEF Object
<1>5. PICK y : \/ y = [d[n] EXCEPT !.receiving = FALSE, !.rbuf = z] /\ e = [d EXCEPT ![n] = y]
               \/ /\ y = [d[n] EXCEPT !.receiving = FALSE, !.from = x, !.rbuf = z]
                  /\ e = [d EXCEPT ![n] = y]
  <2>1. CASE e = [d EXCEPT ![n].receiving = FALSE, ![n].rbuf = << >>]
    BY <1>2, <2>1
  <2>2. CASE e = [d EXCEPT ![n].receiving = FALSE, ![n].from = x, ![n].rbuf = << >>]
    BY <1>2, <2>2
  <2> QED BY <2>1, <2>2
<1>6. /\ y \in Object /\ y.receiving = FALSE /\ y.rbuf = z
      /\ y.reserved = d[n].reserved /\ y.tbuf = d[n].tbuf /\ y.left = d[n].left
  <2>1. d[n] \in Object
    OBVIOUS
  <2> QED BY <1>3, <1>4, <1>5, <2>1
<1>7. e = [d EXCEPT ![n] = y]
  BY <1>5
<1>8. e \in [Node -> Object] /\ e[n] = y /\ \A m \in Node : m # n => e[m] = d[m]
  BY <1>6, <1>7
<1> QED BY <1>2, <1>6, <1>8 DEF Ended

(* A reception ends. *)
LEMMA ExchangeEnds ==
  ASSUME NEW a, NEW d, NEW o, NEW c, NEW v, Exchange(a, d, o, c, v), NEW n \in Node,
         NEW e, Ended(d, e, n)
  PROVE  Exchange(a, e, o, c, v)
<1> USE DEF Exchange
<1>0. d \in [Node -> Object] /\ d[n] \in Object
  BY DEF Objects
<1>1. /\ e \in [Node -> Object] /\ ~e[n].receiving /\ e[n].rbuf = << >>
      /\ e[n].reserved = d[n].reserved /\ e[n].tbuf = d[n].tbuf /\ e[n].left = d[n].left
      /\ \A m \in Node : m # n => e[m] = d[m]
  BY DEF Ended
<1>2. \A m \in Node : /\ e[m].reserved = d[m].reserved /\ e[m].tbuf = d[m].tbuf
                      /\ e[m].left = d[m].left
                      /\ e[m].receiving => e[m] = d[m]
                      /\ ~e[m].receiving => e[m].rbuf = << >>
  <2>1. \A m \in Node : ~d[m].receiving => d[m].rbuf = << >>
    BY DEF Objects
  <2> QED BY <1>1, <2>1
<1>3. Objects(e, c)
  BY <1>1, <1>2 DEF Objects
<1>4. Sending(a, e, o) /\ Waiting(a, e, o)
  BY <1>2 DEF Sending, Waiting
<1>5. PastFirst(a, e) /\ NotBeing(e, v)
  BY <1>2 DEF PastFirst, NotBeing
<1>6. GoesOn(a, e, o)
  BY <1>2 DEF GoesOn
<1>7. DoneWith(a, e, o, v)
  BY <1>2 DEF DoneWith
<1>8. TrueAcks(a, e, o, v)
  <2>1. \A f \in a : f.kind = "ACK" /\ f.dst \in o => e[f.dst].tbuf = d[f.dst].tbuf
    BY <1>2
  <2> QED BY <2>1 DEF TrueAcks
<1> QED BY <1>3, <1>4, <1>5, <1>6, <1>7, <1>8

(* A reply is taken: there is no other, and no fragment of the node. *)
LEMMA ReplyTaken ==
  ASSUME NEW a, NEW d, NEW o, NEW c, NEW v, Exchange(a, d, o, c, v), NEW n \in o,
         NEW f \in a, IsReply(f), f.dst = n,
         NEW b \in SUBSET a, \A h \in b : Precedes(f, h)
  PROVE  /\ \A h \in b : ~(IsFragment(h) /\ h.src = n) /\ ~(IsReply(h) /\ h.dst = n)
         /\ d[n].reserved /\ d[n].left = 0
         /\ Exchange(b, d, o, c, v)
<1>1. \A h \in b : ~(IsFragment(h) /\ h.src = n)
  BY DEF Exchange, ReplyLast
<1>2. \A h \in b : ~(IsReply(h) /\ h.dst = n)
  BY DEF Precedes
<1>3. d[n].reserved /\ d[n].left = 0
  BY DEF Exchange, Waiting
<1>4. b \in SUBSET Frame
  BY DEF Exchange
<1>5. Exchange(b, d, o, c, v)
  BY <1>4, ExchangeThins
<1> QED BY <1>1, <1>2, <1>3, <1>5

(* The buffer is freed. *)
LEMMA ExchangeFrees ==
  ASSUME NEW a, NEW d, NEW o, NEW c, NEW v, Exchange(a, d, o, c, v), NEW n \in o,
         d[n].left = 0,
         \A h \in a : ~(IsFragment(h) /\ h.src = n) /\ ~(IsReply(h) /\ h.dst = n)
  PROVE  Exchange(a, [d EXCEPT ![n].reserved = FALSE], o, c, v)
<1> DEFINE e == [d EXCEPT ![n].reserved = FALSE]
<1> USE DEF Exchange
<1>0. d \in [Node -> Object] /\ d[n] \in Object /\ n \in Node
  BY DEF Objects
<1>1. /\ e \in [Node -> Object] /\ ~e[n].reserved
      /\ e[n].tbuf = d[n].tbuf /\ e[n].left = d[n].left
      /\ e[n].receiving = d[n].receiving /\ e[n].from = d[n].from /\ e[n].rbuf = d[n].rbuf
      /\ \A m \in Node : m # n => e[m] = d[m]
  <2>1. [d[n] EXCEPT !.reserved = FALSE] \in Object
    BY <1>0 DEF Object
  <2>2. e = [d EXCEPT ![n] = [d[n] EXCEPT !.reserved = FALSE]]
    BY <1>0
  <2>3. e \in [Node -> Object] /\ e[n] = [d[n] EXCEPT !.reserved = FALSE]
        /\ \A m \in Node : m # n => e[m] = d[m]
    BY <1>0, <2>1, <2>2
  <2> HIDE DEF e
  <2> QED BY <1>0, <2>3 DEF Object
<1> HIDE DEF e
<1>2. \A m \in Node : /\ e[m].tbuf = d[m].tbuf /\ e[m].left = d[m].left
                      /\ e[m].receiving = d[m].receiving /\ e[m].from = d[m].from
                      /\ e[m].rbuf = d[m].rbuf /\ Being(e[m]) = Being(d[m])
                      /\ e[m].reserved => d[m].reserved
  BY <1>1 DEF Being
<1>3. Objects(e, c)
  <2>1. \A m \in Node : ~e[m].reserved => e[m].left = 0
    BY <1>1 DEF Objects
  <2> QED BY <1>1, <1>2, <2>1 DEF Objects
<1>4. Sending(a, e, o) /\ Waiting(a, e, o)
  <2>1. Sending(a, e, o)
    BY <1>1 DEF Sending
  <2>2. Waiting(a, e, o)
    BY <1>1 DEF Waiting
  <2> QED BY <2>1, <2>2
<1>5. PastFirst(a, e) /\ NotBeing(e, v)
  BY <1>2 DEF PastFirst, NotBeing
<1>6. GoesOn(a, e, o)
  BY <1>2 DEF GoesOn
<1>7. DoneWith(a, e, o, v)
  BY <1>2 DEF DoneWith
<1>8. TrueAcks(a, e, o, v)
  <2>1. \A f \in a : f.kind = "ACK" /\ f.dst \in o => e[f.dst].tbuf = d[f.dst].tbuf
    BY <1>2
  <2> QED BY <2>1 DEF TrueAcks
<1> QED BY <1>3, <1>4, <1>5, <1>6, <1>7, <1>8 DEF e

(* The datagram is to be sent again. *)
LEMMA ExchangeRepeats ==
  ASSUME NEW a, NEW d, NEW o, NEW c, NEW v, Exchange(a, d, o, c, v), NEW n \in o,
         d[n].reserved,
         \A h \in a : ~(IsFragment(h) /\ h.src = n) /\ ~(IsReply(h) /\ h.dst = n),
         \A m \in Node : d[m].receiving => Being(d[m]) # d[n].tbuf,
         \A k \in 1 .. Len(v) : First(v[k]) # d[n].tbuf
  PROVE  Exchange(a, [d EXCEPT ![n].left = d[n].tbuf.size], o, c, v)
<1> DEFINE e == [d EXCEPT ![n].left = d[n].tbuf.size]
           l == d[n].tbuf.size
<1> USE DEF Exchange
<1>0. d \in [Node -> Object] /\ d[n] \in Object /\ n \in Node
  BY DEF Objects
<1>1. d[n].tbuf \in Body /\ l \in Nat
  <2>1. d[n].tbuf \in Body
    BY <1>0 DEF Objects
  <2> QED BY <2>1 DEF Body
<1>2. /\ e \in [Node -> Object] /\ e[n].left = l
      /\ e[n].reserved = d[n].reserved /\ e[n].tbuf = d[n].tbuf
      /\ e[n].receiving = d[n].receiving /\ e[n].from = d[n].from /\ e[n].rbuf = d[n].rbuf
      /\ \A m \in Node : m # n => e[m] = d[m]
  <2>1. e = [d EXCEPT ![n] = [d[n] EXCEPT !.left = l]]
    BY <1>0
  <2> HIDE DEF l, e
  <2>2. [d[n] EXCEPT !.left = l] \in Object
    BY <1>0, <1>1 DEF Object
  <2>3. e \in [Node -> Object] /\ e[n] = [d[n] EXCEPT !.left = l]
        /\ \A m \in Node : m # n => e[m] = d[m]
    BY <1>0, <2>1, <2>2
  <2> QED BY <1>0, <2>3 DEF Object
<1>3. \A m \in Node : /\ e[m].reserved = d[m].reserved /\ e[m].tbuf = d[m].tbuf
                      /\ e[m].receiving = d[m].receiving /\ e[m].from = d[m].from
                      /\ e[m].rbuf = d[m].rbuf /\ Being(e[m]) = Being(d[m])
                      /\ m # n => e[m].left = d[m].left
  BY <1>2 DEF Being
<1>4. e[n].left <= e[n].tbuf.size
  BY <1>1, <1>2
<1> HIDE DEF e, l
<1>5. Objects(e, c)
  <2>1. ASSUME NEW m \in Node
        PROVE  /\ e[m].reserved => e[m].left <= e[m].tbuf.size
               /\ ~e[m].reserved => e[m].left = 0
    <3>1. CASE m = n
      BY <1>3, <1>4, <3>1
    <3>2. CASE m # n
      BY <1>2, <3>2 DEF Objects
    <3> QED BY <3>1, <3>2
  <2> QED BY <1>2, <1>3, <2>1 DEF Objects
<1>6. Sending(a, e, o) /\ Waiting(a, e, o)
  <2>1. Sending(a, e, o)
    BY <1>2 DEF Sending
  <2>2. Waiting(a, e, o)
    BY <1>2 DEF Waiting
  <2> QED BY <2>1, <2>2
<1>7. PastFirst(a, e) /\ NotBeing(e, v)
  BY <1>3 DEF PastFirst, NotBeing
<1>8. GoesOn(a, e, o)
  <2> SUFFICES ASSUME NEW m \in Node, NEW k \in o, d[m].receiving, d[k].reserved,
                      d[k].tbuf = Being(d[m])
               PROVE  e[k].left < d[k].tbuf.size /\ NotRefused(a, k)
    BY <1>3 DEF GoesOn
  <2>1. k # n
    OBVIOUS
  <2> QED BY <1>2, <2>1 DEF GoesOn
<1>9. DoneWith(a, e, o, v)
  <2> SUFFICES ASSUME NEW k \in 1 .. Len(v), NEW m \in o, d[m].reserved, d[m].tbuf = First(v[k])
               PROVE  /\ e[m].left = 0 /\ NotRefused(a, m)
                      /\ \A f \in a : IsFragment(f) /\ f.body = First(v[k]) => f.i # f.body.size
    BY <1>3 DEF DoneWith
  <2>1. m # n
    OBVIOUS
  <2> QED BY <1>2, <2>1 DEF DoneWith
<1>10. TrueAcks(a, e, o, v)
  <2>1. \A f \in a : f.kind = "ACK" /\ f.dst \in o => e[f.dst].tbuf = d[f.dst].tbuf
    BY <1>3
  <2> QED BY <2>1 DEF TrueAcks
<1> QED BY <1>5, <1>6, <1>7, <1>8, <1>9, <1>10 DEF e

(* The last fragment is taken: there is no other of its sender, which has  *)
(* nothing left to send and no reply yet, and has not been heard before.   *)
LEMMA FinalTaken ==
  ASSUME NEW a, NEW d, NEW o, NEW c, NEW v, Exchange(a, d, o, c, v),
         NEW f \in a, IsFragment(f), f.kind \in Final,
         NEW b \in SUBSET a, \A h \in b : Precedes(f, h)
  PROVE  /\ \A h \in b : ~(IsFragment(h) /\ h.src = f.src) /\ ~(IsReply(h) /\ h.dst = f.src)
         /\ f.src \in o => /\ d[f.src].reserved /\ d[f.src].left = 0 /\ d[f.src].tbuf = f.body
                           /\ \A k \in 1 .. Len(v) : First(v[k]) # f.body
<1> USE DEF Exchange
<1>1. /\ f \in Frame /\ f.i = f.body.size /\ f.body.size \in Nat \ {0} /\ f.src = f.body.by
  BY FragmentFacts
<1>2. ASSUME NEW h \in b, IsFragment(h), h.src = f.src PROVE FALSE
  <2>1. h.body = f.body
    BY <1>2 DEF OneBody
  <2>2. h.i \in 1 .. h.body.size
    BY <1>2, FragmentFacts
  <2>3. f.i < h.i
    BY <1>2 DEF Precedes
  <2> QED BY <1>1, <2>1, <2>2, <2>3
<1>3. \A h \in b : ~(IsReply(h) /\ h.dst = f.src)
  BY DEF ReplyLast
<1>4. ASSUME f.src \in o
      PROVE  /\ d[f.src].reserved /\ d[f.src].left = 0 /\ d[f.src].tbuf = f.body
             /\ \A k \in 1 .. Len(v) : First(v[k]) # f.body
  <2>1. d[f.src].reserved /\ f.body = d[f.src].tbuf /\ f.i <= f.body.size - d[f.src].left
    BY <1>4 DEF Sending
  <2>2. d[f.src].left \in Nat
    BY <1>4 DEF Objects, Object
  <2>3. d[f.src].left = 0
    BY <1>1, <2>1, <2>2
  <2>4. \A k \in 1 .. Len(v) : First(v[k]) # f.body
    BY <1>1, <1>4, <2>1 DEF DoneWith
  <2> QED BY <2>1, <2>3, <2>4
<1> QED BY <1>2, <1>3, <1>4

(* A reply to the node s, by n. *)
LEMMA ExchangeReplies ==
  ASSUME NEW a, NEW d, NEW o, NEW c, NEW v, Exchange(a, d, o, c, v), NEW n \in Node, NEW s \in Node,
         \A h \in a : ~(IsFragment(h) /\ h.src = s) /\ ~(IsReply(h) /\ h.dst = s),
         NEW kind \in Replies,
         s \in o => d[s].reserved /\ d[s].left = 0,
         s \in o /\ kind = "NAK" => /\ \A m \in Node : d[m].receiving => Being(d[m]) # d[s].tbuf
                                    /\ \A k \in 1 .. Len(v) : First(v[k]) # d[s].tbuf,
         s \in o /\ kind = "ACK" => Occurs(v, d[s].tbuf)
  PROVE  LET g == Reply(kind, n, s)
         IN  /\ g \in Frame /\ g.src = n /\ \A h \in a : Precedes(h, g)
             /\ \A b : b \subseteq a \cup {g} => Exchange(b, d, o, c, v)
<1> DEFINE g == Reply(kind, n, s)
<1> USE DEF Exchange
<1>1. /\ g \in Frame /\ IsReply(g) /\ ~IsFragment(g) /\ g.kind = kind /\ g.src = n /\ g.dst = s
  BY ReplyKind
<1> HIDE DEF g
<1>2. \A h \in a : Precedes(h, g)
  BY <1>1 DEF Precedes
<1>3. ASSUME NEW b, b \subseteq a \cup {g} PROVE Exchange(b, d, o, c, v)
  <2>1. b \subseteq Frame /\ Numbered(b, c)
    BY <1>1, <1>3 DEF Numbered
  <2>2. Sending(b, d, o)
    BY <1>1, <1>3 DEF Sending
  <2>3. OneBody(b)
    BY <1>1, <1>3 DEF OneBody
  <2>4. ReplyLast(b)
    BY <1>1, <1>3 DEF ReplyLast
  <2>5. OneReplier(b)
    BY <1>1, <1>3 DEF OneReplier
  <2>6. Waiting(b, d, o)
    BY <1>1, <1>3 DEF Waiting
  <2>7. PastFirst(b, d)
    BY <1>1, <1>3 DEF PastFirst
  <2>8. \A m : NotRefused(a, m) /\ ~(m = s /\ kind = "NAK") => NotRefused(b, m)
    BY <1>1, <1>3 DEF NotRefused
  <2>9. GoesOn(b, d, o)
    <3> SUFFICES ASSUME NEW m \in Node, NEW k \in o, d[m].receiving, d[k].reserved,
                        d[k].tbuf = Being(d[m])
                 PROVE  d[k].left < d[k].tbuf.size /\ NotRefused(b, k)
      BY DEF GoesOn
    <3>1. ~(k = s /\ kind = "NAK")
      OBVIOUS
    <3>2. d[k].left < d[k].tbuf.size /\ NotRefused(a, k)
      BY DEF GoesOn
    <3> QED BY <2>8, <3>1, <3>2
  <2>10. NotAgain(b, v)
    BY <1>1, <1>3 DEF NotAgain
  <2>11. DoneWith(b, d, o, v)
    <3> SUFFICES ASSUME NEW k \in 1 .. Len(v), NEW m \in o, d[m].reserved, d[m].tbuf = First(v[k])
                 PROVE  /\ d[m].left = 0 /\ NotRefused(b, m)
                        /\ \A h \in b : IsFragment(h) /\ h.body = First(v[k]) => h.i # h.body.size
      BY DEF DoneWith
    <3>1. ~(m = s /\ kind = "NAK")
      OBVIOUS
    <3>2. /\ d[m].left = 0 /\ NotRefused(a, m)
          /\ \A h \in a : IsFragment(h) /\ h.body = First(v[k]) => h.i # h.body.size
      BY DEF DoneWith
    <3> QED BY <1>1, <1>3, <2>8, <3>1, <3>2
  <2>12. TrueAcks(b, d, o, v)
    BY <1>1, <1>3 DEF TrueAcks
  <2> QED BY <2>1, <2>2, <2>3, <2>4, <2>5, <2>6, <2>7, <2>9, <2>10, <2>11, <2>12
<1> QED BY <1>1, <1>2, <1>3 DEF g

(* The first element of a sequence that is appended to. *)
LEMMA Appended ==
  ASSUME NEW S, NEW s \in Seq(S), NEW x \in S
  PROVE  /\ Append(s, x) \in Seq(S) /\ Append(s, x) # << >> /\ Len(Append(s, x)) = Len(s) + 1
         /\ Append(s, x)[Len(s) + 1] = x
         /\ \A k \in 1 .. Len(s) : Append(s, x)[k] = s[k]
         /\ s = << >> => Append(s, x)[1] = x
         /\ s # << >> => Append(s, x)[1] = s[1]
<1>0. Len(s) \in Nat
  BY LenProperties
<1>1. Append(s, x) \in Seq(S)
  OBVIOUS
<1>2. Len(Append(s, x)) = Len(s) + 1
  OBVIOUS
<1>3. Append(s, x)[Len(s) + 1] = x
  OBVIOUS
<1>4. \A k \in 1 .. Len(s) : Append(s, x)[k] = s[k]
  OBVIOUS
<1>5. Append(s, x) # << >>
  BY <1>0, <1>1, <1>2, EmptySeq
<1>6. ASSUME s = << >> PROVE Append(s, x)[1] = x
  <2>1. Len(s) = 0
    BY <1>6
  <2> QED BY <1>3, <2>1
<1>7. ASSUME s # << >> PROVE Append(s, x)[1] = s[1]
  <2>1. 1 \in 1 .. Len(s)
    BY <1>0, <1>7, EmptySeq
  <2> QED BY <1>4, <2>1
<1> QED BY <1>1, <1>2, <1>3, <1>4, <1>5, <1>6, <1>7

(* What a fragment that n takes is put to. *)
Fits(x, f) == IF Starts(f) THEN ~x.receiving ELSE x.receiving /\ x.from = f.src
Joined(x, f) == Append(x.rbuf, <<f.body, f.i>>)

LEMMA JoinedFirst ==
  ASSUME NEW a, NEW d, NEW o, NEW c, NEW v, Exchange(a, d, o, c, v), NEW n \in Node,
         NEW f \in a, IsFragment(f), For(f, n), Fits(d[n], f)
  PROVE  /\ Joined(d[n], f) \in Seq(Body \X Nat) /\ Joined(d[n], f) # << >>
         /\ First(Joined(d[n], f)) = IF Starts(f) THEN f.body ELSE Being(d[n])
         /\ First(Joined(d[n], f)) \in Body /\ First(Joined(d[n], f)).by = f.src
         /\ First(Joined(d[n], f)).to = n /\ First(Joined(d[n], f)).no <= c
         /\ Occurs(<<Joined(d[n], f)>>, f.body)
<1> DEFINE r == d[n].rbuf
           x == <<f.body, f.i>>
           w == Joined(d[n], f)
<1> USE DEF Exchange
<1>1. /\ f \in Frame /\ f.body \in Body /\ f.i \in Nat /\ f.src = f.body.by
      /\ f.dst = f.body.to /\ f.dst \in Node
  <2>1. /\ f.body \in Body /\ f.i \in 1 .. f.body.size /\ f.body.size \in Nat \ {0} /\ f.src = f.body.by
        /\ f.dst = f.body.to /\ f.dst \in Node
    BY FragmentFacts
  <2> QED BY <2>1
<1>2. f.body.to = n /\ f.body.no <= c
  BY <1>1, DatagramAssumption DEF For, Numbered
<1>3. r \in Seq(Body \X Nat) /\ x \in Body \X Nat
  BY <1>1 DEF Objects, Object
<1>4. x[1] = f.body
  OBVIOUS
<1>5. w = Append(r, x)
  BY DEF Joined
<1> HIDE DEF r, x, w
<1>6. /\ w \in Seq(Body \X Nat) /\ w # << >> /\ Len(w) = Len(r) + 1 /\ w[Len(r) + 1] = x
      /\ r = << >> => w[1] = x
      /\ r # << >> => w[1] = r[1]
  BY <1>3, <1>5, Appended
<1>7. Occurs(<<w>>, f.body)
  <2>0. Len(r) \in Nat
    BY <1>3, LenProperties
  <2>1. Len(r) + 1 \in 1 .. Len(w) /\ w[Len(r) + 1][1] = f.body
    BY <1>4, <1>6, <2>0
  <2>2. Len(<<w>>) = 1 /\ <<w>>[1] = w /\ 1 \in 1 .. 1
    OBVIOUS
  <2> QED BY <2>1, <2>2 DEF Occurs
<1>8. CASE Starts(f)
  <2>1. r = << >>
    BY <1>8 DEF Fits, Objects, r
  <2>2. First(w) = f.body
    BY <1>4, <1>6, <2>1 DEF First
  <2> QED BY <1>1, <1>2, <1>6, <1>7, <1>8, <2>2 DEF w
<1>9. CASE ~Starts(f)
  <2>1. d[n].receiving /\ d[n].from = f.src
    BY <1>9 DEF Fits
  <2>2. /\ r # << >> /\ Being(d[n]) \in Body /\ Being(d[n]).by = f.src
        /\ Being(d[n]).to = n /\ Being(d[n]).no <= c
    BY <2>1 DEF Objects, r
  <2>3. First(w) = Being(d[n])
    BY <1>6, <2>2 DEF First, Being, r
  <2> QED BY <1>6, <1>7, <1>9, <2>2, <2>3 DEF w
<1> QED BY <1>8, <1>9

(* n has put w together so far, of what x sends. *)
Stored(d, e, n, x, w) ==
  /\ e \in [Node -> Object] /\ e[n].receiving /\ e[n].from = x /\ e[n].rbuf = w
  /\ Being(e[n]) = First(w)
  /\ \A m \in Node : m # n => e[m] = d[m]
  /\ \A m \in Node : /\ e[m].reserved = d[m].reserved /\ e[m].tbuf = d[m].tbuf
                     /\ e[m].left = d[m].left
LEMMA Receiving ==
  ASSUME NEW a, NEW d, NEW o, NEW c, NEW v, Exchange(a, d, o, c, v), NEW n \in Node,
         NEW x \in Node, NEW w \in Seq(Body \X Nat), NEW e,
         e = [d EXCEPT ![n] = [d[n] EXCEPT !.receiving = TRUE, !.from = x, !.rbuf = w]]
  PROVE  Stored(d, e, n, x, w)
<1>0. d \in [Node -> Object] /\ d[n] \in Object
  BY DEF Objects, Exchange
<1>1. PICK S : S = Seq(Body \X Nat)
  OBVIOUS
<1>2. PICK z : z = w
  OBVIOUS
<1>3. Object = [reserved : BOOLEAN, tbuf : Body \cup {None}, left : Nat,
                receiving : BOOLEAN, from : Node \cup {None}, rbuf : S]
  BY <1>1 DEF Object
<1>4. z \in S
  BY <1>1, <1>2
<1>5. PICK y : y = [d[n] EXCEPT !.receiving = TRUE, !.from = x, !.rbuf = z]
  OBVIOUS
<1>6. y \in Object
  BY <1>0, <1>3, <1>4, <1>5
<1>7. /\ y.receiving /\ y.from = x /\ y.rbuf = z
      /\ y.reserved = d[n].reserved /\ y.tbuf = d[n].tbuf /\ y.left = d[n].left
  BY <1>0, <1>3, <1>5
<1>8. e = [d EXCEPT ![n] = y]
  BY <1>2, <1>5
<1>9. e \in [Node -> Object] /\ e[n] = y /\ \A m \in Node : m # n => e[m] = d[m]
  BY <1>0, <1>6, <1>8
<1>10. Being(e[n]) = First(w)
  BY <1>2, <1>7, <1>9 DEF Being, First
<1> QED BY <1>2, <1>7, <1>9, <1>10 DEF Stored

(* A node has put a fragment to the others. *)
LEMMA ExchangeStores ==
  ASSUME NEW a, NEW d, NEW o, NEW c, NEW v, Exchange(a, d, o, c, v), NEW n \in Node,
         NEW f \in a, IsFragment(f), f.kind \in {"FIRST", "MID"}, For(f, n), Fits(d[n], f),
         NEW b \in SUBSET a, \A h \in b : Precedes(f, h), NEW e,
         Stored(d, e, n, f.src, Joined(d[n], f))
  PROVE  Exchange(b, e, o, c, v)
<1>0. /\ Joined(d[n], f) \in Seq(Body \X Nat) /\ Joined(d[n], f) # << >>
      /\ First(Joined(d[n], f)) = IF Starts(f) THEN f.body ELSE Being(d[n])
      /\ First(Joined(d[n], f)) \in Body /\ First(Joined(d[n], f)).by = f.src
      /\ First(Joined(d[n], f)).to = n /\ First(Joined(d[n], f)).no <= c
      /\ Occurs(<<Joined(d[n], f)>>, f.body)
  BY JoinedFirst
<1>1. PICK w : w = Joined(d[n], f)
  OBVIOUS
<1>2. f \in Frame /\ a \subseteq Frame /\ b \subseteq Frame
  BY DEF Exchange
<1>3. /\ f.body \in Body /\ f.i \in 1 .. f.body.size /\ f.body.size \in Nat \ {0}
      /\ f.src = f.body.by /\ f.src \in Node /\ f.i < f.body.size
      /\ Starts(f) => f.i = 1
  BY <1>2, FragmentFacts
<1>4. /\ w \in Seq(Body \X Nat) /\ w # << >>
      /\ First(w) = IF Starts(f) THEN f.body ELSE Being(d[n])
      /\ First(w) \in Body /\ First(w).by = f.src /\ First(w).to = n /\ First(w).no <= c
  BY <1>0, <1>1
<1>5. /\ e \in [Node -> Object] /\ e[n].receiving /\ e[n].from = f.src /\ e[n].rbuf = w
      /\ Being(e[n]) = First(w)
      /\ \A m \in Node : m # n => e[m] = d[m]
      /\ \A m \in Node : /\ e[m].reserved = d[m].reserved /\ e[m].tbuf = d[m].tbuf
                         /\ e[m].left = d[m].left
  BY <1>1 DEF Stored
<1>6. Exchange(b, d, o, c, v)
  BY <1>2, ExchangeThins
<1>7. ~Starts(f) => d[n].receiving
  BY DEF Fits
<1>8. First(w).size > 1
  <2>1. CASE Starts(f)
    BY <1>3, <1>4, <2>1
  <2>2. CASE ~Starts(f)
    BY <1>4, <1>7, <2>2 DEF Exchange, Objects
  <2> QED BY <2>1, <2>2
<1>9. Objects(e, c)
  <2> SUFFICES ASSUME NEW m \in Node
               PROVE  /\ e[m].receiving => /\ e[m].rbuf # << >> /\ e[m].from \in Node
                                           /\ Being(e[m]) \in Body /\ Being(e[m]).by = e[m].from
                                           /\ Being(e[m]).to = m /\ Being(e[m]).size > 1
                                           /\ Being(e[m]).no <= c
                      /\ ~e[m].receiving => e[m].rbuf = << >>
    BY <1>5, <1>6 DEF Objects, Exchange
  <2>1. CASE m = n
    BY <1>3, <1>4, <1>5, <1>8, <2>1
  <2>2. CASE m # n
    BY <1>5, <1>6, <2>2 DEF Objects, Exchange
  <2> QED BY <2>1, <2>2
<1>10. Sending(b, e, o) /\ Waiting(b, e, o)
  BY <1>5, <1>6 DEF Exchange, Sending, Waiting
<1>11. PastFirst(b, e)
  <2> SUFFICES ASSUME NEW m \in Node, e[m].receiving, NEW h \in b, IsFragment(h),
                      h.body = Being(e[m]), h.i = 1
               PROVE  FALSE
    BY DEF PastFirst
  <2>1. CASE m = n /\ Starts(f)
    <3>1. h.src = h.body.by
      BY <1>2, FragmentFacts
    <3>2. f.i < h.i
      BY <1>4, <1>5, <2>1, <3>1 DEF Precedes
    <3> QED BY <1>3, <2>1, <3>2
  <2>2. CASE m = n /\ ~Starts(f)
    BY <1>4, <1>5, <1>6, <1>7, <2>2 DEF Exchange, PastFirst
  <2>3. CASE m # n
    BY <1>5, <1>6, <2>3 DEF Exchange, PastFirst
  <2> QED BY <2>1, <2>2, <2>3
<1>12. GoesOn(b, e, o)
  <2> SUFFICES ASSUME NEW m \in Node, NEW k \in o, e[m].receiving, d[k].reserved,
                      d[k].tbuf = Being(e[m])
               PROVE  d[k].left < d[k].tbuf.size /\ NotRefused(b, k)
    BY <1>5, <1>6 DEF GoesOn, Exchange
  <2>1. CASE m = n /\ Starts(f)
    <3>1. d[k].tbuf.by = k /\ d[k].tbuf = f.body
      BY <1>4, <1>5, <2>1 DEF Exchange, Objects
    <3>2. f.i <= f.body.size - d[k].left
      BY <1>3, <3>1 DEF Exchange, Sending
    <3>3. d[k].left \in Nat
      BY DEF Exchange, Objects, Object
    <3>4. d[k].left < d[k].tbuf.size
      BY <1>3, <2>1, <3>1, <3>2, <3>3
    <3>5. \A h \in a : ~(IsReply(h) /\ h.dst = k)
      BY <1>3, <3>1 DEF Exchange, ReplyLast
    <3>6. NotRefused(b, k)
      BY <3>5 DEF NotRefused, IsReply, Replies
    <3> QED BY <3>4, <3>6
  <2>2. CASE m = n /\ ~Starts(f)
    BY <1>4, <1>5, <1>6, <1>7, <2>2 DEF Exchange, GoesOn
  <2>3. CASE m # n
    BY <1>5, <1>6, <2>3 DEF Exchange, GoesOn
  <2> QED BY <2>1, <2>2, <2>3
<1>13. NotBeing(e, v)
  <2> SUFFICES ASSUME NEW k \in 1 .. Len(v), NEW m \in Node, e[m].receiving,
                      Being(e[m]) = First(v[k])
               PROVE  FALSE
    BY DEF NotBeing
  <2>1. CASE m = n /\ Starts(f)
    <3>1. f.body = First(v[k])
      BY <1>4, <1>5, <2>1
    <3> QED BY <1>3, <2>1, <3>1 DEF Exchange, NotAgain
  <2>2. CASE m = n /\ ~Starts(f)
    BY <1>4, <1>5, <1>7, <2>2 DEF Exchange, NotBeing
  <2>3. CASE m # n
    BY <1>5, <2>3 DEF Exchange, NotBeing
  <2> QED BY <2>1, <2>2, <2>3
<1>14. DoneWith(b, e, o, v)
  BY <1>5, <1>6 DEF Exchange, DoneWith
<1>15. TrueAcks(b, e, o, v)
  BY <1>5, <1>6 DEF Exchange, TrueAcks
<1> QED BY <1>6, <1>9, <1>10, <1>11, <1>12, <1>13, <1>14, <1>15 DEF Exchange

(* A datagram more has been delivered. *)
LEMMA OccursMore ==
  ASSUME NEW S, NEW v \in Seq(Seq(S)), NEW w \in Seq(S)
  PROVE  /\ Append(v, w) \in Seq(Seq(S)) /\ Len(Append(v, w)) = Len(v) + 1 /\ Len(v) \in Nat
         /\ Append(v, w)[Len(v) + 1] = w
         /\ \A k \in 1 .. Len(v) : Append(v, w)[k] = v[k]
         /\ \A x : Occurs(v, x) => Occurs(Append(v, w), x)
         /\ \A x : Occurs(<<w>>, x) => Occurs(Append(v, w), x)
<1>1. PICK V : V = Append(v, w)
  OBVIOUS
<1>2. PICK T : T = Seq(S)
  OBVIOUS
<1>3. v \in Seq(T) /\ w \in T
  BY <1>2
<1>4. V \in Seq(T) /\ Len(V) = Len(v) + 1 /\ V[Len(v) + 1] = w /\ \A k \in 1 .. Len(v) : V[k] = v[k]
  BY <1>1, <1>3, Appended
<1>5. Len(v) \in Nat
  BY LenProperties
<1>6. ASSUME NEW x, Occurs(v, x) PROVE Occurs(V, x)
  <2>1. PICK k \in 1 .. Len(v) : \E i \in 1 .. Len(v[k]) : v[k][i][1] = x
    BY <1>6 DEF Occurs
  <2>2. k \in 1 .. Len(V) /\ V[k] = v[k]
    BY <1>4, <1>5
  <2> QED BY <2>1, <2>2 DEF Occurs
<1>7. ASSUME NEW x, Occurs(<<w>>, x) PROVE Occurs(V, x)
  <2>1. PICK k \in 1 .. 1 : \E i \in 1 .. Len(<<w>>[k]) : <<w>>[k][i][1] = x
    BY <1>7 DEF Occurs
  <2>2. <<w>>[k] = w
    BY <2>1
  <2>3. \E i \in 1 .. Len(w) : w[i][1] = x
    BY <2>1, <2>2
  <2>4. Len(v) + 1 \in 1 .. Len(V) /\ V[Len(v) + 1] = w
    BY <1>4, <1>5
  <2> QED BY <2>3, <2>4 DEF Occurs
<1> QED BY <1>1, <1>2, <1>4, <1>5, <1>6, <1>7

LEMMA ExchangeDelivers ==
  ASSUME NEW a, NEW d, NEW o, NEW c, NEW v, Exchange(a, d, o, c, v), NEW n \in Node,
         NEW f \in a, IsFragment(f), f.kind \in Final, For(f, n), Fits(d[n], f),
         NEW b \in SUBSET a, \A h \in b : Precedes(f, h), NEW e, Ended(d, e, n)
  PROVE  /\ Exchange(b, e, o, c, Append(v, Joined(d[n], f)))
         /\ Occurs(Append(v, Joined(d[n], f)), f.body)
<1>0. /\ Joined(d[n], f) \in Seq(Body \X Nat) /\ Joined(d[n], f) # << >>
      /\ First(Joined(d[n], f)) = IF Starts(f) THEN f.body ELSE Being(d[n])
      /\ First(Joined(d[n], f)) \in Body /\ First(Joined(d[n], f)).by = f.src
      /\ First(Joined(d[n], f)).to = n /\ First(Joined(d[n], f)).no <= c
      /\ Occurs(<<Joined(d[n], f)>>, f.body)
  BY JoinedFirst
<1>a. Exchange(b, e, o, c, v)
  <2>1. Exchange(b, d, o, c, v)
    BY ExchangeThins DEF Exchange
  <2> QED BY <2>1, ExchangeEnds
<1>b. /\ ~e[n].receiving /\ \A m \in Node : m # n => e[m] = d[m]
      /\ \A m \in Node : /\ e[m].reserved = d[m].reserved /\ e[m].tbuf = d[m].tbuf
                         /\ e[m].left = d[m].left
  BY DEF Ended
<1>1. PICK w : w = Joined(d[n], f)
  OBVIOUS
<1>2. PICK V : V = Append(v, w)
  OBVIOUS
<1>3. PICK B : B = First(w)
  OBVIOUS
<1>4. /\ w \in Seq(Body \X Nat) /\ w # << >> /\ B = First(w)
      /\ B = IF Starts(f) THEN f.body ELSE Being(d[n])
      /\ B \in Body /\ B.by = f.src /\ B.to = n /\ B.no <= c /\ Occurs(<<w>>, f.body)
  BY <1>0, <1>1, <1>3
<1>5. v \in Seq(Seq(Body \X Nat))
  BY DEF Exchange, Deliveries
<1>6. /\ V \in Seq(Seq(Body \X Nat)) /\ Len(V) = Len(v) + 1 /\ Len(v) \in Nat
      /\ V[Len(v) + 1] = w
      /\ \A k \in 1 .. Len(v) : V[k] = v[k]
      /\ \A x : Occurs(v, x) => Occurs(V, x)
      /\ \A x : Occurs(<<w>>, x) => Occurs(V, x)
  BY <1>2, <1>4, <1>5, OccursMore
<1>7. \A k \in 1 .. Len(V) : \/ k \in 1 .. Len(v) /\ V[k] = v[k]
                             \/ k = Len(v) + 1 /\ V[k] = w /\ First(V[k]) = B
  <2>1. PICK L : L = Len(v)
    OBVIOUS
  <2>2. \A k \in 1 .. L + 1 : k \in 1 .. L \/ k = L + 1
    BY <1>6, <2>1
  <2>3. First(V[L + 1]) = B
    BY <1>4, <1>6, <2>1
  <2> QED BY <1>6, <2>1, <2>2, <2>3, Zenon
<1>8. /\ \A h \in b : ~(IsFragment(h) /\ h.src = f.src) /\ ~(IsReply(h) /\ h.dst = f.src)
      /\ f.src \in o => /\ d[f.src].reserved /\ d[f.src].left = 0 /\ d[f.src].tbuf = f.body
                        /\ \A k \in 1 .. Len(v) : First(v[k]) # f.body
  BY FinalTaken
<1>9. \A h \in b : IsFragment(h) => h.body # B
  <2>1. \A h \in b : IsFragment(h) => h.src = h.body.by
    BY FragmentFacts DEF Exchange
  <2> QED BY <1>4, <1>8, <2>1
<1>10. Deliveries(V, c)
  BY <1>4, <1>6, <1>7 DEF Exchange, Deliveries
<1>11. NotAgain(b, V)
  BY <1>7, <1>9, <1>a DEF Exchange, NotAgain
<1>12. NotBeing(e, V)
  <2>1. \A m \in Node : e[m].receiving => Being(e[m]) # B
    BY <1>4, <1>b DEF Exchange, Objects
  <2> QED BY <1>7, <1>a, <2>1 DEF Exchange, NotBeing
<1>13. DoneWith(b, e, o, V)
  <2> SUFFICES ASSUME NEW k \in 1 .. Len(V), NEW m \in o, e[m].reserved, e[m].tbuf = First(V[k])
               PROVE  /\ e[m].left = 0 /\ NotRefused(b, m)
                      /\ \A h \in b : IsFragment(h) /\ h.body = First(V[k]) => h.i # h.body.size
    BY DEF DoneWith
  <2>1. CASE k \in 1 .. Len(v) /\ V[k] = v[k]
    BY <1>a, <2>1 DEF Exchange, DoneWith
  <2>2. CASE First(V[k]) = B
    <3>1. m = f.src
      BY <1>4, <1>b, <2>2 DEF Exchange, Objects
    <3>2. e[m].left = 0
      BY <1>8, <1>b, <3>1 DEF Exchange
    <3>3. NotRefused(b, m)
      BY <1>8, <3>1 DEF NotRefused, IsReply, Replies
    <3> QED BY <1>9, <2>2, <3>2, <3>3
  <2> QED BY <1>7, <2>1, <2>2
<1>14. \A k \in 1 .. Len(v) : First(v[k]) # B
  <2>1. CASE Starts(f)
    <3>1. f.i = 1
      BY <2>1, FragmentFacts DEF Exchange
    <3>2. B = f.body
      BY <1>4, <2>1
    <3> QED BY <3>1, <3>2 DEF Exchange, NotAgain
  <2>2. CASE ~Starts(f)
    BY <1>4, <2>2 DEF Exchange, NotBeing, Fits
  <2> QED BY <2>1, <2>2
<1>15. Once(V)
  <2> SUFFICES ASSUME NEW j \in 1 .. Len(V), NEW k \in 1 .. Len(V), First(V[j]) = First(V[k])
               PROVE  j = k
    BY DEF Once
  <2>1. CASE j \in 1 .. Len(v) /\ V[j] = v[j] /\ k \in 1 .. Len(v) /\ V[k] = v[k]
    BY <2>1 DEF Exchange, Once
  <2>2. CASE j \in 1 .. Len(v) /\ V[j] = v[j] /\ First(V[k]) = B
    BY <1>14, <2>2
  <2>3. CASE k \in 1 .. Len(v) /\ V[k] = v[k] /\ First(V[j]) = B
    BY <1>14, <2>3
  <2> QED BY <1>7, <2>1, <2>2, <2>3
<1>16. TrueAcks(b, e, o, V)
  BY <1>6, <1>a DEF Exchange, TrueAcks
<1>17. Exchange(b, e, o, c, V)
  BY <1>10, <1>11, <1>12, <1>13, <1>15, <1>16, <1>a DEF Exchange
<1> QED BY <1>1, <1>2, <1>4, <1>6, <1>17

----------------------------------------------------------------------------
(* The invariant: the bounds, nodes that do not run, and the rest. *)
Bounds ==
  /\ hdr \in [Node -> {"OLCB", "CAN"}] /\ on \subseteq Node
  /\ count \in [send : 0 .. MaxSends, fault : 0 .. MaxFaults]
  /\ \A n \in Node : Len(tx[n]) <= TxCap
Stopped == \A n \in Node \ on : dg[n] = Reset /\ rx[n] = << >>
Acks == \A b \in acked : b \in Body /\ Occurs(delivered, b)
Traffic ==
  /\ Buffers(tx, rx) /\ InOrder(tx, rx)
  /\ Exchange(Air(tx, rx), dg, on, count.send, delivered)
DatagramInv == Bounds /\ Stopped /\ Acks /\ Traffic

LEMMA DatagramStart ==
  ASSUME Init
  PROVE  DatagramInv
<1> USE DEF Init
<1>1. TxCap \in Nat /\ MaxSends \in Nat /\ MaxFaults \in Nat
  BY DatagramAssumption
<1>2. << >> \in Seq(Frame) /\ Len(<< >>) = 0
  OBVIOUS
<1>3. Bounds
  BY <1>1, <1>2 DEF Bounds
<1>4. Stopped /\ Acks
  BY DEF Stopped, Acks
<1>5. Buffers(tx, rx)
  BY <1>2 DEF Buffers
<1>6. InOrder(tx, rx)
  BY <1>2 DEF InOrder
<1>7. Air(tx, rx) = {}
  BY <1>2 DEF Air
<1>8. Reset \in Object /\ ~Reset.reserved /\ ~Reset.receiving /\ Reset.left = 0 /\ Reset.rbuf = << >>
  BY DEF Reset, Object
<1>9. Objects(dg, 0)
  BY <1>8 DEF Objects
<1>10. delivered \in Seq(Seq(Body \X Nat)) /\ Len(delivered) = 0
  OBVIOUS
<1>11. Exchange({}, dg, Node, 0, delivered)
  <2>1. /\ Numbered({}, 0) /\ Sending({}, dg, Node) /\ OneBody({})
        /\ ReplyLast({}) /\ OneReplier({}) /\ Waiting({}, dg, Node) /\ TrueAcks({}, dg, Node, delivered)
    BY DEF Numbered, Sending, OneBody, ReplyLast, OneReplier, Waiting, TrueAcks
  <2>2. PastFirst({}, dg) /\ GoesOn({}, dg, Node)
    BY <1>8 DEF PastFirst, GoesOn
  <2>3. Deliveries(delivered, 0)
    BY <1>10 DEF Deliveries
  <2>4. NotAgain({}, delivered) /\ NotBeing(dg, delivered)
    BY <1>10 DEF NotAgain, NotBeing
  <2>5. DoneWith({}, dg, Node, delivered)
    BY <1>10 DEF DoneWith
  <2>6. Once(delivered)
    BY <1>10 DEF Once
  <2> QED BY <1>9, <2>1, <2>2, <2>3, <2>4, <2>5, <2>6 DEF Exchange
<1>12. count.send = 0
  OBVIOUS
<1>13. Exchange(Air(tx, rx), dg, on, count.send, delivered)
  <2>1. on = Node
    OBVIOUS
  <2> QED BY <1>7, <1>11, <1>12, <2>1, Zenon
<1> QED BY <1>3, <1>4, <1>5, <1>6, <1>13 DEF DatagramInv, Traffic

(* What follows for a buffer that is appended to. *)
LEMMA AppendedTo ==
  ASSUME NEW t \in [Node -> Seq(Frame)], NEW n \in Node, NEW g \in Frame,
         \A m \in Node : Len(t[m]) <= TxCap, Len(t[n]) < TxCap
  PROVE  LET t2 == [t EXCEPT ![n] = Append(@, g)]
         IN  /\ \A m \in Node : Len(t2[m]) <= TxCap
             /\ \A m \in Node : m # n => t2[m] = t[m]
<1>1. PICK u : u = Append(t[n], g)
  OBVIOUS
<1>2. PICK t2 : t2 = [t EXCEPT ![n] = u]
  OBVIOUS
<1>3. t[n] \in Seq(Frame) /\ Len(t[n]) \in Nat
  BY LenProperties
<1>4. Len(u) = Len(t[n]) + 1
  BY <1>1, <1>3
<1>5. t2[n] = u /\ \A m \in Node : m # n => t2[m] = t[m]
  BY <1>2
<1>6. TxCap \in Nat
  BY DatagramAssumption
<1>7. Len(u) <= TxCap
  BY <1>3, <1>4, <1>6
<1>8. \A m \in Node : Len(t2[m]) <= TxCap
  BY <1>5, <1>7
<1> QED BY <1>1, <1>2, <1>5, <1>8

LEMMA SendStep ==
  ASSUME DatagramInv, NEW r \in Route, r[1] \in Node, Send(r[1], r[2], r[3])
  PROVE  DatagramInv'
<1> DEFINE n == r[1]
<1>0. /\ n \in on /\ ~dg[n].reserved /\ count.send < MaxSends
      /\ UNCHANGED <<hdr, on, tx, rx, delivered, acked>>
      /\ count' = [count EXCEPT !.send = @ + 1]
  BY DEF Send, hist
<1>1. PICK x : x = [by |-> n, no |-> count.send + 1, to |-> r[2], size |-> r[3]]
  OBVIOUS
<1>2. dg' = [dg EXCEPT ![n].reserved = TRUE, ![n].tbuf = x, ![n].left = x.size]
  BY <1>1 DEF Send
<1>3. MaxSends \in Nat /\ Route \subseteq Node \X Node \X (Nat \ {0})
  BY DatagramAssumption
<1>4. r[2] \in Node /\ r[3] \in Nat \ {0}
  BY <1>3
<1>5. count.send \in Nat /\ count \in [send : 0 .. MaxSends, fault : 0 .. MaxFaults]
  BY <1>3 DEF DatagramInv, Bounds
<1>6. x \in Body /\ x.by = n /\ x.no = count.send + 1
  <2>1. count.send + 1 \in 1 .. MaxSends
    BY <1>0, <1>3, <1>5
  <2> QED BY <1>1, <1>4, <2>1 DEF Body
<1>7. count'.send = count.send + 1 /\ count' \in [send : 0 .. MaxSends, fault : 0 .. MaxFaults]
  BY <1>0, <1>3, <1>5
<1>8. PICK e : e = [dg EXCEPT ![n].reserved = TRUE, ![n].tbuf = x, ![n].left = x.size]
  OBVIOUS
<1>9. Exchange(Air(tx, rx), e, on, count.send + 1, delivered)
  BY <1>0, <1>6, <1>8, ExchangeSends DEF DatagramInv, Traffic
<1>10. dg' = e
  BY <1>2, <1>8
<1>11. \A m \in Node \ on : dg'[m] = dg[m]
  BY <1>0, <1>2 DEF DatagramInv, Traffic, Exchange, Objects
<1>12. Traffic'
  <2>1. Air(tx, rx)' = Air(tx, rx) /\ Buffers(tx, rx)' /\ InOrder(tx, rx)'
    BY <1>0 DEF DatagramInv, Traffic, Air, Buffers, InOrder
  <2>2. Exchange(Air(tx, rx), dg', on', count'.send, delivered')
    BY <1>0, <1>7, <1>9, <1>10, Zenon
  <2> QED BY <2>1, <2>2 DEF Traffic
<1>13. Bounds' /\ Stopped' /\ Acks'
  BY <1>0, <1>7, <1>11 DEF DatagramInv, Bounds, Stopped, Acks
<1> QED BY <1>12, <1>13 DEF DatagramInv

LEMMA CheckStep ==
  ASSUME DatagramInv, NEW n \in Node, Check(n)
  PROVE  DatagramInv'
<1> DEFINE x == dg[n].tbuf
           a == Air(tx, rx)
<1>0. /\ n \in on /\ dg[n].left > 0 /\ XmtReady(n)
      /\ UNCHANGED <<hdr, on, rx, count, delivered, acked>>
  BY DEF Check
<1>1. PICK f : f = Fragment(x, x.size - dg[n].left + 1)
  OBVIOUS
<1>2. \/ tx' = [tx EXCEPT ![n] = Append(@, f)]
      \/ tx' = tx
  BY <1>1 DEF Check
<1>3. PICK e : e = [dg EXCEPT ![n].left = @ - 1]
  OBVIOUS
<1>4. dg' = e
  BY <1>3 DEF Check
<1>5. Exchange(a, dg, on, count.send, delivered) /\ Buffers(tx, rx) /\ InOrder(tx, rx)
  BY DEF DatagramInv, Traffic
<1>6. /\ f \in Frame /\ f.src = n
      /\ \A h \in a : Precedes(h, f)
      /\ \A b : b \subseteq a \cup {f} => Exchange(b, e, on, count.send, delivered)
  <2>1. LET y == Fragment(x, x.size - dg[n].left + 1)
            z == [dg EXCEPT ![n].left = @ - 1]
        IN  /\ y \in Frame /\ y.src = n
            /\ \A h \in a : Precedes(h, y)
            /\ \A b : b \subseteq a \cup {y} => Exchange(b, z, on, count.send, delivered)
    BY <1>0, <1>5, ExchangeFragments
  <2> QED BY <1>1, <1>3, <2>1, Zenon
<1>7. tx \in [Node -> Seq(Frame)] /\ \A m \in Node : Len(tx[m]) <= TxCap
  BY DEF DatagramInv, Traffic, Buffers, Bounds
<1>8. /\ Buffers(tx', rx) /\ InOrder(tx', rx) /\ Air(tx', rx) \subseteq a \cup {f}
      /\ \A m \in Node : Len(tx'[m]) <= TxCap
      /\ \A m \in Node : m # n => tx'[m] = tx[m]
  <2>1. CASE tx' = [tx EXCEPT ![n] = Append(@, f)]
    <3>1. Buffers(tx', rx) /\ InOrder(tx', rx) /\ Air(tx', rx) \subseteq a \cup {f}
      BY <1>5, <1>6, <2>1, MoreInOrder
    <3>2. /\ \A m \in Node : Len(tx'[m]) <= TxCap
          /\ \A m \in Node : m # n => tx'[m] = tx[m]
      BY <1>0, <1>6, <1>7, <2>1, AppendedTo DEF XmtReady
    <3> QED BY <3>1, <3>2
  <2>2. CASE tx' = tx
    BY <1>5, <1>7, <2>2
  <2> QED BY <1>2, <2>1, <2>2
<1>9. \A m \in Node \ on : dg'[m] = dg[m]
  BY <1>0, <1>3, <1>4, <1>5 DEF Exchange, Objects
<1>10. Traffic'
  <2>1. Buffers(tx, rx)' /\ InOrder(tx, rx)'
    BY <1>0, <1>8 DEF Buffers, InOrder
  <2>2. Air(tx, rx)' = Air(tx', rx)
    BY <1>0 DEF Air
  <2>3. Exchange(Air(tx', rx), e, on, count.send, delivered)
    BY <1>6, <1>8
  <2>4. Exchange(Air(tx, rx)', dg', on', count'.send, delivered')
    BY <1>0, <1>4, <2>2, <2>3, Zenon
  <2> QED BY <2>1, <2>4 DEF Traffic
<1>11. Bounds' /\ Stopped' /\ Acks'
  BY <1>0, <1>8, <1>9 DEF DatagramInv, Bounds, Stopped, Acks
<1> QED BY <1>10, <1>11 DEF DatagramInv

(* Node n has put an alias mapping frame behind the frames it sends. *)
MapsAlias(t, n, t2) == \E g \in {AMD(n), AMR(n)} : t2 = [t EXCEPT ![n] = Append(@, g)]

(* An AMD or AMR more is under way. *)
LEMMA MappingComes ==
  ASSUME NEW t, NEW r, Buffers(t, r), InOrder(t, r), NEW n \in Node,
         NEW d, NEW o, NEW c, NEW v, Exchange(Air(t, r), d, o, c, v),
         NEW t2, MapsAlias(t, n, t2)
  PROVE  Buffers(t2, r) /\ InOrder(t2, r) /\ Exchange(Air(t2, r), d, o, c, v)
<1>1. PICK g \in {AMD(n), AMR(n)} : t2 = [t EXCEPT ![n] = Append(@, g)]
  BY DEF MapsAlias
<1>2. g \in Frame /\ ~IsReply(g) /\ ~IsFragment(g) /\ IsMapping(g) /\ g.src = n
  BY AMDKind, AMRKind
<1>3. \A h \in Air(t, r) : Precedes(h, g)
  BY <1>2 DEF Precedes
<1>5. Buffers(t2, r) /\ InOrder(t2, r) /\ Air(t2, r) \subseteq Air(t, r) \cup {g}
  <2>1. LET y == [t EXCEPT ![n] = Append(@, g)]
        IN  Buffers(y, r) /\ InOrder(y, r) /\ Air(y, r) \subseteq Air(t, r) \cup {g}
    BY <1>2, <1>3, MoreInOrder
  <2> QED BY <1>1, <2>1, Zenon
<1>6. Air(t2, r) \in SUBSET Frame /\ \A f \in Air(t2, r) : f \in Air(t, r) \/ IsMapping(f)
  BY <1>2, <1>5 DEF Air
<1>7. Exchange(Air(t2, r), d, o, c, v)
  BY <1>6, ExchangeThins
<1> QED BY <1>5, <1>7

LEMMA EnquiryStep ==
  ASSUME DatagramInv, NEW n \in Node, Enquiry(n)
  PROVE  DatagramInv'
<1>0. /\ n \in on /\ XmtReady(n) /\ count.fault < MaxFaults
      /\ tx' = [tx EXCEPT ![n] = Append(@, AMD(n))]
      /\ hdr' = [hdr EXCEPT ![n] = "CAN"]
      /\ count' = [count EXCEPT !.fault = @ + 1]
      /\ UNCHANGED <<dg, on, rx, delivered, acked>>
  BY DEF Enquiry, hist
<1>1. Exchange(Air(tx, rx), dg, on, count.send, delivered) /\ Buffers(tx, rx) /\ InOrder(tx, rx)
  BY DEF DatagramInv, Traffic
<1>a. MapsAlias(tx, n, tx')
  BY <1>0 DEF MapsAlias
<1>2. Buffers(tx', rx) /\ InOrder(tx', rx) /\ Exchange(Air(tx', rx), dg, on, count.send, delivered)
  BY <1>1, <1>a, MappingComes
<1>3. AMD(n) \in Frame /\ tx \in [Node -> Seq(Frame)] /\ \A m \in Node : Len(tx[m]) <= TxCap
  BY AMDKind DEF DatagramInv, Traffic, Buffers, Bounds
<1>4. /\ \A m \in Node : Len(tx'[m]) <= TxCap
      /\ \A m \in Node : m # n => tx'[m] = tx[m]
  BY <1>0, <1>3, AppendedTo DEF XmtReady
<1>5. MaxFaults \in Nat /\ MaxSends \in Nat
  BY DatagramAssumption
<1>6. count \in [send : 0 .. MaxSends, fault : 0 .. MaxFaults] /\ hdr \in [Node -> {"OLCB", "CAN"}]
  BY DEF DatagramInv, Bounds
<1>7. /\ count' \in [send : 0 .. MaxSends, fault : 0 .. MaxFaults] /\ count'.send = count.send
      /\ hdr' \in [Node -> {"OLCB", "CAN"}]
  BY <1>0, <1>5, <1>6
<1>8. Traffic'
  <2>1. Buffers(tx, rx)' /\ InOrder(tx, rx)'
    BY <1>0, <1>2 DEF Buffers, InOrder
  <2>2. Air(tx, rx)' = Air(tx', rx)
    BY <1>0 DEF Air
  <2>3. Exchange(Air(tx, rx)', dg', on', count'.send, delivered')
    BY <1>0, <1>2, <1>7, <2>2, Zenon
  <2> QED BY <2>1, <2>3 DEF Traffic
<1>9. Bounds' /\ Stopped' /\ Acks'
  BY <1>0, <1>4, <1>7 DEF DatagramInv, Bounds, Stopped, Acks
<1> QED BY <1>8, <1>9 DEF DatagramInv

LEMMA BusStep ==
  ASSUME DatagramInv, NEW n \in Node, Bus(n)
  PROVE  DatagramInv'
<1>0. /\ tx[n] # << >>
      /\ rx' = Brought(rx, on, Head(tx[n]))
      /\ tx' = [tx EXCEPT ![n] = Tail(@)]
      /\ UNCHANGED <<dg, hdr, on, count, delivered, acked>>
  BY DEF Bus, Brought
<1>1. Exchange(Air(tx, rx), dg, on, count.send, delivered) /\ Buffers(tx, rx) /\ InOrder(tx, rx)
  BY DEF DatagramInv, Traffic
<1>2. \A f, g \in Air(tx, rx) : IsReply(f) /\ IsReply(g) /\ f.dst = g.dst => f.src = g.src
  BY <1>1 DEF Exchange, OneReplier
<1>3. Buffers(tx', rx') /\ InOrder(tx', rx') /\ Air(tx', rx') \subseteq Air(tx, rx)
  <2>1. LET t2 == [tx EXCEPT ![n] = Tail(@)]
            r2 == Brought(rx, on, Head(tx[n]))
        IN  Buffers(t2, r2) /\ InOrder(t2, r2) /\ Air(t2, r2) \subseteq Air(tx, rx)
    BY <1>0, <1>1, <1>2, BroughtInOrder
  <2> QED BY <1>0, <2>1, Zenon
<1>4. Exchange(Air(tx', rx'), dg, on, count.send, delivered)
  <2>1. Air(tx', rx') \in SUBSET Frame
    BY DEF Air
  <2> QED BY <1>1, <1>3, <2>1, ExchangeThins
<1>5. tx \in [Node -> Seq(Frame)] /\ rx \in [Node -> Seq(Frame)] /\ TxCap \in Nat
  BY <1>1, DatagramAssumption DEF Buffers
<1>6. ASSUME NEW m \in Node PROVE Len(tx'[m]) <= TxCap
  <2>1. Len(tx[m]) <= TxCap /\ tx[m] \in Seq(Frame)
    BY <1>5 DEF DatagramInv, Bounds
  <2>2. CASE m = n
    <3>1. tx'[m] = Tail(tx[m])
      BY <1>0, <1>5, <2>2
    <3>2. Len(Tail(tx[m])) = Len(tx[m]) - 1 /\ Len(tx[m]) \in Nat
      BY <1>0, <2>1, <2>2, HeadTailProperties, LenProperties
    <3>3. Len(tx[m]) - 1 <= TxCap
      BY <1>5, <2>1, <3>2
    <3> QED BY <3>1, <3>2, <3>3
  <2>3. CASE m # n
    BY <1>0, <1>5, <2>1, <2>3
  <2> QED BY <2>2, <2>3
<1>7. Stopped'
  <2> SUFFICES ASSUME NEW m \in Node, m \notin on
               PROVE  rx'[m] = << >> /\ dg[m] = Reset
    BY <1>0 DEF Stopped
  <2>1. rx[m] = << >> /\ dg[m] = Reset
    BY DEF DatagramInv, Stopped
  <2>2. rx'[m] = rx[m]
    BY <1>0 DEF Brought
  <2> QED BY <2>1, <2>2
<1>8. Traffic'
  <2>1. Buffers(tx, rx)' /\ InOrder(tx, rx)'
    BY <1>3 DEF Buffers, InOrder
  <2>2. Air(tx, rx)' = Air(tx', rx')
    BY DEF Air
  <2>3. Exchange(Air(tx, rx)', dg', on', count'.send, delivered')
    BY <1>0, <1>4, <2>2, Zenon
  <2> QED BY <2>1, <2>3 DEF Traffic
<1>9. Bounds' /\ Acks'
  BY <1>0, <1>6 DEF DatagramInv, Bounds, Acks
<1> QED BY <1>7, <1>8, <1>9 DEF DatagramInv

(* Buffers that have lost some of their frames. *)
LEMMA Thinned ==
  ASSUME DatagramInv,
         NEW t2 \in [Node -> Seq(Frame)], NEW r2 \in [Node -> Seq(Frame)],
         \A n \in Node : Part(t2[n], tx[n]) /\ Part(r2[n], rx[n])
  PROVE  /\ Buffers(t2, r2) /\ InOrder(t2, r2)
         /\ Exchange(Air(t2, r2), dg, on, count.send, delivered)
         /\ \A n \in Node : Len(t2[n]) <= TxCap
<1>1. Exchange(Air(tx, rx), dg, on, count.send, delivered) /\ Buffers(tx, rx) /\ InOrder(tx, rx)
  BY DEF DatagramInv, Traffic
<1>2. Buffers(t2, r2) /\ InOrder(t2, r2) /\ Air(t2, r2) \subseteq Air(tx, rx)
  BY <1>1, LessInOrder
<1>3. Exchange(Air(t2, r2), dg, on, count.send, delivered)
  <2>1. Air(t2, r2) \in SUBSET Frame
    BY DEF Air
  <2> QED BY <1>1, <1>2, <2>1, ExchangeThins
<1>4. ASSUME NEW n \in Node PROVE Len(t2[n]) <= TxCap
  <2>1. PICK a \in Nat : Len(t2[n]) + a <= Len(tx[n])
    BY DEF Part, From
  <2>2. Len(t2[n]) \in Nat /\ Len(tx[n]) \in Nat
    BY <1>1, LenProperties DEF Buffers
  <2>3. Len(tx[n]) <= TxCap /\ TxCap \in Nat
    BY DatagramAssumption DEF DatagramInv, Bounds
  <2> QED BY <2>1, <2>2, <2>3
<1> QED BY <1>2, <1>3, <1>4

LEMMA LoseStep ==
  ASSUME DatagramInv, NEW n \in Node, Lose(n)
  PROVE  DatagramInv'
<1>0. /\ rx[n] # << >> /\ count.fault < MaxFaults
      /\ rx' = [rx EXCEPT ![n] = SubSeq(@, 1, Len(@) - 1)]
      /\ count' = [count EXCEPT !.fault = @ + 1]
      /\ UNCHANGED <<dg, hdr, on, tx, delivered, acked>>
  BY DEF Lose
<1>1. tx \in [Node -> Seq(Frame)] /\ rx \in [Node -> Seq(Frame)]
  BY DEF DatagramInv, Traffic, Buffers
<1>2. PICK u : u = SubSeq(rx[n], 1, Len(rx[n]) - 1)
  OBVIOUS
<1>3. u \in Seq(Frame) /\ Part(u, rx[n])
  BY <1>0, <1>1, <1>2, Parted
<1>4. rx' = [rx EXCEPT ![n] = u]
  BY <1>0, <1>1, <1>2
<1>5. rx' \in [Node -> Seq(Frame)] /\ rx'[n] = u /\ \A m \in Node : m # n => rx'[m] = rx[m]
  BY <1>1, <1>3, <1>4
<1>6. \A m \in Node : Part(tx[m], tx[m]) /\ Part(rx[m], rx[m])
  BY <1>1, Parted
<1>7. \A m \in Node : Part(rx'[m], rx[m])
  BY <1>3, <1>5, <1>6
<1>8. /\ Buffers(tx, rx') /\ InOrder(tx, rx')
      /\ Exchange(Air(tx, rx'), dg, on, count.send, delivered)
  BY <1>1, <1>5, <1>6, <1>7, Thinned
<1>9. MaxFaults \in Nat /\ MaxSends \in Nat
  BY DatagramAssumption
<1>10. count \in [send : 0 .. MaxSends, fault : 0 .. MaxFaults]
  BY DEF DatagramInv, Bounds
<1>11. count' \in [send : 0 .. MaxSends, fault : 0 .. MaxFaults] /\ count'.send = count.send
  BY <1>0, <1>9, <1>10
<1>12. Traffic'
  <2>1. Buffers(tx, rx)' /\ InOrder(tx, rx)'
    BY <1>0, <1>8 DEF Buffers, InOrder
  <2>2. Air(tx, rx)' = Air(tx, rx')
    BY <1>0 DEF Air
  <2>3. Exchange(Air(tx, rx)', dg', on', count'.send, delivered')
    BY <1>0, <1>8, <1>11, <2>2, Zenon
  <2> QED BY <2>1, <2>3 DEF Traffic
<1>13. Stopped'
  BY <1>0, <1>5 DEF DatagramInv, Stopped
<1>14. Bounds' /\ Acks'
  BY <1>0, <1>11 DEF DatagramInv, Bounds, Acks
<1> QED BY <1>12, <1>13, <1>14 DEF DatagramInv

LEMMA CrashStep ==
  ASSUME DatagramInv, NEW n \in Node, Crash(n)
  PROVE  DatagramInv'
<1>0. /\ n \in on /\ count.fault < MaxFaults /\ on' = on \ {n}
      /\ tx' = [tx EXCEPT ![n] = << >>] /\ rx' = [rx EXCEPT ![n] = << >>]
      /\ dg' = [dg EXCEPT ![n] = Reset]
      /\ count' = [count EXCEPT !.fault = @ + 1]
      /\ UNCHANGED <<hdr, delivered, acked>>
  BY DEF Crash
<1>1. tx \in [Node -> Seq(Frame)] /\ rx \in [Node -> Seq(Frame)]
  BY DEF DatagramInv, Traffic, Buffers
<1>2. \A m \in Node : /\ Part(tx[m], tx[m]) /\ Part(rx[m], rx[m])
                      /\ Part(<< >>, tx[m]) /\ Part(<< >>, rx[m])
  BY <1>1, Parted
<1>3. << >> \in Seq(Frame)
  OBVIOUS
<1>4. PICK z : z = << >>
  OBVIOUS
<1>5. /\ tx' \in [Node -> Seq(Frame)] /\ tx'[n] = z /\ \A m \in Node : m # n => tx'[m] = tx[m]
      /\ rx' \in [Node -> Seq(Frame)] /\ rx'[n] = z /\ \A m \in Node : m # n => rx'[m] = rx[m]
  <2>1. tx' = [tx EXCEPT ![n] = z] /\ rx' = [rx EXCEPT ![n] = z] /\ z \in Seq(Frame)
    BY <1>0, <1>3, <1>4
  <2> QED BY <1>1, <2>1
<1>6. \A m \in Node : Part(tx'[m], tx[m]) /\ Part(rx'[m], rx[m])
  BY <1>2, <1>4, <1>5
<1>7. /\ Buffers(tx', rx') /\ InOrder(tx', rx') /\ \A m \in Node : Len(tx'[m]) <= TxCap
      /\ Exchange(Air(tx', rx'), dg, on, count.send, delivered)
  BY <1>5, <1>6, Thinned
<1>8. Exchange(Air(tx', rx'), dg', on', count.send, delivered)
  <2>1. Exchange(Air(tx', rx'), [dg EXCEPT ![n] = Reset], on \ {n}, count.send, delivered)
    BY <1>7, ExchangeStops
  <2> QED BY <1>0, <2>1, Zenon
<1>9. MaxFaults \in Nat /\ MaxSends \in Nat
  BY DatagramAssumption
<1>10. count \in [send : 0 .. MaxSends, fault : 0 .. MaxFaults]
  BY DEF DatagramInv, Bounds
<1>11. count' \in [send : 0 .. MaxSends, fault : 0 .. MaxFaults] /\ count'.send = count.send
  BY <1>0, <1>9, <1>10
<1>12. Traffic'
  <2>1. Buffers(tx, rx)' /\ InOrder(tx, rx)'
    BY <1>7 DEF Buffers, InOrder
  <2>2. Air(tx, rx)' = Air(tx', rx')
    BY DEF Air
  <2>3. Exchange(Air(tx, rx)', dg', on', count'.send, delivered')
    BY <1>0, <1>8, <1>11, <2>2, Zenon
  <2> QED BY <2>1, <2>3 DEF Traffic
<1>13. Stopped'
  <2>1. dg \in [Node -> Object]
    BY <1>7 DEF Exchange, Objects
  <2>2. dg'[n] = Reset /\ \A m \in Node : m # n => dg'[m] = dg[m]
    BY <1>0, <2>1
  <2> QED BY <1>0, <1>4, <1>5, <2>2 DEF DatagramInv, Stopped
<1>14. Bounds' /\ Acks'
  BY <1>0, <1>7, <1>11 DEF DatagramInv, Bounds, Acks
<1> QED BY <1>12, <1>13, <1>14 DEF DatagramInv

LEMMA GiveUpStep ==
  ASSUME DatagramInv, NEW n \in Node, GiveUp(n)
  PROVE  DatagramInv'
<1>0. /\ n \in on /\ count.fault < MaxFaults /\ on' = on \ {n}
      /\ tx' = [tx EXCEPT ![n] = IF XmtReady(n) THEN Append(@, AMR(n)) ELSE @]
      /\ rx' = [rx EXCEPT ![n] = << >>]
      /\ dg' = [dg EXCEPT ![n] = Reset]
      /\ count' = [count EXCEPT !.fault = @ + 1]
      /\ UNCHANGED <<hdr, delivered, acked>>
  BY DEF GiveUp
<1>1. tx \in [Node -> Seq(Frame)] /\ rx \in [Node -> Seq(Frame)] /\ \A m \in Node : Len(tx[m]) <= TxCap
  BY DEF DatagramInv, Traffic, Buffers, Bounds
<1>2. \A m \in Node : Part(tx[m], tx[m]) /\ Part(rx[m], rx[m]) /\ Part(<< >>, rx[m])
  BY <1>1, Parted
<1>3. << >> \in Seq(Frame)
  OBVIOUS
<1>4. PICK z : z = << >>
  OBVIOUS
<1>5. rx' \in [Node -> Seq(Frame)] /\ rx'[n] = z /\ \A m \in Node : m # n => rx'[m] = rx[m]
  <2>1. rx' = [rx EXCEPT ![n] = z] /\ z \in Seq(Frame)
    BY <1>0, <1>3, <1>4
  <2> QED BY <1>1, <2>1
<1>6. \A m \in Node : Part(rx'[m], rx[m])
  BY <1>2, <1>4, <1>5
<1>7. Buffers(tx, rx') /\ InOrder(tx, rx') /\ Exchange(Air(tx, rx'), dg, on, count.send, delivered)
  BY <1>1, <1>2, <1>5, <1>6, Thinned
<1>8. Exchange(Air(tx, rx'), dg', on', count.send, delivered)
  <2>1. Exchange(Air(tx, rx'), [dg EXCEPT ![n] = Reset], on \ {n}, count.send, delivered)
    BY <1>7, ExchangeStops
  <2> QED BY <1>0, <2>1, Zenon
<1>9. /\ Buffers(tx', rx') /\ InOrder(tx', rx') /\ \A m \in Node : Len(tx'[m]) <= TxCap
      /\ Exchange(Air(tx', rx'), dg', on', count.send, delivered)
  <2>1. CASE XmtReady(n)
    <3>1. tx' = [tx EXCEPT ![n] = Append(@, AMR(n))]
      BY <1>0, <1>1, <2>1
    <3>a. MapsAlias(tx, n, tx')
      BY <3>1 DEF MapsAlias
    <3>2. /\ Buffers(tx', rx') /\ InOrder(tx', rx')
          /\ Exchange(Air(tx', rx'), dg', on', count.send, delivered)
      BY <1>7, <1>8, <3>a, MappingComes
    <3>3. \A m \in Node : Len(tx'[m]) <= TxCap
      BY <1>1, <2>1, <3>1, AMRKind, AppendedTo DEF XmtReady
    <3> QED BY <3>2, <3>3
  <2>2. CASE ~XmtReady(n)
    <3>1. tx' = tx
      BY <1>0, <1>1, <2>2
    <3> QED BY <1>1, <1>7, <1>8, <3>1
  <2> QED BY <2>1, <2>2
<1>10. MaxFaults \in Nat /\ MaxSends \in Nat
  BY DatagramAssumption
<1>11. count \in [send : 0 .. MaxSends, fault : 0 .. MaxFaults]
  BY DEF DatagramInv, Bounds
<1>12. count' \in [send : 0 .. MaxSends, fault : 0 .. MaxFaults] /\ count'.send = count.send
  BY <1>0, <1>10, <1>11
<1>13. Traffic'
  <2>1. Buffers(tx, rx)' /\ InOrder(tx, rx)'
    BY <1>9 DEF Buffers, InOrder
  <2>2. Air(tx, rx)' = Air(tx', rx')
    BY DEF Air
  <2>3. Exchange(Air(tx, rx)', dg', on', count'.send, delivered')
    BY <1>0, <1>9, <1>12, <2>2, Zenon
  <2> QED BY <2>1, <2>3 DEF Traffic
<1>14. Stopped'
  <2>1. dg \in [Node -> Object]
    BY <1>7 DEF Exchange, Objects
  <2>2. dg'[n] = Reset /\ \A m \in Node : m # n => dg'[m] = dg[m]
    BY <1>0, <2>1
  <2> QED BY <1>0, <1>4, <1>5, <2>2 DEF DatagramInv, Stopped
<1>15. Bounds' /\ Acks'
  BY <1>0, <1>9, <1>12 DEF DatagramInv, Bounds, Acks
<1> QED BY <1>13, <1>14, <1>15 DEF DatagramInv

(* Of a node of which nothing is under way the buffer is empty. *)
LEMMA QuietEmpty ==
  ASSUME DatagramInv, NEW n \in Node, Quiet(n)
  PROVE  tx[n] = << >>
<1>1. tx[n] \in Seq(Frame) /\ \A k \in 1 .. Len(tx[n]) : tx[n][k].src = n
  BY DEF DatagramInv, Traffic, Buffers
<1>2. DOMAIN tx[n] = 1 .. Len(tx[n]) /\ Len(tx[n]) \in Nat
  BY <1>1, LenProperties
<1>3. \A k \in DOMAIN tx[n] : tx[n][k].src # n
  BY DEF Quiet
<1>4. Len(tx[n]) # 0 => 1 \in 1 .. Len(tx[n])
  BY <1>2
<1>5. Len(tx[n]) = 0
  BY <1>1, <1>2, <1>3, <1>4
<1> QED BY <1>1, <1>5, EmptySeq

LEMMA RestartStep ==
  ASSUME DatagramInv, NEW n \in Node, Restart(n)
  PROVE  DatagramInv'
<1>0. /\ n \notin on /\ Quiet(n) /\ Heard(n) /\ on' = on \cup {n}
      /\ tx' = [tx EXCEPT ![n] = <<AMD(n)>>]
      /\ hdr' = [hdr EXCEPT ![n] = "OLCB"]
      /\ UNCHANGED <<dg, rx, count, delivered, acked>>
  BY DEF Restart, hist
<1>1. Exchange(Air(tx, rx), dg, on, count.send, delivered) /\ Buffers(tx, rx) /\ InOrder(tx, rx)
  BY DEF DatagramInv, Traffic
<1>2. dg[n] = Reset /\ tx[n] = << >> /\ rx[n] = << >>
  BY <1>0, QuietEmpty DEF DatagramInv, Stopped
<1>3. \A f \in Air(tx, rx) : ~(IsFragment(f) /\ f.src = n) /\ ~(IsReply(f) /\ f.dst = n)
  <2>1. ASSUME NEW m \in Node, NEW k \in 1 .. Len(tx[m])
        PROVE  tx[m][k].src # n /\ tx[m][k].dst # n
    <3>1. DOMAIN tx[m] = 1 .. Len(tx[m])
      BY <1>1, LenProperties DEF Buffers
    <3> QED BY <1>0, <3>1 DEF Quiet
  <2>2. ASSUME NEW m \in Node, NEW k \in 1 .. Len(rx[m])
        PROVE  rx[m][k].src # n /\ ~(IsReply(rx[m][k]) /\ rx[m][k].dst = n)
    <3>1. DOMAIN rx[m] = 1 .. Len(rx[m])
      BY <1>1, LenProperties DEF Buffers
    <3>2. rx[m][k].src # n
      BY <1>0, <3>1 DEF Heard
    <3>3. For(rx[m][k], m)
      BY <1>1 DEF Buffers
    <3>4. rx[n] = << >> => m # n
      <4>1. Len(<< >>) = 0
        OBVIOUS
      <4> QED BY <4>1
    <3>5. None \notin Node
      BY DatagramAssumption
    <3> QED BY <1>2, <3>2, <3>3, <3>4, <3>5 DEF For
  <2> QED BY <2>1, <2>2 DEF Air
<1>4. Exchange(Air(tx, rx), dg, on \cup {n}, count.send, delivered)
  BY <1>1, <1>2, <1>3, ExchangeStarts
<1>5. tx \in [Node -> Seq(Frame)]
  BY <1>1 DEF Buffers
<1>6. tx' = [tx EXCEPT ![n] = Append(@, AMD(n))]
  <2>1. Append(<< >>, AMD(n)) = <<AMD(n)>>
    OBVIOUS
  <2> QED BY <1>0, <1>2, <1>5, <2>1, Zenon
<1>a. MapsAlias(tx, n, tx')
  BY <1>6 DEF MapsAlias
<1>7. Buffers(tx', rx) /\ InOrder(tx', rx) /\ Exchange(Air(tx', rx), dg, on \cup {n}, count.send, delivered)
  BY <1>1, <1>4, <1>a, MappingComes
<1>8. /\ \A m \in Node : Len(tx'[m]) <= TxCap
      /\ \A m \in Node : m # n => tx'[m] = tx[m]
  <2>1. Len(tx[n]) < TxCap
    <3>1. Len(tx[n]) = 0
      BY <1>2
    <3> QED BY <3>1, DatagramAssumption
  <2>2. AMD(n) \in Frame
    BY AMDKind
  <2>3. \A m \in Node : Len(tx[m]) <= TxCap
    BY DEF DatagramInv, Bounds
  <2> QED BY <1>5, <1>6, <2>1, <2>2, <2>3, AppendedTo
<1>9. Traffic'
  <2>1. Buffers(tx, rx)' /\ InOrder(tx, rx)'
    BY <1>0, <1>7 DEF Buffers, InOrder
  <2>2. Air(tx, rx)' = Air(tx', rx)
    BY <1>0 DEF Air
  <2>3. count' = count /\ dg' = dg /\ delivered' = delivered /\ on' = on \cup {n}
    BY <1>0
  <2>4. Exchange(Air(tx, rx)', dg', on', count'.send, delivered')
    BY <1>7, <2>2, <2>3, Zenon
  <2> QED BY <2>1, <2>4 DEF Traffic
<1>10. Bounds' /\ Stopped' /\ Acks'
  <2>1. Bounds'
    BY <1>0, <1>8 DEF DatagramInv, Bounds
  <2>2. Stopped'
    BY <1>0, <1>8 DEF DatagramInv, Stopped
  <2> QED BY <1>0, <2>1, <2>2 DEF DatagramInv, Acks
<1> QED BY <1>9, <1>10 DEF DatagramInv

(* n takes a frame from its driver. *)
Taking(n, f) ==
  /\ n \in on /\ UNCHANGED <<on, count>>
  /\ f \in Air(tx, rx) /\ f \in Frame /\ For(f, n)
  /\ Air(tx, rx') \in SUBSET Air(tx, rx) /\ Air(tx, rx') \in SUBSET Frame
  /\ \A h \in Air(tx, rx') : Precedes(f, h)
  /\ Buffers(tx, rx') /\ InOrder(tx, rx')
  /\ Exchange(Air(tx, rx), dg, on, count.send, delivered)
  /\ Exchange(Air(tx, rx'), dg, on, count.send, delivered)
  /\ \A m \in Node : m # n => rx'[m] = rx[m]
LEMMA Taken ==
  ASSUME DatagramInv, NEW n \in Node, Receive(n)
  PROVE  Taking(n, Head(rx[n]))
<1>0. n \in on /\ rx[n] # << >> /\ rx' = [rx EXCEPT ![n] = Tail(@)] /\ UNCHANGED <<on, count>>
  BY DEF Receive
<1>1. Exchange(Air(tx, rx), dg, on, count.send, delivered) /\ Buffers(tx, rx) /\ InOrder(tx, rx)
  BY DEF DatagramInv, Traffic
<1>2. \A f, g \in Air(tx, rx) : IsFragment(f) /\ IsFragment(g) /\ f.src = g.src => f.body = g.body
  BY <1>1 DEF Exchange, OneBody
<1>3. /\ Buffers(tx, rx') /\ InOrder(tx, rx') /\ Air(tx, rx') \subseteq Air(tx, rx)
      /\ Head(rx[n]) \in Air(tx, rx) /\ For(Head(rx[n]), n)
      /\ \A h \in Air(tx, rx') : Precedes(Head(rx[n]), h)
  <2>1. LET r2 == [rx EXCEPT ![n] = Tail(@)]
        IN  /\ Buffers(tx, r2) /\ InOrder(tx, r2) /\ Air(tx, r2) \subseteq Air(tx, rx)
            /\ Head(rx[n]) \in Air(tx, rx) /\ For(Head(rx[n]), n)
            /\ \A h \in Air(tx, r2) : Precedes(Head(rx[n]), h)
    BY <1>0, <1>1, <1>2, TakenInOrder
  <2> QED BY <1>0, <2>1, Zenon
<1>4. Air(tx, rx') \in SUBSET Frame /\ Head(rx[n]) \in Frame
  BY <1>3 DEF Air
<1>5. Exchange(Air(tx, rx'), dg, on, count.send, delivered)
  BY <1>1, <1>3, <1>4, ExchangeThins
<1>6. \A m \in Node : m # n => rx'[m] = rx[m]
  BY <1>0, <1>1 DEF Buffers
<1> QED BY <1>0, <1>1, <1>3, <1>4, <1>5, <1>6 DEF Taking

(* ... and the invariant holds when these do. *)
LEMMA Handled ==
  ASSUME DatagramInv, NEW n \in Node, NEW f, Taking(n, f),
         \A m \in Node : m # n => tx'[m] = tx[m] /\ dg'[m] = dg[m],
         Buffers(tx', rx'), InOrder(tx', rx'),
         Exchange(Air(tx', rx'), dg', on, count.send, delivered'),
         hdr' \in [Node -> {"OLCB", "CAN"}], \A m \in Node : Len(tx'[m]) <= TxCap,
         Acks'
  PROVE  DatagramInv'
<1>1. Traffic'
  <2>1. Buffers(tx, rx)' /\ InOrder(tx, rx)'
    BY DEF Buffers, InOrder
  <2>2. Air(tx, rx)' = Air(tx', rx')
    BY DEF Air
  <2>3. on' = on /\ count' = count
    BY DEF Taking
  <2>4. Exchange(Air(tx, rx)', dg', on', count'.send, delivered')
    BY <2>2, <2>3, Zenon
  <2> QED BY <2>1, <2>4 DEF Traffic
<1>2. Bounds'
  BY DEF DatagramInv, Bounds, Taking
<1>3. Stopped'
  BY DEF DatagramInv, Stopped, Taking
<1> QED BY <1>1, <1>2, <1>3 DEF DatagramInv

(* With nothing queued: *)
LEMMA HandledSilently ==
  ASSUME DatagramInv, NEW n \in Node, NEW f, Taking(n, f), UNCHANGED <<tx, hdr>>,
         \A m \in Node : m # n => dg'[m] = dg[m],
         Exchange(Air(tx, rx'), dg', on, count.send, delivered'), Acks'
  PROVE  DatagramInv'
<1>1. tx' = tx /\ hdr' = hdr
  OBVIOUS
<1>2. Buffers(tx', rx') /\ InOrder(tx', rx')
  BY <1>1 DEF Taking
<1>3. Exchange(Air(tx', rx'), dg', on, count.send, delivered')
  BY <1>1, Zenon
<1>4. hdr' \in [Node -> {"OLCB", "CAN"}] /\ \A m \in Node : Len(tx'[m]) <= TxCap
  BY <1>1 DEF DatagramInv, Bounds
<1> QED BY <1>1, <1>2, <1>3, <1>4, Handled

LEMMA HearMappingStep ==
  ASSUME DatagramInv, NEW n \in Node, NEW f, Taking(n, f), HearMapping(n, f)
  PROVE  DatagramInv'
<1>0. /\ dg' = IF dg[n].receiving /\ dg[n].from = f.src
               THEN [dg EXCEPT ![n].receiving = FALSE, ![n].rbuf = << >>] ELSE dg
      /\ UNCHANGED <<hdr, tx, delivered, acked>>
  BY DEF HearMapping, hist
<1>1. Exchange(Air(tx, rx'), dg, on, count.send, delivered) /\ dg \in [Node -> Object]
  BY DEF Taking, Exchange, Objects
<1>2. CASE dg' = dg
  <2>1. Exchange(Air(tx, rx'), dg', on, count.send, delivered')
    BY <1>0, <1>1, <1>2
  <2>2. Acks'
    BY <1>0 DEF DatagramInv, Acks
  <2> QED BY <1>0, <1>2, <2>1, <2>2, HandledSilently
<1>3. CASE dg' = [dg EXCEPT ![n].receiving = FALSE, ![n].rbuf = << >>]
  <2>1. PICK e : e = [dg EXCEPT ![n].receiving = FALSE, ![n].rbuf = << >>]
    OBVIOUS
  <2>2. Ended(dg, e, n)
    BY <1>1, <2>1, Ending
  <2>3. Exchange(Air(tx, rx'), e, on, count.send, delivered)
    BY <1>1, <2>2, ExchangeEnds
  <2>4. dg' = e
    BY <1>3, <2>1
  <2>5. Exchange(Air(tx, rx'), dg', on, count.send, delivered')
    BY <1>0, <2>3, <2>4, Zenon
  <2>6. Acks'
    BY <1>0 DEF DatagramInv, Acks
  <2>7. \A m \in Node : m # n => dg'[m] = dg[m]
    BY <2>2, <2>4 DEF Ended
  <2> QED BY <1>0, <2>5, <2>6, <2>7, HandledSilently
<1> QED BY <1>0, <1>2, <1>3

(* A reply is for the node that hears it, and it is the only one. *)
LEMMA ReplyHeard ==
  ASSUME DatagramInv, NEW n \in Node, NEW f, Taking(n, f), IsReply(f)
  PROVE  /\ f.dst = n
         /\ \A h \in Air(tx, rx') : ~(IsFragment(h) /\ h.src = n) /\ ~(IsReply(h) /\ h.dst = n)
         /\ dg[n].reserved /\ dg[n].left = 0 /\ dg[n].tbuf \in Body
<1>1. f.dst = n
  <2>1. None \notin Node
    BY DatagramAssumption
  <2> QED BY <2>1, FrameKinds DEF Taking, For
<1>2. PICK b : b = Air(tx, rx')
  OBVIOUS
<1>3. /\ \A h \in b : ~(IsFragment(h) /\ h.src = n) /\ ~(IsReply(h) /\ h.dst = n)
      /\ dg[n].reserved /\ dg[n].left = 0
  <2>1. /\ Exchange(Air(tx, rx), dg, on, count.send, delivered) /\ n \in on
        /\ f \in Air(tx, rx) /\ b \in SUBSET Air(tx, rx) /\ \A h \in b : Precedes(f, h)
    BY <1>2 DEF Taking
  <2> QED BY <1>1, <2>1, ReplyTaken
<1>4. dg[n].tbuf \in Body
  BY <1>3 DEF Taking, Exchange, Objects
<1> QED BY <1>1, <1>2, <1>3, <1>4

LEMMA FreeStep ==
  ASSUME DatagramInv, NEW n \in Node, NEW f, Taking(n, f), HearAck(n, f) \/ HearReject(n, f)
  PROVE  DatagramInv'
<1>0. /\ dg' = [dg EXCEPT ![n].reserved = FALSE]
      /\ UNCHANGED <<hdr, tx, delivered>>
      /\ IsReply(f)
      /\ acked' = acked \/ (f.kind = "ACK" /\ acked' = acked \cup {dg[n].tbuf})
  BY DEF HearAck, HearReject, hist, IsReply, Replies
<1>1. /\ f.dst = n /\ n \in on
      /\ \A h \in Air(tx, rx') : ~(IsFragment(h) /\ h.src = n) /\ ~(IsReply(h) /\ h.dst = n)
      /\ dg[n].reserved /\ dg[n].left = 0 /\ dg[n].tbuf \in Body
  BY <1>0, ReplyHeard DEF Taking
<1>2. PICK b : b = Air(tx, rx')
  OBVIOUS
<1>3. PICK e : e = [dg EXCEPT ![n].reserved = FALSE]
  OBVIOUS
<1>4. Exchange(b, e, on, count.send, delivered)
  <2>1. /\ Exchange(b, dg, on, count.send, delivered) /\ n \in on /\ dg[n].left = 0
        /\ \A h \in b : ~(IsFragment(h) /\ h.src = n) /\ ~(IsReply(h) /\ h.dst = n)
    BY <1>1, <1>2 DEF Taking
  <2>2. Exchange(b, [dg EXCEPT ![n].reserved = FALSE], on, count.send, delivered)
    BY <2>1, ExchangeFrees
  <2> QED BY <1>3, <2>2, Zenon
<1>5. Exchange(Air(tx, rx'), dg', on, count.send, delivered')
  BY <1>0, <1>2, <1>3, <1>4, Zenon
<1>6. \A m \in Node : m # n => dg'[m] = dg[m]
  BY <1>0 DEF Taking, Exchange, Objects
<1>7. Acks'
  <2>1. f.kind = "ACK" => Occurs(delivered, dg[n].tbuf)
    BY <1>1 DEF Taking, Exchange, TrueAcks
  <2> QED BY <1>0, <1>1, <2>1 DEF DatagramInv, Acks
<1> QED BY <1>0, <1>5, <1>6, <1>7, HandledSilently

LEMMA HearNakStep ==
  ASSUME DatagramInv, NEW n \in Node, NEW f, Taking(n, f), HearNak(n, f)
  PROVE  DatagramInv'
<1>0. /\ dg' = [dg EXCEPT ![n].left = dg[n].tbuf.size]
      /\ UNCHANGED <<hdr, tx, delivered, acked>>
      /\ IsReply(f) /\ f.kind = "NAK"
  BY DEF HearNak, hist, IsReply, Replies
<1>1. /\ f.dst = n /\ n \in on
      /\ \A h \in Air(tx, rx') : ~(IsFragment(h) /\ h.src = n) /\ ~(IsReply(h) /\ h.dst = n)
      /\ dg[n].reserved /\ dg[n].left = 0 /\ dg[n].tbuf \in Body
  BY <1>0, ReplyHeard DEF Taking
<1>2. PICK b : b = Air(tx, rx')
  OBVIOUS
<1>3. PICK e : e = [dg EXCEPT ![n].left = dg[n].tbuf.size]
  OBVIOUS
<1>4. ~NotRefused(Air(tx, rx), n)
  BY <1>0, <1>1 DEF NotRefused, Taking
<1>5. \A m \in Node : dg[m].receiving => Being(dg[m]) # dg[n].tbuf
  BY <1>1, <1>4 DEF Taking, Exchange, GoesOn
<1>6. \A k \in 1 .. Len(delivered) : First(delivered[k]) # dg[n].tbuf
  BY <1>1, <1>4 DEF Taking, Exchange, DoneWith
<1>7. Exchange(b, e, on, count.send, delivered)
  <2>1. /\ Exchange(b, dg, on, count.send, delivered) /\ n \in on /\ dg[n].reserved
        /\ \A h \in b : ~(IsFragment(h) /\ h.src = n) /\ ~(IsReply(h) /\ h.dst = n)
    BY <1>1, <1>2 DEF Taking
  <2>2. Exchange(b, [dg EXCEPT ![n].left = dg[n].tbuf.size], on, count.send, delivered)
    BY <1>5, <1>6, <2>1, ExchangeRepeats
  <2> QED BY <1>3, <2>2, Zenon
<1>8. Exchange(Air(tx, rx'), dg', on, count.send, delivered')
  BY <1>0, <1>2, <1>3, <1>7, Zenon
<1>9. \A m \in Node : m # n => dg'[m] = dg[m]
  BY <1>0 DEF Taking, Exchange, Objects
<1>10. Acks'
  BY <1>0 DEF DatagramInv, Acks
<1> QED BY <1>0, <1>8, <1>9, <1>10, HandledSilently

(* A reply is queued. *)
LEMMA Replied ==
  ASSUME DatagramInv, NEW n \in Node, NEW r2, Buffers(tx, r2), InOrder(tx, r2),
         NEW g \in Frame, g.src = n, \A h \in Air(tx, r2) : Precedes(h, g), Queue(n, g)
  PROVE  /\ Buffers(tx', r2) /\ InOrder(tx', r2) /\ Air(tx', r2) \subseteq Air(tx, r2) \cup {g}
         /\ \A m \in Node : m # n => tx'[m] = tx[m]
         /\ hdr' \in [Node -> {"OLCB", "CAN"}] /\ \A m \in Node : Len(tx'[m]) <= TxCap
<1>0. /\ Len(tx[n]) < TxCap /\ tx' = [tx EXCEPT ![n] = Append(@, g)]
      /\ hdr' = [hdr EXCEPT ![n] = "OLCB"]
  BY DEF Queue, XmtReady
<1>1. tx \in [Node -> Seq(Frame)] /\ \A m \in Node : Len(tx[m]) <= TxCap
  BY DEF DatagramInv, Bounds, Traffic, Buffers
<1>2. Buffers(tx', r2) /\ InOrder(tx', r2) /\ Air(tx', r2) \subseteq Air(tx, r2) \cup {g}
  <2>1. LET y == [tx EXCEPT ![n] = Append(@, g)]
        IN  Buffers(y, r2) /\ InOrder(y, r2) /\ Air(y, r2) \subseteq Air(tx, r2) \cup {g}
    BY MoreInOrder
  <2> QED BY <1>0, <2>1, Zenon
<1>3. (\A m \in Node : m # n => tx'[m] = tx[m]) /\ \A m \in Node : Len(tx'[m]) <= TxCap
  BY <1>0, <1>1, AppendedTo
<1>4. hdr' \in [Node -> {"OLCB", "CAN"}]
  BY <1>0 DEF DatagramInv, Bounds
<1> QED BY <1>2, <1>3, <1>4

(* The last fragment is taken and answered. *)
LEMMA HandledWithReply ==
  ASSUME DatagramInv, NEW n \in Node, NEW f, Taking(n, f), IsFragment(f), f.kind \in Final,
         NEW kind \in Replies, Queue(n, Reply(kind, n, f.src)),
         NEW e, NEW v, dg' = e, delivered' = v,
         Exchange(Air(tx, rx'), e, on, count.send, v), Acks',
         \A m \in Node : m # n => e[m] = dg[m],
         \A m \in Node : /\ e[m].reserved = dg[m].reserved /\ e[m].tbuf = dg[m].tbuf
                         /\ e[m].left = dg[m].left,
         kind = "NAK" => v = delivered /\ \A m \in Node : e[m].receiving => Being(e[m]) # f.body,
         kind = "ACK" => Occurs(v, f.body)
  PROVE  DatagramInv'
<1>0. f.src \in Node
  BY FrameKinds DEF Taking
<1>1. PICK b : b = Air(tx, rx')
  OBVIOUS
<1>2. PICK s : s = f.src
  OBVIOUS
<1>3. /\ \A h \in b : ~(IsFragment(h) /\ h.src = s) /\ ~(IsReply(h) /\ h.dst = s)
      /\ s \in on => /\ dg[s].reserved /\ dg[s].left = 0 /\ dg[s].tbuf = f.body
                     /\ \A k \in 1 .. Len(delivered) : First(delivered[k]) # f.body
  <2>1. /\ Exchange(Air(tx, rx), dg, on, count.send, delivered)
        /\ f \in Air(tx, rx) /\ b \in SUBSET Air(tx, rx) /\ \A h \in b : Precedes(f, h)
    BY <1>1 DEF Taking
  <2>2. /\ \A h \in b : ~(IsFragment(h) /\ h.src = f.src) /\ ~(IsReply(h) /\ h.dst = f.src)
        /\ f.src \in on => /\ dg[f.src].reserved /\ dg[f.src].left = 0 /\ dg[f.src].tbuf = f.body
                           /\ \A k \in 1 .. Len(delivered) : First(delivered[k]) # f.body
    BY <2>1, FinalTaken
  <2> QED BY <1>2, <2>2, Zenon
<1>4. s \in on => e[s].reserved /\ e[s].left = 0 /\ e[s].tbuf = f.body
  BY <1>0, <1>2, <1>3
<1>5. s \in on /\ kind = "NAK" => /\ \A m \in Node : e[m].receiving => Being(e[m]) # e[s].tbuf
                                  /\ \A k \in 1 .. Len(v) : First(v[k]) # e[s].tbuf
  BY <1>3, <1>4
<1>6. s \in on /\ kind = "ACK" => Occurs(v, e[s].tbuf)
  BY <1>4
<1>7. PICK g : g = Reply(kind, n, s)
  OBVIOUS
<1>8. Exchange(b, e, on, count.send, v) /\ s \in Node
  BY <1>0, <1>1, <1>2
<1>9. /\ g \in Frame /\ g.src = n /\ \A h \in b : Precedes(h, g)
      /\ \A x : x \subseteq b \cup {g} => Exchange(x, e, on, count.send, v)
  <2>1. LET y == Reply(kind, n, s)
        IN  /\ y \in Frame /\ y.src = n /\ \A h \in b : Precedes(h, y)
            /\ \A x : x \subseteq b \cup {y} => Exchange(x, e, on, count.send, v)
    BY <1>3, <1>4, <1>5, <1>6, <1>8, ExchangeReplies
  <2> QED BY <1>7, <2>1, Zenon
<1>10. Queue(n, g)
  BY <1>2, <1>7, Zenon
<1>11. Buffers(tx, rx') /\ InOrder(tx, rx') /\ \A h \in Air(tx, rx') : Precedes(h, g)
  BY <1>1, <1>9 DEF Taking
<1>12. /\ Buffers(tx', rx') /\ InOrder(tx', rx') /\ Air(tx', rx') \subseteq Air(tx, rx') \cup {g}
       /\ \A m \in Node : m # n => tx'[m] = tx[m]
       /\ hdr' \in [Node -> {"OLCB", "CAN"}] /\ \A m \in Node : Len(tx'[m]) <= TxCap
  BY <1>9, <1>10, <1>11, Replied
<1>13. Exchange(Air(tx', rx'), e, on, count.send, v)
  BY <1>1, <1>9, <1>12
<1>14. Exchange(Air(tx', rx'), dg', on, count.send, delivered')
  BY <1>13, Zenon
<1>15. \A m \in Node : m # n => tx'[m] = tx[m] /\ dg'[m] = dg[m]
  BY <1>12
<1> QED BY <1>12, <1>14, <1>15, Handled

LEMMA RefuseStep ==
  ASSUME DatagramInv, NEW n \in Node, NEW f, Taking(n, f), IsFragment(f), Refuse(n, f)
  PROVE  DatagramInv'
<1>0. UNCHANGED <<dg, delivered, acked>> /\ ~Fits(dg[n], f)
  BY DEF Refuse, hist, Fits, Takes
<1>1. Acks' /\ \A m \in Node : m # n => dg'[m] = dg[m]
  BY <1>0 DEF DatagramInv, Acks
<1>2. Exchange(Air(tx, rx'), dg, on, count.send, delivered)
  BY DEF Taking
<1>3. CASE UNCHANGED <<hdr, tx>>
  <2>1. Exchange(Air(tx, rx'), dg', on, count.send, delivered')
    BY <1>0, <1>2
  <2> QED BY <1>1, <1>3, <2>1, HandledSilently
<1>4. CASE f.kind \in Final /\ Queue(n, Reply("NAK", n, f.src))
  <2>1. "NAK" \in Replies /\ "NAK" # "ACK"
    BY DEF Replies
  <2>2. ASSUME NEW m \in Node, dg[m].receiving, Being(dg[m]) = f.body PROVE FALSE
    <3>0. /\ f \in Frame /\ f \in Air(tx, rx) /\ For(f, n)
          /\ Exchange(Air(tx, rx), dg, on, count.send, delivered)
      BY DEF Taking
    <3>1. f.dst = f.body.to /\ f.src = f.body.by /\ f.dst \in Node /\ (Starts(f) <=> f.i = 1)
      BY <3>0, FragmentFacts
    <3>2. Being(dg[m]).to = m /\ Being(dg[m]).by = dg[m].from
      BY <2>2, <3>0 DEF Exchange, Objects
    <3>3. m = n
      BY <2>2, <3>0, <3>1, <3>2, DatagramAssumption DEF For
    <3>4. ~Starts(f)
      BY <2>2, <3>0, <3>1 DEF Exchange, PastFirst
    <3> QED BY <1>0, <2>2, <3>1, <3>2, <3>3, <3>4 DEF Fits
  <2>3. dg' = dg /\ delivered' = delivered
    BY <1>0
  <2> QED BY <1>1, <1>2, <1>4, <2>1, <2>2, <2>3, HandledWithReply
<1> QED BY <1>3, <1>4 DEF Refuse

LEMMA StoreStep ==
  ASSUME DatagramInv, NEW n \in Node, NEW f, Taking(n, f), IsFragment(f), Store(n, f)
  PROVE  DatagramInv'
<1>0. /\ f.kind \in {"FIRST", "MID"} /\ Fits(dg[n], f) /\ UNCHANGED <<hdr, tx, delivered, acked>>
  BY DEF Store, hist, Fits, Takes
<1>1. PICK w : w = Joined(dg[n], f)
  OBVIOUS
<1>2. dg' = [dg EXCEPT ![n].receiving = TRUE, ![n].from = f.src, ![n].rbuf = w]
  <2>1. dg \in [Node -> Object]
    BY DEF Taking, Exchange, Objects
  <2>2. dg' = [dg EXCEPT ![n].receiving = TRUE, ![n].from = f.src,
                         ![n].rbuf = Append(dg[n].rbuf, <<f.body, f.i>>)]
    BY <2>1 DEF Store
  <2>3. w = Append(dg[n].rbuf, <<f.body, f.i>>)
    BY <1>1 DEF Joined
  <2> QED BY <2>2, <2>3
<1>3. w \in Seq(Body \X Nat)
  <2>0. PICK a : a = Air(tx, rx)
    OBVIOUS
  <2>1. /\ f \in a /\ For(f, n)
        /\ Exchange(a, dg, on, count.send, delivered)
    BY <2>0 DEF Taking
  <2>2. /\ Joined(dg[n], f) \in Seq(Body \X Nat) /\ Joined(dg[n], f) # << >>
        /\ First(Joined(dg[n], f)) = IF Starts(f) THEN f.body ELSE Being(dg[n])
        /\ First(Joined(dg[n], f)) \in Body /\ First(Joined(dg[n], f)).by = f.src
        /\ First(Joined(dg[n], f)).to = n /\ First(Joined(dg[n], f)).no <= count.send
        /\ Occurs(<<Joined(dg[n], f)>>, f.body)
    BY <1>0, <2>1, JoinedFirst
  <2> QED BY <1>1, <2>2
<1>4. PICK e : e = [dg EXCEPT ![n] = [dg[n] EXCEPT !.receiving = TRUE, !.from = f.src, !.rbuf = w]]
  OBVIOUS
<1>5. dg' = e
  BY <1>2, <1>4
<1>6. Stored(dg, e, n, f.src, w)
  <2>1. f.src \in Node
    BY FrameKinds DEF Taking
  <2>2. Exchange(Air(tx, rx), dg, on, count.send, delivered)
    BY DEF Taking
  <2> QED BY <1>3, <1>4, <2>1, <2>2, Receiving
<1>7. PICK b : b = Air(tx, rx')
  OBVIOUS
<1>8. Exchange(b, e, on, count.send, delivered)
  <2>1. /\ f \in Air(tx, rx) /\ For(f, n)
        /\ Exchange(Air(tx, rx), dg, on, count.send, delivered)
        /\ b \in SUBSET Air(tx, rx) /\ \A h \in b : Precedes(f, h)
    BY <1>7 DEF Taking
  <2>2. Stored(dg, e, n, f.src, Joined(dg[n], f))
    BY <1>1, <1>6
  <2> HIDE <1>4
  <2> QED BY <1>0, <2>1, <2>2, ExchangeStores
<1>9. Exchange(Air(tx, rx'), dg', on, count.send, delivered')
  BY <1>0, <1>5, <1>7, <1>8, Zenon
<1>10. Acks'
  BY <1>0 DEF DatagramInv, Acks
<1>11. \A m \in Node : m # n => dg'[m] = dg[m]
  BY <1>5, <1>6 DEF Stored
<1> QED BY <1>0, <1>9, <1>10, <1>11, HandledSilently

LEMMA CompleteStep ==
  ASSUME DatagramInv, NEW n \in Node, NEW f, Taking(n, f), IsFragment(f), Complete(n, f)
  PROVE  DatagramInv'
<1>0. /\ f.kind \in Final /\ Fits(dg[n], f) /\ acked' = acked
      /\ dg' = [dg EXCEPT ![n].receiving = FALSE, ![n].from = f.src, ![n].rbuf = << >>]
  BY DEF Complete, Fits, Takes
<1>1. \/ /\ \E kind \in {"REJECT", "NAK"} : Queue(n, Reply(kind, n, f.src))
         /\ delivered' = delivered
      \/ /\ Queue(n, Reply("ACK", n, f.src))
         /\ delivered' = Append(delivered, Joined(dg[n], f))
  BY DEF Complete, Joined
<1>2. PICK a : a = Air(tx, rx)
  OBVIOUS
<1>3. PICK b : b = Air(tx, rx')
  OBVIOUS
<1>4. /\ f \in a /\ f \in Frame /\ For(f, n) /\ b \in SUBSET a /\ \A h \in b : Precedes(f, h)
      /\ Exchange(a, dg, on, count.send, delivered)
      /\ Exchange(b, dg, on, count.send, delivered)
  BY <1>2, <1>3 DEF Taking
<1>5. PICK e : e = [dg EXCEPT ![n].receiving = FALSE, ![n].from = f.src, ![n].rbuf = << >>]
  OBVIOUS
<1>6. dg' = e
  BY <1>0, <1>5
<1>7. Ended(dg, e, n)
  <2>1. f.src \in Node \cup {None} /\ dg \in [Node -> Object]
    BY <1>4, FrameKinds DEF Exchange, Objects
  <2> QED BY <1>5, <2>1, Ending
<1> HIDE <1>0, <1>5
<1>8. Exchange(b, e, on, count.send, delivered)
  BY <1>4, <1>7, ExchangeEnds
<1>9. /\ ~e[n].receiving
      /\ \A m \in Node : m # n => e[m] = dg[m]
      /\ \A m \in Node : /\ e[m].reserved = dg[m].reserved /\ e[m].tbuf = dg[m].tbuf
                         /\ e[m].left = dg[m].left
  BY <1>7 DEF Ended
<1>10. ASSUME NEW kind \in {"REJECT", "NAK"}, Queue(n, Reply(kind, n, f.src)), delivered' = delivered
       PROVE  DatagramInv'
  <2>1. kind \in Replies /\ kind # "ACK"
    BY DEF Replies
  <2>2. ASSUME NEW m \in Node, e[m].receiving, Being(e[m]) = f.body PROVE FALSE
    <3>1. m # n /\ e[m] = dg[m]
      BY <1>9, <2>2
    <3>2. Being(dg[m]).to = m
      BY <1>4, <2>2, <3>1 DEF Exchange, Objects
    <3>3. f.dst = f.body.to /\ f.dst \in Node
      BY <1>4, FragmentFacts
    <3> QED BY <1>4, <2>2, <3>1, <3>2, <3>3, DatagramAssumption DEF For
  <2>3. Exchange(Air(tx, rx'), e, on, count.send, delivered)
    BY <1>3, <1>8
  <2>4. Acks'
    BY <1>0, <1>10 DEF DatagramInv, Acks
  <2>5. f.kind \in Final
    BY <1>0
  <2> QED BY <1>6, <1>9, <1>10, <2>1, <2>2, <2>3, <2>4, <2>5, HandledWithReply
<1>11. ASSUME Queue(n, Reply("ACK", n, f.src)), delivered' = Append(delivered, Joined(dg[n], f))
       PROVE  DatagramInv'
  <2>1. f.kind \in Final /\ Fits(dg[n], f) /\ acked' = acked
    BY <1>0
  <2>2. PICK V : V = Append(delivered, Joined(dg[n], f))
    OBVIOUS
  <2>3. Exchange(b, e, on, count.send, V) /\ Occurs(V, f.body)
    <3>1. /\ Exchange(b, e, on, count.send, Append(delivered, Joined(dg[n], f)))
          /\ Occurs(Append(delivered, Joined(dg[n], f)), f.body)
      BY <1>4, <1>7, <2>1, ExchangeDelivers
    <3> QED BY <2>2, <3>1, Zenon
  <2>4. delivered' = V
    BY <1>11, <2>2
  <2>5. \A x : Occurs(delivered, x) => Occurs(V, x)
    <3>1. Joined(dg[n], f) \in Seq(Body \X Nat) /\ delivered \in Seq(Seq(Body \X Nat))
      <4>1. /\ Joined(dg[n], f) \in Seq(Body \X Nat) /\ Joined(dg[n], f) # << >>
            /\ First(Joined(dg[n], f)) = IF Starts(f) THEN f.body ELSE Being(dg[n])
            /\ First(Joined(dg[n], f)) \in Body /\ First(Joined(dg[n], f)).by = f.src
            /\ First(Joined(dg[n], f)).to = n /\ First(Joined(dg[n], f)).no <= count.send
            /\ Occurs(<<Joined(dg[n], f)>>, f.body)
        BY <1>4, <2>1, JoinedFirst
      <4>2. delivered \in Seq(Seq(Body \X Nat))
        BY <1>4 DEF Exchange, Deliveries
      <4> QED BY <4>1, <4>2
    <3>2. PICK w \in Seq(Body \X Nat) : w = Joined(dg[n], f)
      BY <3>1
    <3>3. PICK S : S = Body \X Nat
      OBVIOUS
    <3>4. delivered \in Seq(Seq(S)) /\ w \in Seq(S)
      BY <3>1, <3>2, <3>3
    <3>5. V = Append(delivered, w)
      BY <2>2, <3>2
    <3> QED BY <3>4, <3>5, OccursMore
  <2>6. Acks'
    BY <2>1, <2>4, <2>5 DEF DatagramInv, Acks
  <2>7. Exchange(Air(tx, rx'), e, on, count.send, V)
    BY <1>3, <2>3
  <2>8. "ACK" \in Replies /\ "ACK" # "NAK"
    BY DEF Replies
  <2>9. Queue(n, Reply("ACK", n, f.src))
    BY <1>11
  <2> HIDE <1>11
  <2> QED BY <1>6, <1>9, <2>1, <2>3, <2>4, <2>6, <2>7, <2>8, <2>9, HandledWithReply
<1> QED BY <1>1, <1>10, <1>11

LEMMA ReceiveStep ==
  ASSUME DatagramInv, NEW n \in Node, Receive(n)
  PROVE  DatagramInv'
<1>1. PICK f : f = Head(rx[n])
  OBVIOUS
<1>2. Taking(n, f)
  BY <1>1, Taken
<1>3. \/ HearMapping(n, f) \/ HearAck(n, f) \/ HearReject(n, f) \/ HearNak(n, f)
      \/ IsFragment(f) /\ (Refuse(n, f) \/ Store(n, f) \/ Complete(n, f))
  BY <1>1 DEF Receive
<1> QED BY <1>2, <1>3, HearMappingStep, FreeStep, HearNakStep, RefuseStep, StoreStep, CompleteStep

LEMMA DatagramNext ==
  ASSUME DatagramInv, [Next]_vars
  PROVE  DatagramInv'
<1>1. CASE UNCHANGED vars
  <2>1. UNCHANGED <<dg, hdr, on, tx, rx, count, delivered, acked>>
    BY <1>1 DEF vars, net, hist
  <2>2. Bounds' /\ Stopped' /\ Acks'
    BY <2>1 DEF DatagramInv, Bounds, Stopped, Acks
  <2>3. Buffers(tx, rx)' /\ InOrder(tx, rx)' /\ Air(tx, rx)' = Air(tx, rx)
    BY <2>1 DEF DatagramInv, Traffic, Buffers, InOrder, Air
  <2>4. Exchange(Air(tx, rx), dg, on, count.send, delivered)
    BY DEF DatagramInv, Traffic
  <2>5. Exchange(Air(tx, rx)', dg', on', count'.send, delivered')
    BY <2>1, <2>3, <2>4, Zenon
  <2> QED BY <2>2, <2>3, <2>5 DEF DatagramInv, Traffic
<1>2. ASSUME NEW n \in Node, NEW r \in Route, r[1] = n, Send(n, r[2], r[3]) PROVE DatagramInv'
  BY <1>2, SendStep
<1>3. ASSUME NEW n \in Node, \/ Check(n) \/ Enquiry(n) \/ Receive(n)
                             \/ Bus(n) \/ Lose(n) \/ Crash(n) \/ GiveUp(n) \/ Restart(n)
      PROVE  DatagramInv'
  BY <1>3, CheckStep, EnquiryStep, ReceiveStep, BusStep, LoseStep, CrashStep, GiveUpStep,
     RestartStep
<1> QED BY <1>1, <1>2, <1>3 DEF Next

LEMMA DatagramInvariant == Spec => []DatagramInv
<1>1. Init => DatagramInv
  BY DatagramStart
<1>2. DatagramInv /\ [Next]_vars => DatagramInv'
  BY DatagramNext
<1> QED BY <1>1, <1>2, PTL DEF Spec

----------------------------------------------------------------------------
(* Types; no transmit buffer holds more than it has room for, and what is  *)
(* being sent is a datagram of its sender (getTransmitBuffer() to          *)
(* receivedFrame(), Datagram.cpp).                                         *)
THEOREM DatagramTypes == Spec => []TypeOK
<1>1. DatagramInv => TypeOK
  <2> SUFFICES ASSUME DatagramInv PROVE TypeOK
    OBVIOUS
  <2>1. Objects(dg, count.send) /\ Buffers(tx, rx)
    BY DEF DatagramInv, Traffic, Exchange
  <2>2. ASSUME NEW n \in Node
        PROVE  /\ dg[n].reserved \in BOOLEAN /\ dg[n].receiving \in BOOLEAN
               /\ dg[n].tbuf \in Body \cup {None} /\ dg[n].from \in Node \cup {None}
               /\ dg[n].left \in Nat
    BY <2>1 DEF Objects, Object
  <2>3. ASSUME NEW n \in Node, dg[n].left > 0 PROVE dg[n].reserved /\ dg[n].left <= dg[n].tbuf.size
    BY <2>1, <2>3 DEF Objects
  <2>4. ASSUME NEW n \in Node
        PROVE  /\ \A k \in DOMAIN tx[n] : tx[n][k] \in Frames
               /\ \A k \in DOMAIN rx[n] : rx[n][k] \in Frames
    <3>1. DOMAIN tx[n] = 1 .. Len(tx[n]) /\ DOMAIN rx[n] = 1 .. Len(rx[n])
      BY <2>1, LenProperties DEF Buffers
    <3> QED BY <2>1, <3>1, InAir DEF Frame
  <2>5. \A n \in Node : Len(tx[n]) <= TxCap
    BY DEF DatagramInv, Bounds
  <2>6. hdr \in [Node -> {"OLCB", "CAN"}] /\ on \subseteq Node /\ acked \subseteq Body
    BY DEF DatagramInv, Bounds, Acks
  <2> QED BY <2>2, <2>3, <2>4, <2>5, <2>6 DEF TypeOK
<1> QED BY <1>1, DatagramInvariant, PTL

(* A datagram is delivered once, however many are lost, refused, repeated  *)
(* or cut off by a crash (receivedFrame()).                                *)
THEOREM DeliveredOnce == Spec => []OnceOnly
<1>1. DatagramInv => OnceOnly
  <2> SUFFICES ASSUME DatagramInv PROVE OnceOnly
    OBVIOUS
  <2>1. Once(delivered) /\ delivered \in Seq(Seq(Body \X Nat))
    BY DEF DatagramInv, Traffic, Exchange, Deliveries
  <2>2. DOMAIN delivered = 1 .. Len(delivered)
    BY <2>1, LenProperties
  <2> QED BY <2>1, <2>2 DEF OnceOnly, Once, First
<1> QED BY <1>1, DatagramInvariant, PTL

(* A sender that gets an acknowledgement has been heard: though it is not  *)
(* looked at who replies, no reply to an earlier datagram is under way     *)
(* (receivedFrame(), the case of Datagram Received OK).                    *)
THEOREM AcksAreTrue == Spec => []AckMeansDelivered
<1>1. DatagramInv => AckMeansDelivered
  <2> SUFFICES ASSUME DatagramInv, NEW b \in acked
               PROVE  \E k \in DOMAIN delivered : \E i \in DOMAIN delivered[k] :
                        delivered[k][i][1] = b
    BY DEF AckMeansDelivered
  <2>1. Occurs(delivered, b) /\ delivered \in Seq(Seq(Body \X Nat))
    BY DEF DatagramInv, Acks, Traffic, Exchange, Deliveries
  <2>2. PICK k \in 1 .. Len(delivered) : \E i \in 1 .. Len(delivered[k]) : delivered[k][i][1] = b
    BY <2>1 DEF Occurs
  <2>3. k \in DOMAIN delivered /\ delivered[k] \in Seq(Body \X Nat)
    BY <2>1, LenProperties, ElementOfSeq
  <2>4. DOMAIN delivered[k] = 1 .. Len(delivered[k])
    BY <2>3, LenProperties
  <2> QED BY <2>2, <2>3, <2>4
<1> QED BY <1>1, DatagramInvariant, PTL
=============================================================================
