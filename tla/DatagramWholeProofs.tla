------------------------ MODULE DatagramWholeProofs ------------------------
(***************************************************************************)
(* While the bus loses nothing, what is delivered is what was sent.        *)
(*                                                                         *)
(* For a sender n and a receiver m, the invariant walks along the frames   *)
(* that are under way between them: from the fragment that m has put to    *)
(* the others, through m's driver and n's transmit buffer, to the fragment *)
(* that n sends next.  A fragment that is not the last of its datagram is  *)
(* followed by the next one or by an AMD.                                  *)
(***************************************************************************)
EXTENDS DatagramProofs

(* The frames of n that matter to m, and which may follow which. *)
Between(n, m) == {f \in Frame : f.src = n /\ (IsMapping(f) \/ (IsFragment(f) /\ f.dst = m))}
MustGoOn(f) == f.kind \in {"FIRST", "MID"}
Follows(g, f) == MustGoOn(f) => IsMapping(g) \/ g = Fragment(f.body, f.i + 1)

(* Along c, of which only what is in S matters, s leads to e. *)
Along(S, w, c) ==
  /\ w \in [0 .. Len(c) -> S]
  /\ \A k \in 1 .. Len(c) : IF c[k] \in S THEN Follows(c[k], w[k - 1]) /\ w[k] = c[k]
                            ELSE w[k] = w[k - 1]
Walk(S, s, c, e) == \E w : Along(S, w, c) /\ w[0] = s /\ w[Len(c)] = e

LEMMA WalkNothing ==
  ASSUME NEW S, NEW s \in S
  PROVE  Walk(S, s, << >>, s)
<1> DEFINE w == [k \in 0 .. 0 |-> s]
<1>1. Len(<< >>) = 0
  OBVIOUS
<1>2. w \in [0 .. 0 -> S] /\ w[0] = s /\ 1 .. 0 = {}
  OBVIOUS
<1> HIDE DEF w
<1>3. Along(S, w, << >>)
  BY <1>1, <1>2 DEF Along
<1> QED BY <1>1, <1>2, <1>3 DEF Walk

LEMMA NothingWalked ==
  ASSUME NEW S, NEW s, NEW e, Walk(S, s, << >>, e)
  PROVE  s = e /\ s \in S
<1>1. PICK w : Along(S, w, << >>) /\ w[0] = s /\ w[Len(<< >>)] = e
  BY DEF Walk
<1>2. Len(<< >>) = 0
  OBVIOUS
<1> QED BY <1>1, <1>2 DEF Along

LEMMA WalkEnds ==
  ASSUME NEW S, NEW c \in Seq(Frame), NEW s, NEW e, Walk(S, s, c, e)
  PROVE  s \in S /\ e \in S
<1>1. PICK w : Along(S, w, c) /\ w[0] = s /\ w[Len(c)] = e
  BY DEF Walk
<1>2. Len(c) \in Nat
  BY LenProperties
<1> QED BY <1>1, <1>2 DEF Along

(* A frame more. *)
LEMMA WalkOn ==
  ASSUME NEW S, NEW c \in Seq(Frame), NEW s, NEW e, Walk(S, s, c, e), NEW g \in Frame
  PROVE  /\ g \in S /\ Follows(g, e) => Walk(S, s, Append(c, g), g)
         /\ g \notin S => Walk(S, s, Append(c, g), e)
<1>1. PICK w : Along(S, w, c) /\ w[0] = s /\ w[Len(c)] = e
  BY DEF Walk
<1>2. PICK L : L = Len(c)
  OBVIOUS
<1>3. L \in Nat
  BY <1>2, LenProperties
<1>4. PICK u : u = Append(c, g)
  OBVIOUS
<1>5. Len(u) = L + 1 /\ u[L + 1] = g /\ \A k \in 1 .. L : u[k] = c[k]
  BY <1>2, <1>4, Appended
<1>6. /\ w \in [0 .. L -> S] /\ w[0] = s /\ w[L] = e
      /\ \A k \in 1 .. L : IF c[k] \in S THEN Follows(c[k], w[k - 1]) /\ w[k] = c[k]
                           ELSE w[k] = w[k - 1]
  BY <1>1, <1>2 DEF Along
<1>7. ASSUME NEW x \in S, IF g \in S THEN Follows(g, e) /\ x = g ELSE x = e
      PROVE  Walk(S, s, u, x)
  <2> DEFINE y == [k \in 0 .. L + 1 |-> IF k = L + 1 THEN x ELSE w[k]]
  <2>1. y \in [0 .. L + 1 -> S]
    BY <1>3, <1>6
  <2>2. y[L + 1] = x /\ y[0] = s /\ y[L] = e
    BY <1>3, <1>6
  <2>3. \A k \in 0 .. L : y[k] = w[k]
    BY <1>3
  <2> HIDE DEF y
  <2>4. ASSUME NEW k \in 1 .. L + 1
        PROVE  IF u[k] \in S THEN Follows(u[k], y[k - 1]) /\ y[k] = u[k] ELSE y[k] = y[k - 1]
    <3>1. CASE k = L + 1
      <4>1. k - 1 = L
        BY <1>3, <3>1
      <4> QED BY <1>5, <1>7, <2>2, <3>1, <4>1
    <3>2. CASE k # L + 1
      <4>1. k \in 1 .. L /\ k \in 0 .. L /\ k - 1 \in 0 .. L
        BY <1>3, <3>2
      <4> QED BY <1>5, <1>6, <2>3, <4>1
    <3> QED BY <3>1, <3>2
  <2>5. Along(S, y, u)
    BY <1>5, <2>1, <2>4 DEF Along
  <2> QED BY <1>5, <2>2, <2>5 DEF Walk
<1>8. e \in S
  BY WalkEnds
<1> QED BY <1>4, <1>7, <1>8

(* The first frame is taken. *)
LEMMA WalkFrom ==
  ASSUME NEW S, NEW c \in Seq(Frame), NEW s, NEW e, Walk(S, s, c, e), c # << >>
  PROVE  /\ Head(c) \in S => Follows(Head(c), s) /\ Walk(S, Head(c), Tail(c), e)
         /\ Head(c) \notin S => Walk(S, s, Tail(c), e)
<1>1. PICK w : Along(S, w, c) /\ w[0] = s /\ w[Len(c)] = e
  BY DEF Walk
<1>2. PICK L : L = Len(c)
  OBVIOUS
<1>3. L \in Nat \ {0}
  BY <1>2, LenProperties, EmptySeq
<1>4. PICK u : u = Tail(c)
  OBVIOUS
<1>5. PICK g : g = Head(c)
  OBVIOUS
<1>6. Len(u) = L - 1 /\ g = c[1] /\ \A k \in 1 .. L - 1 : u[k] = c[k + 1]
  <2>1. Len(Tail(c)) = L - 1
    BY <1>2, HeadTailProperties
  <2>2. \A k \in 1 .. Len(Tail(c)) : Tail(c)[k] = c[k + 1]
    BY HeadTailProperties
  <2> QED BY <1>4, <1>5, <2>1, <2>2
<1>7. /\ w \in [0 .. L -> S] /\ w[0] = s /\ w[L] = e
      /\ \A k \in 1 .. L : IF c[k] \in S THEN Follows(c[k], w[k - 1]) /\ w[k] = c[k]
                           ELSE w[k] = w[k - 1]
  BY <1>1, <1>2 DEF Along
<1>8. IF g \in S THEN Follows(g, s) /\ w[1] = g ELSE w[1] = s
  <2>1. 1 \in 1 .. L /\ 1 - 1 = 0
    BY <1>3
  <2> QED BY <1>6, <1>7, <2>1
<1>9. Walk(S, w[1], u, e)
  <2> DEFINE y == [k \in 0 .. L - 1 |-> w[k + 1]]
  <2>1. y \in [0 .. L - 1 -> S]
    BY <1>3, <1>7
  <2>2. y[0] = w[1] /\ y[L - 1] = e
    BY <1>3, <1>7
  <2>3. \A k \in 0 .. L - 1 : y[k] = w[k + 1]
    OBVIOUS
  <2> HIDE DEF y
  <2>4. ASSUME NEW k \in 1 .. L - 1
        PROVE  IF u[k] \in S THEN Follows(u[k], y[k - 1]) /\ y[k] = u[k] ELSE y[k] = y[k - 1]
    <3>1. k + 1 \in 1 .. L /\ (k + 1) - 1 = k /\ k \in 0 .. L - 1 /\ k - 1 \in 0 .. L - 1 /\ (k - 1) + 1 = k
      BY <1>3
    <3>2. PICK j \in 1 .. L : j = k + 1
      BY <3>1
    <3>3. IF c[j] \in S THEN Follows(c[j], w[j - 1]) /\ w[j] = c[j] ELSE w[j] = w[j - 1]
      BY <1>7
    <3>4. u[k] = c[j] /\ y[k] = w[j] /\ y[k - 1] = w[j - 1]
      BY <1>6, <2>3, <3>1, <3>2
    <3> QED BY <3>3, <3>4
  <2>5. Along(S, y, u)
    BY <1>6, <2>1, <2>4 DEF Along
  <2> QED BY <1>6, <2>2, <2>5 DEF Walk
<1> QED BY <1>4, <1>5, <1>8, <1>9

(* Any frame may follow an AMD. *)
LEMMA WalkFromAMD ==
  ASSUME NEW S, NEW c \in Seq(Frame), NEW s, NEW e, Walk(S, s, c, e), NEW a \in S, ~MustGoOn(a)
  PROVE  Walk(S, a, c, e) \/ Walk(S, a, c, a)
<1>1. PICK w : Along(S, w, c) /\ w[0] = s /\ w[Len(c)] = e
  BY DEF Walk
<1>2. PICK L : L = Len(c)
  OBVIOUS
<1>3. L \in Nat
  BY <1>2, LenProperties
<1>4. /\ w \in [0 .. L -> S] /\ w[0] = s /\ w[L] = e
      /\ \A k \in 1 .. L : IF c[k] \in S THEN Follows(c[k], w[k - 1]) /\ w[k] = c[k]
                           ELSE w[k] = w[k - 1]
  BY <1>1, <1>2 DEF Along
<1> DEFINE Met(k) == \E j \in 1 .. k : c[j] \in S
           y == [k \in 0 .. L |-> IF Met(k) THEN w[k] ELSE a]
<1>5. y \in [0 .. L -> S] /\ \A k \in 0 .. L : y[k] = IF Met(k) THEN w[k] ELSE a
  BY <1>4
<1>6. y[0] = a
  BY <1>3, <1>5
<1> HIDE DEF y
<1>7. ASSUME NEW k \in 1 .. L
      PROVE  IF c[k] \in S THEN Follows(c[k], y[k - 1]) /\ y[k] = c[k] ELSE y[k] = y[k - 1]
  <2>1. k \in 0 .. L /\ k - 1 \in 0 .. L
    BY <1>3
  <2>2. Follows(c[k], a)
    BY DEF Follows
  <2>3. PICK i : i = k - 1
    OBVIOUS
  <2>4. IF c[k] \in S THEN Follows(c[k], w[i]) /\ w[k] = c[k] ELSE w[k] = w[i]
    BY <1>4, <2>3
  <2>5. (y[k] = IF Met(k) THEN w[k] ELSE a) /\ (y[i] = IF Met(i) THEN w[i] ELSE a)
    BY <1>5, <2>1, <2>3
  <2>6. Met(k) <=> Met(i) \/ c[k] \in S
    BY <2>3
  <2> HIDE DEF Met
  <2>7. IF c[k] \in S THEN Follows(c[k], y[i]) /\ y[k] = c[k] ELSE y[k] = y[i]
    BY <2>2, <2>4, <2>5, <2>6
  <2> QED BY <2>3, <2>7
<1>8. Along(S, y, c)
  BY <1>2, <1>5, <1>7 DEF Along
<1>9. y[L] = e \/ y[L] = a
  BY <1>3, <1>4, <1>5
<1> QED BY <1>2, <1>6, <1>8, <1>9 DEF Walk

----------------------------------------------------------------------------
(* From what m has, by the frames r and t, to what n may send last, E. *)
Start(n, x) ==
  IF x.receiving /\ x.from = n THEN Fragment(Being(x), Len(x.rbuf)) ELSE AMD(n)
Chain(n, m, x, r, t, E) ==
  \E s, e : /\ Walk(Between(n, m), Start(n, x), r, s)
            /\ Walk(Between(n, m), s, t, e) /\ e \in E

LEMMA AMDBetween ==
  ASSUME NEW n \in Node, NEW m \in Node
  PROVE  AMD(n) \in Between(n, m) /\ ~MustGoOn(AMD(n))
BY AMDKind DEF Between, MustGoOn, IsFragment, IsMapping

(* n queues a frame. *)
LEMMA ChainQueued ==
  ASSUME NEW n \in Node, NEW m \in Node, NEW x, NEW r \in Seq(Frame), NEW t \in Seq(Frame),
         NEW E, Chain(n, m, x, r, t, E), NEW g \in Frame, NEW F,
         g \notin Between(n, m) => \A e \in Between(n, m) : e \in E => e \in F,
         g \in Between(n, m) => g \in F /\ \A e \in Between(n, m) : e \in E => Follows(g, e)
  PROVE  Chain(n, m, x, r, Append(t, g), F)
<1>1. PICK S : S = Between(n, m)
  OBVIOUS
<1>2. PICK s, e : Walk(S, Start(n, x), r, s) /\ Walk(S, s, t, e) /\ e \in E
  BY <1>1 DEF Chain
<1>3. e \in S
  BY <1>2, WalkEnds
<1>4. /\ g \in S /\ Follows(g, e) => Walk(S, s, Append(t, g), g)
      /\ g \notin S => Walk(S, s, Append(t, g), e)
  BY <1>2, WalkOn
<1>5. CASE g \in S
  <2>1. Walk(S, s, Append(t, g), g) /\ g \in F
    BY <1>1, <1>2, <1>3, <1>4, <1>5
  <2> QED BY <1>1, <1>2, <2>1 DEF Chain
<1>6. CASE g \notin S
  <2>1. Walk(S, s, Append(t, g), e) /\ e \in F
    BY <1>1, <1>2, <1>3, <1>4, <1>6
  <2> QED BY <1>1, <1>2, <2>1 DEF Chain
<1> QED BY <1>5, <1>6

(* The bus brings n's first frame to m, if it matters to m. *)
LEMMA ChainBrought ==
  ASSUME NEW n \in Node, NEW m \in Node, NEW x, NEW r \in Seq(Frame), NEW t \in Seq(Frame),
         NEW E, Chain(n, m, x, r, t, E), t # << >>, NEW q,
         \/ q = Append(r, Head(t))
         \/ q = r /\ Head(t) \notin Between(n, m)
  PROVE  Chain(n, m, x, q, Tail(t), E)
<1>1. PICK S : S = Between(n, m)
  OBVIOUS
<1>2. PICK s, e : Walk(S, Start(n, x), r, s) /\ Walk(S, s, t, e) /\ e \in E
  BY <1>1 DEF Chain
<1>3. PICK g : g = Head(t)
  OBVIOUS
<1>4. g \in Frame
  <2>1. Head(t) \in Frame
    BY HeadTailProperties
  <2> QED BY <1>3, <2>1
<1>5. /\ g \in S => Follows(g, s) /\ Walk(S, g, Tail(t), e)
      /\ g \notin S => Walk(S, s, Tail(t), e)
  <2>1. /\ Head(t) \in S => Follows(Head(t), s) /\ Walk(S, Head(t), Tail(t), e)
        /\ Head(t) \notin S => Walk(S, s, Tail(t), e)
    BY <1>2, WalkFrom
  <2> QED BY <1>3, <2>1
<1>6. /\ g \in S /\ Follows(g, s) => Walk(S, Start(n, x), Append(r, g), g)
      /\ g \notin S => Walk(S, Start(n, x), Append(r, g), s)
  BY <1>2, <1>4, WalkOn
<1>7. q = Append(r, g) \/ (q = r /\ g \notin S)
  BY <1>1, <1>3
<1>8. \E y : Walk(S, Start(n, x), q, y) /\ Walk(S, y, Tail(t), e)
  BY <1>2, <1>5, <1>6, <1>7
<1> QED BY <1>1, <1>2, <1>8 DEF Chain

(* Another node's frame comes between. *)
LEMMA ChainJoined ==
  ASSUME NEW n \in Node, NEW m \in Node, NEW x, NEW r \in Seq(Frame), NEW t \in Seq(Frame),
         NEW E, Chain(n, m, x, r, t, E), NEW g \in Frame, g \notin Between(n, m)
  PROVE  Chain(n, m, x, Append(r, g), t, E)
<1>1. PICK S : S = Between(n, m)
  OBVIOUS
<1>2. PICK s, e : Walk(S, Start(n, x), r, s) /\ Walk(S, s, t, e) /\ e \in E
  BY <1>1 DEF Chain
<1>3. Walk(S, Start(n, x), Append(r, g), s)
  BY <1>1, <1>2, WalkOn
<1> QED BY <1>1, <1>2, <1>3 DEF Chain

(* n's frames reach m, which is not receiving from n. *)
LEMMA ChainFromAMD ==
  ASSUME NEW n \in Node, NEW m \in Node, NEW r \in Seq(Frame), NEW t \in Seq(Frame),
         NEW E, AMD(n) \in E, NEW s, NEW u, NEW e, Walk(Between(n, m), s, r, u),
         Walk(Between(n, m), u, t, e), e \in E, NEW x, Start(n, x) = AMD(n)
  PROVE  Chain(n, m, x, r, t, E)
<1>1. PICK S : S = Between(n, m)
  OBVIOUS
<1>2. PICK a : a = AMD(n)
  OBVIOUS
<1>3. a \in S /\ ~MustGoOn(a)
  BY <1>1, <1>2, AMDBetween
<1>4. Walk(S, a, r, u) \/ Walk(S, a, r, a)
  BY <1>1, <1>3, WalkFromAMD
<1>5. Walk(S, a, t, e) \/ Walk(S, a, t, a)
  BY <1>1, <1>3, WalkFromAMD
<1>6. \E y, z : Walk(S, a, r, y) /\ Walk(S, y, t, z) /\ z \in E
  BY <1>1, <1>2, <1>4, <1>5
<1> QED BY <1>1, <1>2, <1>6 DEF Chain

(* m takes its first frame, and from then on goes by it or by an AMD. *)
LEMMA ChainTaken ==
  ASSUME NEW n \in Node, NEW m \in Node, NEW x, NEW r \in Seq(Frame), NEW t \in Seq(Frame),
         NEW E, AMD(n) \in E, Chain(n, m, x, r, t, E), r # << >>, NEW y,
         \/ Head(r) \notin Between(n, m) /\ Start(n, y) = Start(n, x)
         \/ Head(r) \in Between(n, m) /\ Start(n, y) \in {Head(r), AMD(n)}
  PROVE  Chain(n, m, y, Tail(r), t, E)
<1>1. PICK S : S = Between(n, m)
  OBVIOUS
<1>2. PICK s, e : Walk(S, Start(n, x), r, s) /\ Walk(S, s, t, e) /\ e \in E
  BY <1>1 DEF Chain
<1>3. PICK g : g = Head(r)
  OBVIOUS
<1>4. /\ g \in S => Follows(g, Start(n, x)) /\ Walk(S, g, Tail(r), s)
      /\ g \notin S => Walk(S, Start(n, x), Tail(r), s)
  <2>1. /\ Head(r) \in S => Follows(Head(r), Start(n, x)) /\ Walk(S, Head(r), Tail(r), s)
        /\ Head(r) \notin S => Walk(S, Start(n, x), Tail(r), s)
    BY <1>2, WalkFrom
  <2> QED BY <1>3, <2>1
<1>5. CASE g \notin S \/ Start(n, y) = g
  <2>1. Walk(S, Start(n, y), Tail(r), s)
    BY <1>1, <1>3, <1>4, <1>5
  <2> QED BY <1>1, <1>2, <2>1 DEF Chain
<1>6. CASE g \in S /\ Start(n, y) = AMD(n)
  <2>1. Tail(r) \in Seq(Frame)
    BY HeadTailProperties
  <2>2. Walk(S, g, Tail(r), s)
    BY <1>4, <1>6
  <2> QED BY <1>1, <1>2, <1>6, <2>1, <2>2, ChainFromAMD
<1> QED BY <1>1, <1>3, <1>5, <1>6

(* What m takes from n follows what it has. *)
LEMMA TakenFollows ==
  ASSUME NEW n \in Node, NEW m \in Node, NEW x, NEW r \in Seq(Frame), NEW t \in Seq(Frame),
         NEW E, Chain(n, m, x, r, t, E), r # << >>, Head(r) \in Between(n, m)
  PROVE  Follows(Head(r), Start(n, x))
<1>1. PICK S : S = Between(n, m)
  OBVIOUS
<1>2. PICK s : Walk(S, Start(n, x), r, s)
  BY <1>1 DEF Chain
<1>3. /\ Head(r) \in S => Follows(Head(r), Start(n, x)) /\ Walk(S, Head(r), Tail(r), s)
      /\ Head(r) \notin S => Walk(S, Start(n, x), Tail(r), s)
  BY <1>2, WalkFrom
<1> QED BY <1>1, <1>3

(* n stops: after what is with m comes an AMD. *)
LEMMA ChainCutOff ==
  ASSUME NEW n \in Node, NEW m \in Node, NEW x, NEW r \in Seq(Frame), NEW t,
         NEW E, Chain(n, m, x, r, t, E), NEW F, Between(n, m) \subseteq F
  PROVE  Chain(n, m, x, r, << >>, F)
<1>1. PICK S : S = Between(n, m)
  OBVIOUS
<1>2. PICK s : Walk(S, Start(n, x), r, s)
  BY <1>1 DEF Chain
<1>3. s \in S
  BY <1>2, WalkEnds
<1>4. Walk(S, s, << >>, s) /\ s \in F
  BY <1>1, <1>3, WalkNothing
<1> QED BY <1>1, <1>2, <1>4 DEF Chain

(* m stops, *)
LEMMA ChainReset ==
  ASSUME NEW n \in Node, NEW m \in Node, NEW x, NEW r \in Seq(Frame), NEW t \in Seq(Frame),
         NEW E, AMD(n) \in E, Chain(n, m, x, r, t, E), NEW y, Start(n, y) = AMD(n)
  PROVE  Chain(n, m, y, << >>, t, E)
<1>1. PICK S : S = Between(n, m)
  OBVIOUS
<1>2. PICK s, e : Walk(S, Start(n, x), r, s) /\ Walk(S, s, t, e) /\ e \in E
  BY <1>1 DEF Chain
<1>3. s \in S /\ << >> \in Seq(Frame)
  BY <1>2, WalkEnds
<1>4. Walk(S, s, << >>, s)
  BY <1>3, WalkNothing
<1>5. Walk(Between(n, m), s, << >>, s) /\ Walk(Between(n, m), s, t, e)
  BY <1>1, <1>2, <1>4
<1> QED BY <1>2, <1>3, <1>5, ChainFromAMD

(* ... and what n sends does not reach it. *)
LEMMA ChainDropped ==
  ASSUME NEW n \in Node, NEW m \in Node, NEW x, NEW t \in Seq(Frame), t # << >>,
         NEW E, AMD(n) \in E, Chain(n, m, x, << >>, t, E), Start(n, x) = AMD(n)
  PROVE  Chain(n, m, x, << >>, Tail(t), E)
<1>1. PICK S : S = Between(n, m)
  OBVIOUS
<1>2. PICK s, e : Walk(S, Start(n, x), << >>, s) /\ Walk(S, s, t, e) /\ e \in E
  BY <1>1 DEF Chain
<1>3. /\ Head(t) \in S => Follows(Head(t), s) /\ Walk(S, Head(t), Tail(t), e)
      /\ Head(t) \notin S => Walk(S, s, Tail(t), e)
  BY <1>2, WalkFrom
<1>4. PICK u \in S : Walk(S, u, Tail(t), e)
  <2>1. s \in S
    BY <1>2, WalkEnds
  <2> QED BY <1>3, <2>1
<1>5. Walk(S, u, << >>, u)
  BY WalkNothing
<1>6. << >> \in Seq(Frame) /\ Tail(t) \in Seq(Frame)
  BY HeadTailProperties
<1>7. Walk(Between(n, m), u, << >>, u) /\ Walk(Between(n, m), u, Tail(t), e)
  BY <1>1, <1>4, <1>5
<1> QED BY <1>2, <1>6, <1>7, ChainFromAMD

(* Nothing that matters has changed. *)
LEMMA ChainKept ==
  ASSUME NEW n \in Node, NEW m \in Node, NEW x, NEW r \in Seq(Frame), NEW t \in Seq(Frame),
         NEW E, Chain(n, m, x, r, t, E), NEW y, Start(n, y) = Start(n, x),
         NEW F, \A e \in Between(n, m) : e \in E => e \in F
  PROVE  Chain(n, m, y, r, t, F)
<1>1. PICK S : S = Between(n, m)
  OBVIOUS
<1>2. PICK s, e : Walk(S, Start(n, x), r, s) /\ Walk(S, s, t, e) /\ e \in E
  BY <1>1 DEF Chain
<1>3. e \in S
  BY <1>2, WalkEnds
<1>4. e \in F
  BY <1>1, <1>2, <1>3
<1> QED BY <1>1, <1>2, <1>4 DEF Chain

----------------------------------------------------------------------------
(* The state: what n may have sent last; what m has is the beginning of a  *)
(* datagram; what was delivered are whole ones.                            *)
Ends(n) ==
  {e \in Frame : MustGoOn(e) =>
     \/ n \notin on
     \/ /\ hdr[n] = "OLCB" /\ dg[n].left > 0
        /\ e.body = dg[n].tbuf /\ e.i = e.body.size - dg[n].left}
Chains == \A n, m \in Node : n # m => Chain(n, m, dg[m], rx[m], tx[n], Ends(n))
Begun(x, m) ==
  x.receiving => /\ x.from # m /\ Len(x.rbuf) < Being(x).size
                 /\ x.rbuf = Parts(Being(x), Len(x.rbuf))
Prefixes == \A m \in Node : Begun(dg[m], m)
Wholes(v) == \A k \in 1 .. Len(v) : v[k] = Parts(First(v[k]), First(v[k]).size)
WholeInv == lost \/ (Chains /\ Prefixes /\ Wholes(delivered))

LEMMA PartsMore ==
  ASSUME NEW b \in Body, NEW k \in Nat
  PROVE  /\ Parts(b, k) \in Seq(Body \X Nat) /\ Len(Parts(b, k)) = k
         /\ Append(Parts(b, k), <<b, k + 1>>) = Parts(b, k + 1)
         /\ Append(<< >>, <<b, 1>>) = Parts(b, 1)
         /\ First(Parts(b, k + 1)) = b
<1>1. ASSUME NEW j \in Nat
      PROVE  Parts(b, j) \in Seq(Body \X Nat) /\ Len(Parts(b, j)) = j
             /\ \A i \in 1 .. j : Parts(b, j)[i] = <<b, i>>
  <2>1. \A i \in 1 .. j : <<b, i>> \in Body \X Nat
    OBVIOUS
  <2>2. Parts(b, j) \in [1 .. j -> Body \X Nat]
    BY <2>1 DEF Parts
  <2>3. Parts(b, j) \in Seq(Body \X Nat)
    BY <2>2
  <2>4. Len(Parts(b, j)) = j
    BY <2>2, <2>3, LenProperties
  <2> QED BY <2>3, <2>4 DEF Parts
<1>2. ASSUME NEW j \in Nat, NEW s \in Seq(Body \X Nat), Len(s) = j,
             \A i \in 1 .. j : s[i] = <<b, i>>
      PROVE  Append(s, <<b, j + 1>>) = Parts(b, j + 1)
  <2>1. <<b, j + 1>> \in Body \X Nat
    OBVIOUS
  <2>2. PICK x \in Body \X Nat : x = <<b, j + 1>>
    BY <2>1
  <2>3. PICK u : u = Append(s, x)
    OBVIOUS
  <2>4. u \in Seq(Body \X Nat) /\ Len(u) = j + 1 /\ u[j + 1] = x /\ \A i \in 1 .. j : u[i] = s[i]
    BY <1>2, <2>3, Appended
  <2>5. PICK v : v = Parts(b, j + 1)
    OBVIOUS
  <2>6. v \in Seq(Body \X Nat) /\ Len(v) = j + 1 /\ \A i \in 1 .. j + 1 : v[i] = <<b, i>>
    <3>1. PICK l \in Nat : l = j + 1
      OBVIOUS
    <3>2. /\ Parts(b, l) \in Seq(Body \X Nat) /\ Len(Parts(b, l)) = l
          /\ \A i \in 1 .. l : Parts(b, l)[i] = <<b, i>>
      BY <1>1
    <3> QED BY <2>5, <3>1, <3>2
  <2>7. \A i \in 1 .. j + 1 : u[i] = v[i]
    <3> SUFFICES ASSUME NEW i \in 1 .. j + 1 PROVE u[i] = v[i]
      OBVIOUS
    <3>1. CASE i = j + 1
      BY <2>2, <2>4, <2>6, <3>1
    <3>2. CASE i # j + 1
      <4>1. i \in 1 .. j
        BY <3>2
      <4> QED BY <1>2, <2>4, <2>6, <4>1
    <3> QED BY <3>1, <3>2
  <2>8. u = v
    BY <2>4, <2>6, <2>7, SeqEqual
  <2> QED BY <2>2, <2>3, <2>5, <2>8
<1>3. Append(Parts(b, k), <<b, k + 1>>) = Parts(b, k + 1)
  BY <1>1, <1>2
<1>4. Append(<< >>, <<b, 1>>) = Parts(b, 1)
  <2>1. << >> \in Seq(Body \X Nat) /\ Len(<< >>) = 0 /\ 0 \in Nat /\ 0 + 1 = 1 /\ 1 .. 0 = {}
    OBVIOUS
  <2>2. Append(<< >>, <<b, 0 + 1>>) = Parts(b, 0 + 1)
    BY <1>2, <2>1
  <2> QED BY <2>2
<1>5. First(Parts(b, k + 1)) = b
  <2>1. 1 \in 1 .. k + 1 /\ k + 1 \in Nat
    OBVIOUS
  <2>2. Parts(b, k + 1)[1] = <<b, 1>>
    BY <1>1, <2>1
  <2> QED BY <2>2 DEF First
<1> QED BY <1>1, <1>3, <1>4, <1>5

----------------------------------------------------------------------------
(* What n may send last, *)
LEMMA EndsHave ==
  ASSUME NEW n \in Node
  PROVE  AMD(n) \in Ends(n) /\ AMD(n) \in Ends(n)'
<1>1. AMD(n) \in Frame /\ ~MustGoOn(AMD(n))
  BY AMDKind DEF MustGoOn, IsFragment
<1> QED BY <1>1 DEF Ends

(* ... if it goes on as before, *)
LEMMA EndsSame ==
  ASSUME NEW n \in Node, n \in on' <=> n \in on, hdr[n] = "OLCB" => hdr'[n] = "OLCB",
         dg'[n].left = dg[n].left, dg'[n].tbuf = dg[n].tbuf
  PROVE  \A e : e \in Ends(n) => e \in Ends(n)'
BY DEF Ends

(* ... or if it was not in the middle of a datagram. *)
LEMMA EndsIdle ==
  ASSUME NEW n \in Node, n \in on, hdr[n] # "OLCB" \/ ~(dg[n].left > 0)
  PROVE  \A e : e \in Ends(n) => e \in Ends(n)'
BY DEF Ends

(* What has been put together is what it was, and so is the beginning. *)
LEMMA Untouched ==
  ASSUME Prefixes,
         \A m \in Node : /\ dg'[m].receiving = dg[m].receiving /\ dg'[m].from = dg[m].from
                         /\ dg'[m].rbuf = dg[m].rbuf
  PROVE  /\ Prefixes'
         /\ \A n, m \in Node : Start(n, dg'[m]) = Start(n, dg[m])
<1>1. \A m \in Node : Being(dg'[m]) = Being(dg[m])
  BY DEF Being
<1>2. \A m \in Node : Begun(dg'[m], m)
  BY <1>1 DEF Prefixes, Begun
<1>3. \A n, m \in Node : Start(n, dg'[m]) = Start(n, dg[m])
  BY <1>1 DEF Start
<1> QED BY <1>2, <1>3 DEF Prefixes

(* A pair of nodes whose frames have not moved. *)
LEMMA PairKept ==
  ASSUME DatagramInv, Chains, NEW n \in Node, NEW m \in Node, n # m,
         tx'[n] = tx[n], rx'[m] = rx[m], Start(n, dg'[m]) = Start(n, dg[m]),
         \A e : e \in Ends(n) => e \in Ends(n)'
  PROVE  Chain(n, m, dg'[m], rx'[m], tx'[n], Ends(n)')
<1>1. PICK E : E = Ends(n)
  OBVIOUS
<1>2. PICK F : F = Ends(n)'
  OBVIOUS
<1>3. Chain(n, m, dg[m], rx[m], tx[n], E)
  BY <1>1 DEF Chains
<1>4. tx[n] \in Seq(Frame) /\ rx[m] \in Seq(Frame)
  BY DEF DatagramInv, Traffic, Buffers
<1>5. \A e \in Between(n, m) : e \in E => e \in F
  BY <1>1, <1>2
<1>6. Chain(n, m, dg'[m], rx[m], tx[n], F)
  BY <1>3, <1>4, <1>5, ChainKept
<1> QED BY <1>2, <1>6

(* n has one frame more to send. *)
LEMMA PairQueued ==
  ASSUME DatagramInv, Chains, NEW n \in Node, NEW m \in Node, n # m,
         NEW g \in Frame, tx'[n] = Append(tx[n], g), rx'[m] = rx[m],
         Start(n, dg'[m]) = Start(n, dg[m]),
         g \notin Between(n, m) => \A e \in Between(n, m) : e \in Ends(n) => e \in Ends(n)',
         g \in Between(n, m) =>
           g \in Ends(n)' /\ \A e \in Between(n, m) : e \in Ends(n) => Follows(g, e)
  PROVE  Chain(n, m, dg'[m], rx'[m], tx'[n], Ends(n)')
<1>1. PICK E : E = Ends(n)
  OBVIOUS
<1>2. PICK F : F = Ends(n)'
  OBVIOUS
<1>3. Chain(n, m, dg[m], rx[m], tx[n], E)
  BY <1>1 DEF Chains
<1>4. tx[n] \in Seq(Frame) /\ rx[m] \in Seq(Frame) /\ Append(tx[n], g) \in Seq(Frame)
  BY DEF DatagramInv, Traffic, Buffers
<1>5. Chain(n, m, dg[m], rx[m], Append(tx[n], g), F)
  BY <1>1, <1>2, <1>3, <1>4, ChainQueued
<1>6. \A e \in Between(n, m) : e \in F => e \in F
  OBVIOUS
<1>7. Chain(n, m, dg'[m], rx[m], Append(tx[n], g), F)
  BY <1>4, <1>5, <1>6, ChainKept
<1> QED BY <1>2, <1>7

----------------------------------------------------------------------------
(* The steps *)
LEMMA SendWhole ==
  ASSUME DatagramInv, Chains, Prefixes, NEW r \in Route, r[1] \in Node, Send(r[1], r[2], r[3])
  PROVE  Chains' /\ Prefixes' /\ delivered' = delivered
<1> DEFINE n == r[1]
<1>0. /\ n \in on /\ ~dg[n].reserved
      /\ UNCHANGED <<hdr, on, tx, rx, delivered>>
  BY DEF Send, hist
<1>1. PICK x : x = [by |-> n, no |-> count.send + 1, to |-> r[2], size |-> r[3]]
  OBVIOUS
<1>2. dg' = [dg EXCEPT ![n].reserved = TRUE, ![n].tbuf = x, ![n].left = r[3]]
  BY <1>1 DEF Send
<1>3. dg \in [Node -> Object] /\ dg[n].left = 0
  BY <1>0 DEF DatagramInv, Traffic, Exchange, Objects
<1>4. /\ \A m \in Node : /\ dg'[m].receiving = dg[m].receiving /\ dg'[m].from = dg[m].from
                         /\ dg'[m].rbuf = dg[m].rbuf
      /\ \A m \in Node : m # n => dg'[m] = dg[m]
  BY <1>2, <1>3 DEF Object
<1>5. Prefixes' /\ \A k, m \in Node : Start(k, dg'[m]) = Start(k, dg[m])
  BY <1>4, Untouched
<1>6. ASSUME NEW k \in Node PROVE \A e : e \in Ends(k) => e \in Ends(k)'
  <2>1. CASE k = n
    <3>1. ~(dg[n].left > 0)
      BY <1>3
    <3> QED BY <1>0, <2>1, <3>1, EndsIdle
  <2>2. CASE k # n
    BY <1>0, <1>4, <2>2, EndsSame
  <2> QED BY <2>1, <2>2
<1>7. ASSUME NEW k \in Node, NEW m \in Node, k # m
      PROVE  Chain(k, m, dg'[m], rx'[m], tx'[k], Ends(k)')
  BY <1>0, <1>5, <1>6, <1>7, PairKept
<1> QED BY <1>0, <1>5, <1>7 DEF Chains

LEMMA CheckWhole ==
  ASSUME DatagramInv, Chains, Prefixes, NEW n \in Node, Check(n)
  PROVE  Chains' /\ Prefixes' /\ delivered' = delivered
<1> DEFINE x == dg[n].tbuf
           i == x.size - dg[n].left + 1
<1>0. /\ n \in on /\ dg[n].left > 0
      /\ UNCHANGED <<hdr, on, rx, delivered>>
      /\ dg' = [dg EXCEPT ![n].left = @ - 1]
  BY DEF Check
<1>1. PICK f : f = Fragment(x, i)
  OBVIOUS
<1>2. \/ tx' = [tx EXCEPT ![n] = Append(@, f)] /\ hdr[n] = "OLCB"
      \/ tx' = tx /\ hdr[n] # "OLCB"
  BY <1>1 DEF Check
<1>3. /\ dg \in [Node -> Object] /\ dg[n].left \in Nat /\ x \in Body /\ x.by = n
      /\ dg[n].left <= x.size
  BY <1>0 DEF DatagramInv, Traffic, Exchange, Objects, Object
<1>4. x.size \in Nat \ {0} /\ x.to \in Node
  BY <1>3 DEF Body
<1>5. i \in 1 .. x.size
  BY <1>0, <1>3, <1>4
<1>6. /\ f \in Frame /\ IsFragment(f) /\ f.src = n /\ f.dst = x.to /\ f.body = x /\ f.i = i
      /\ f.kind \in {"FIRST", "MID"} <=> i < x.size
  BY <1>1, <1>3, <1>5, FragmentKind
<1>7. /\ \A m \in Node : /\ dg'[m].receiving = dg[m].receiving /\ dg'[m].from = dg[m].from
                         /\ dg'[m].rbuf = dg[m].rbuf
      /\ \A m \in Node : m # n => dg'[m] = dg[m]
      /\ dg'[n].left = dg[n].left - 1 /\ dg'[n].tbuf = x
  BY <1>0, <1>3 DEF Object
<1>8. Prefixes' /\ \A k, m \in Node : Start(k, dg'[m]) = Start(k, dg[m])
  BY <1>7, Untouched
<1>9. tx \in [Node -> Seq(Frame)]
  BY DEF DatagramInv, Traffic, Buffers
<1>10. ASSUME NEW k \in Node, NEW m \in Node, k # m
       PROVE  Chain(k, m, dg'[m], rx'[m], tx'[k], Ends(k)')
  <2>1. CASE k # n
    <3>1. \A e : e \in Ends(k) => e \in Ends(k)'
      BY <1>0, <1>7, <2>1, EndsSame
    <3>2. tx'[k] = tx[k] /\ rx'[m] = rx[m]
      BY <1>0, <1>2, <1>9, <2>1
    <3> QED BY <1>8, <1>10, <3>1, <3>2, PairKept
  <2>2. CASE k = n /\ tx' = tx /\ hdr[n] # "OLCB"
    <3>1. \A e : e \in Ends(k) => e \in Ends(k)'
      BY <1>0, <2>2, EndsIdle
    <3>2. tx'[k] = tx[k] /\ rx'[m] = rx[m]
      BY <1>0, <2>2
    <3> QED BY <1>8, <1>10, <3>1, <3>2, PairKept
  <2>3. CASE k = n /\ tx' = [tx EXCEPT ![n] = Append(@, f)] /\ hdr[n] = "OLCB"
    <3>1. tx'[k] = Append(tx[k], f) /\ rx'[m] = rx[m]
      BY <1>0, <1>9, <2>3
    <3>2. ASSUME NEW e \in Between(k, m), e \in Ends(k), MustGoOn(e)
          PROVE  e.body = x /\ e.i = x.size - dg[n].left /\ x.to = m
      <4>1. e.body = x /\ e.i = e.body.size - dg[n].left
        BY <1>0, <2>3, <3>2 DEF Ends
      <4>2. e \in Frame /\ IsFragment(e) /\ e.dst = m
        BY <3>2 DEF Between, MustGoOn, IsFragment, IsMapping
      <4>3. e.dst = e.body.to
        BY <4>2, FragmentFacts
      <4> QED BY <4>1, <4>2, <4>3
    <3>3. f \in Between(k, m) <=> x.to = m
      BY <1>6, <2>3, FrameKinds DEF Between
    <3>4. ASSUME f \notin Between(k, m), NEW e \in Between(k, m), e \in Ends(k)
          PROVE  e \in Ends(k)'
      <4>1. ~MustGoOn(e)
        BY <3>2, <3>3, <3>4
      <4> QED BY <3>4, <4>1 DEF Ends
    <3>5. f \in Ends(k)'
      <4>1. MustGoOn(f) => dg'[n].left > 0
        BY <1>3, <1>4, <1>6, <1>7 DEF MustGoOn
      <4>2. i = x.size - dg'[n].left
        BY <1>3, <1>4, <1>7
      <4>3. hdr'[n] = "OLCB" /\ f.body = dg'[n].tbuf /\ f.i = f.body.size - dg'[n].left
        BY <1>0, <1>6, <1>7, <2>3, <4>2
      <4> QED BY <1>6, <2>3, <4>1, <4>3 DEF Ends
    <3>6. ASSUME NEW e \in Between(k, m), e \in Ends(k)
          PROVE  Follows(f, e)
      <4>1. CASE MustGoOn(e)
        <5>1. e.body = x /\ e.i + 1 = i
          BY <3>2, <3>6, <4>1
        <5> QED BY <1>1, <5>1 DEF Follows
      <4>2. CASE ~MustGoOn(e)
        BY <4>2 DEF Follows
      <4> QED BY <4>1, <4>2
    <3>7. Start(k, dg'[m]) = Start(k, dg[m])
      BY <1>8
    <3>8. f \notin Between(k, m) => \A e \in Between(k, m) : e \in Ends(k) => e \in Ends(k)'
      BY <3>4
    <3>9. f \in Between(k, m) =>
            f \in Ends(k)' /\ \A e \in Between(k, m) : e \in Ends(k) => Follows(f, e)
      BY <3>5, <3>6
    <3> QED BY <1>6, <1>10, <3>1, <3>7, <3>8, <3>9, PairQueued
  <2> QED BY <1>2, <2>1, <2>2, <2>3
<1> QED BY <1>0, <1>8, <1>10 DEF Chains

(* An alias definition is queued: any frame may come before it. *)
LEMMA AMDQueued ==
  ASSUME DatagramInv, Chains, Prefixes, NEW n \in Node, dg' = dg,
         rx' = rx, tx' = [tx EXCEPT ![n] = Append(@, AMD(n))],
         \A k \in Node : k # n => hdr'[k] = hdr[k] /\ (k \in on' <=> k \in on)
  PROVE  Chains' /\ Prefixes'
<1>1. Prefixes' /\ \A k, m \in Node : Start(k, dg'[m]) = Start(k, dg[m])
  BY Untouched
<1>2. tx \in [Node -> Seq(Frame)]
  BY DEF DatagramInv, Traffic, Buffers
<1>3. ASSUME NEW k \in Node, NEW m \in Node, k # m
      PROVE  Chain(k, m, dg'[m], rx'[m], tx'[k], Ends(k)')
  <2>1. CASE k # n
    <3>1. \A e : e \in Ends(k) => e \in Ends(k)'
      BY <2>1, EndsSame
    <3>2. tx'[k] = tx[k] /\ rx'[m] = rx[m]
      BY <1>2, <2>1
    <3> QED BY <1>1, <1>3, <3>1, <3>2, PairKept
  <2>2. CASE k = n
    <3>1. PICK g : g = AMD(n)
      OBVIOUS
    <3>2. g \in Frame /\ g \in Between(k, m) /\ g \in Ends(k)' /\ IsMapping(g)
      BY <2>2, <3>1, AMDBetween, AMDKind, EndsHave
    <3>3. tx'[k] = Append(tx[k], g) /\ rx'[m] = rx[m]
      BY <1>2, <2>2, <3>1
    <3>4. \A e \in Between(k, m) : e \in Ends(k) => Follows(g, e)
      BY <3>2 DEF Follows
    <3>5. Start(k, dg'[m]) = Start(k, dg[m])
      BY <1>1
    <3> QED BY <1>3, <3>2, <3>3, <3>4, <3>5, PairQueued
  <2> QED BY <2>1, <2>2
<1> QED BY <1>1, <1>3 DEF Chains

LEMMA EnquiryWhole ==
  ASSUME DatagramInv, Chains, Prefixes, NEW n \in Node, Enquiry(n)
  PROVE  Chains' /\ Prefixes' /\ delivered' = delivered
<1>1. /\ UNCHANGED <<dg, on, rx, delivered>>
      /\ tx' = [tx EXCEPT ![n] = Append(@, AMD(n))]
      /\ hdr' = [hdr EXCEPT ![n] = "CAN"]
  BY DEF Enquiry, hist
<1>2. hdr \in [Node -> {"OLCB", "CAN"}]
  BY DEF DatagramInv, Bounds
<1>3. \A k \in Node : k # n => hdr'[k] = hdr[k] /\ (k \in on' <=> k \in on)
  BY <1>1, <1>2
<1>4. dg' = dg /\ rx' = rx /\ delivered' = delivered
  BY <1>1
<1> QED BY <1>1, <1>3, <1>4, AMDQueued

LEMMA RestartWhole ==
  ASSUME DatagramInv, Chains, Prefixes, NEW n \in Node, Restart(n)
  PROVE  Chains' /\ Prefixes' /\ delivered' = delivered
<1>1. /\ n \notin on /\ Quiet(n) /\ UNCHANGED <<dg, rx, delivered>>
      /\ on' = on \cup {n} /\ tx' = [tx EXCEPT ![n] = <<AMD(n)>>]
      /\ hdr' = [hdr EXCEPT ![n] = "OLCB"]
  BY DEF Restart, hist
<1>2. hdr \in [Node -> {"OLCB", "CAN"}] /\ tx \in [Node -> Seq(Frame)] /\ tx[n] = << >>
  BY <1>1, QuietEmpty DEF DatagramInv, Bounds, Stopped, Traffic, Buffers
<1>3. \A k \in Node : k # n => hdr'[k] = hdr[k] /\ (k \in on' <=> k \in on)
  BY <1>1, <1>2
<1>4. tx' = [tx EXCEPT ![n] = Append(@, AMD(n))]
  <2>1. Append(tx[n], AMD(n)) = <<AMD(n)>>
    BY <1>2
  <2> QED BY <1>1, <1>2, <2>1
<1>5. dg' = dg /\ rx' = rx /\ delivered' = delivered
  BY <1>1
<1> QED BY <1>3, <1>4, <1>5, AMDQueued

LEMMA BusWhole ==
  ASSUME DatagramInv, Chains, Prefixes, NEW n \in Node, Bus(n)
  PROVE  Chains' /\ Prefixes' /\ delivered' = delivered
<1>0. /\ tx[n] # << >>
      /\ rx' = [m \in Node |-> IF m \in on /\ For(Head(tx[n]), m) THEN Append(rx[m], Head(tx[n]))
                               ELSE rx[m]]
      /\ tx' = [tx EXCEPT ![n] = Tail(@)]
      /\ UNCHANGED <<dg, hdr, on, delivered>>
  BY DEF Bus
<1>1. PICK f : f = Head(tx[n])
  OBVIOUS
<1>2. tx \in [Node -> Seq(Frame)] /\ rx \in [Node -> Seq(Frame)]
  BY DEF DatagramInv, Traffic, Buffers
<1>3. f \in Frame /\ f.src = n
  <2>1. /\ f = tx[n][1] /\ 1 \in 1 .. Len(tx[n])
    BY <1>0, <1>1, <1>2, LenProperties, EmptySeq
  <2>2. tx[n][1] \in Frame
    BY <1>2, <2>1, ElementOfSeq
  <2> QED BY <2>1, <2>2 DEF DatagramInv, Traffic, Buffers
<1>4. \A m \in Node : rx'[m] = IF m \in on /\ For(f, m) THEN Append(rx[m], f) ELSE rx[m]
  BY <1>0, <1>1
<1>5. Prefixes' /\ \A k, m \in Node : Start(k, dg'[m]) = Start(k, dg[m])
  BY <1>0, Untouched
<1>6. ASSUME NEW k \in Node, NEW m \in Node, k # m
      PROVE  Chain(k, m, dg'[m], rx'[m], tx'[k], Ends(k)')
  <2>1. PICK E : E = Ends(k)
    OBVIOUS
  <2>2. PICK q : q = rx'[m]
    OBVIOUS
  <2>3. PICK x : x = dg[m]
    OBVIOUS
  <2>4. PICK t : t = tx[k]
    OBVIOUS
  <2>5. Chain(k, m, x, rx[m], t, E) /\ AMD(k) \in E /\ Ends(k)' = E /\ dg'[m] = x
    <3>1. Ends(k)' = Ends(k)
      BY <1>0 DEF Ends
    <3> QED BY <1>0, <1>6, <2>1, <2>3, <2>4, <3>1, EndsHave DEF Chains
  <2>6. t \in Seq(Frame) /\ rx[m] \in Seq(Frame)
    BY <1>2, <2>4
  <2>7. CASE k # n
    <3>1. tx'[k] = t
      BY <1>0, <1>2, <2>4, <2>7
    <3>2. f \notin Between(k, m)
      BY <1>3, <2>7 DEF Between
    <3>3. Chain(k, m, x, Append(rx[m], f), t, E)
      BY <1>3, <2>5, <2>6, <3>2, ChainJoined
    <3>4. Chain(k, m, x, q, t, E)
      BY <1>4, <2>2, <2>5, <3>3
    <3> QED BY <2>2, <2>5, <3>1, <3>4
  <2>8. CASE k = n
    <3>1. tx'[k] = Tail(t) /\ t # << >> /\ f = Head(t)
      BY <1>0, <1>1, <1>2, <2>4, <2>8
    <3>2. f \in Between(k, m) => For(f, m)
      BY <1>3, <1>6, <2>8, FrameKinds DEF Between, For
    <3>3. Chain(k, m, x, q, Tail(t), E)
      <4>1. CASE m \in on
        <5>1. q = Append(rx[m], Head(t)) \/ (q = rx[m] /\ Head(t) \notin Between(k, m))
          BY <1>4, <2>2, <3>1, <3>2, <4>1
        <5> QED BY <2>5, <2>6, <3>1, <5>1, ChainBrought
      <4>2. CASE m \notin on
        <5>1. q = << >> /\ rx[m] = << >> /\ Start(k, x) = AMD(k)
          BY <1>4, <2>2, <2>3, <4>2 DEF DatagramInv, Stopped, Reset, Start
        <5> QED BY <2>5, <2>6, <3>1, <5>1, ChainDropped
      <4> QED BY <4>1, <4>2
    <3> QED BY <2>2, <2>5, <3>1, <3>3
  <2> QED BY <2>7, <2>8
<1> QED BY <1>0, <1>5, <1>6 DEF Chains

LEMMA CrashWhole ==
  ASSUME DatagramInv, Chains, Prefixes, NEW n \in Node, Crash(n)
  PROVE  Chains' /\ Prefixes' /\ delivered' = delivered
<1>0. /\ n \in on /\ on' = on \ {n}
      /\ tx' = [tx EXCEPT ![n] = << >>] /\ rx' = [rx EXCEPT ![n] = << >>]
      /\ dg' = [dg EXCEPT ![n] = Reset]
      /\ UNCHANGED <<hdr, delivered>>
  BY DEF Crash
<1>1. tx \in [Node -> Seq(Frame)] /\ rx \in [Node -> Seq(Frame)] /\ dg \in [Node -> Object]
  BY DEF DatagramInv, Traffic, Buffers, Exchange, Objects
<1>2. /\ tx'[n] = << >> /\ rx'[n] = << >> /\ dg'[n] = Reset
      /\ \A m \in Node : m # n => tx'[m] = tx[m] /\ rx'[m] = rx[m] /\ dg'[m] = dg[m]
  BY <1>0, <1>1
<1>3. ~dg'[n].receiving
  BY <1>2 DEF Reset
<1>4. \A k \in Node : Start(k, dg'[n]) = AMD(k)
  BY <1>3 DEF Start
<1>5. Prefixes'
  <2>1. \A m \in Node : Begun(dg'[m], m)
    BY <1>2, <1>3 DEF Prefixes, Begun
  <2> QED BY <2>1 DEF Prefixes
<1>6. ASSUME NEW k \in Node, NEW m \in Node, k # m
      PROVE  Chain(k, m, dg'[m], rx'[m], tx'[k], Ends(k)')
  <2>1. PICK E : E = Ends(k)
    OBVIOUS
  <2>2. PICK F : F = Ends(k)'
    OBVIOUS
  <2>3. Chain(k, m, dg[m], rx[m], tx[k], E) /\ AMD(k) \in E
    BY <1>6, <2>1, EndsHave DEF Chains
  <2>4. tx[k] \in Seq(Frame) /\ rx[m] \in Seq(Frame)
    BY <1>1
  <2>5. CASE k = n
    <3>1. Between(k, m) \subseteq F
      BY <1>0, <2>2, <2>5 DEF Ends, Between
    <3>2. Chain(k, m, dg[m], rx[m], << >>, F)
      BY <2>3, <2>4, <3>1, ChainCutOff
    <3> QED BY <1>2, <1>6, <2>2, <2>5, <3>2
  <2>6. CASE k # n
    <3>1. \A e : e \in Ends(k) => e \in Ends(k)'
      BY <1>0, <1>2, <2>6, EndsSame
    <3>2. CASE m # n
      BY <1>2, <1>6, <2>6, <3>1, <3>2, PairKept
    <3>3. CASE m = n
      <4>1. Start(k, dg'[m]) = AMD(k)
        BY <1>4, <3>3
      <4>2. Chain(k, m, dg'[m], << >>, tx[k], E)
        BY <2>3, <2>4, <4>1, ChainReset
      <4>3. \A e \in Between(k, m) : e \in E => e \in F
        BY <2>1, <2>2, <3>1
      <4>4. Start(k, dg'[m]) = Start(k, dg'[m]) /\ << >> \in Seq(Frame)
        OBVIOUS
      <4>5. Chain(k, m, dg'[m], << >>, tx[k], F)
        BY <2>4, <4>2, <4>3, <4>4, ChainKept
      <4> QED BY <1>2, <2>2, <2>6, <3>3, <4>5
    <3> QED BY <3>2, <3>3
  <2> QED BY <2>5, <2>6
<1> QED BY <1>0, <1>5, <1>6 DEF Chains

(* n gives its alias up: an AMR comes behind what it has sent, if anything. *)
LEMMA GiveUpWhole ==
  ASSUME DatagramInv, Chains, Prefixes, NEW n \in Node, GiveUp(n)
  PROVE  Chains' /\ Prefixes' /\ delivered' = delivered
<1>0. /\ n \in on /\ on' = on \ {n}
      /\ tx' = [tx EXCEPT ![n] = IF XmtReady(n) THEN Append(@, AMR(n)) ELSE @]
      /\ rx' = [rx EXCEPT ![n] = << >>]
      /\ dg' = [dg EXCEPT ![n] = Reset]
      /\ UNCHANGED <<hdr, delivered>>
  BY DEF GiveUp
<1>1. tx \in [Node -> Seq(Frame)] /\ rx \in [Node -> Seq(Frame)] /\ dg \in [Node -> Object]
  BY DEF DatagramInv, Traffic, Buffers, Exchange, Objects
<1>2. /\ tx'[n] \in {tx[n], Append(tx[n], AMR(n))} /\ rx'[n] = << >> /\ dg'[n] = Reset
      /\ \A m \in Node : m # n => tx'[m] = tx[m] /\ rx'[m] = rx[m] /\ dg'[m] = dg[m]
  BY <1>0, <1>1
<1>3. ~dg'[n].receiving
  BY <1>2 DEF Reset
<1>4. \A k \in Node : Start(k, dg'[n]) = AMD(k)
  BY <1>3 DEF Start
<1>5. Prefixes'
  <2>1. \A m \in Node : Begun(dg'[m], m)
    BY <1>2, <1>3 DEF Prefixes, Begun
  <2> QED BY <2>1 DEF Prefixes
<1>6. ASSUME NEW k \in Node, NEW m \in Node, k # m
      PROVE  Chain(k, m, dg'[m], rx'[m], tx'[k], Ends(k)')
  <2>1. PICK E : E = Ends(k)
    OBVIOUS
  <2>2. PICK F : F = Ends(k)'
    OBVIOUS
  <2>3. Chain(k, m, dg[m], rx[m], tx[k], E) /\ AMD(k) \in E
    BY <1>6, <2>1, EndsHave DEF Chains
  <2>4. tx[k] \in Seq(Frame) /\ rx[m] \in Seq(Frame)
    BY <1>1
  <2>5. CASE k = n
    <3>1. Between(k, m) \subseteq F
      BY <1>0, <2>2, <2>5 DEF Ends, Between
    <3>2. PICK g : g = AMR(k)
      OBVIOUS
    <3>3. g \in Frame /\ g \in Between(k, m) /\ IsMapping(g)
      BY <3>2, AMRKind DEF Between
    <3>4. \A e : Follows(g, e)
      BY <3>3 DEF Follows
    <3>5. Chain(k, m, dg[m], rx[m], Append(tx[k], g), F)
      BY <2>3, <2>4, <3>1, <3>3, <3>4, ChainQueued
    <3>6. \A e \in Between(k, m) : e \in E => e \in F
      BY <3>1
    <3>7. Start(k, dg[m]) = Start(k, dg[m])
      OBVIOUS
    <3>8. Chain(k, m, dg[m], rx[m], tx[k], F)
      BY <2>3, <2>4, <3>6, <3>7, ChainKept
    <3>9. dg'[m] = dg[m] /\ rx'[m] = rx[m] /\ tx'[k] \in {tx[k], Append(tx[k], g)}
      BY <1>2, <1>6, <2>5, <3>2
    <3> QED BY <2>2, <3>5, <3>8, <3>9
  <2>6. CASE k # n
    <3>1. \A e : e \in Ends(k) => e \in Ends(k)'
      BY <1>0, <1>2, <2>6, EndsSame
    <3>2. CASE m # n
      BY <1>2, <1>6, <2>6, <3>1, <3>2, PairKept
    <3>3. CASE m = n
      <4>1. Start(k, dg'[m]) = AMD(k)
        BY <1>4, <3>3
      <4>2. Chain(k, m, dg'[m], << >>, tx[k], E)
        BY <2>3, <2>4, <4>1, ChainReset
      <4>3. \A e \in Between(k, m) : e \in E => e \in F
        BY <2>1, <2>2, <3>1
      <4>4. Start(k, dg'[m]) = Start(k, dg'[m]) /\ << >> \in Seq(Frame)
        OBVIOUS
      <4>5. Chain(k, m, dg'[m], << >>, tx[k], F)
        BY <2>4, <4>2, <4>3, <4>4, ChainKept
      <4> QED BY <1>2, <2>2, <2>6, <3>3, <4>5
    <3> QED BY <3>2, <3>3
  <2> QED BY <2>5, <2>6
<1> QED BY <1>0, <1>5, <1>6 DEF Chains

(* What n takes follows what it has put together. *)
LEMMA TakenNext ==
  ASSUME DatagramInv, Chains, NEW n \in Node, rx[n] # << >>, NEW f, f = Head(rx[n]),
         f \in Frame, f.src # n, f \in Between(f.src, n)
  PROVE  Follows(f, Start(f.src, dg[n]))
<1>1. PICK k \in Node : k = f.src
  BY FrameKinds
<1>2. PICK E : E = Ends(k)
  OBVIOUS
<1>3. Chain(k, n, dg[n], rx[n], tx[k], E)
  BY <1>1, <1>2 DEF Chains
<1>4. tx[k] \in Seq(Frame) /\ rx[n] \in Seq(Frame)
  BY DEF DatagramInv, Traffic, Buffers
<1>5. Head(rx[n]) \in Between(k, n)
  BY <1>1
<1>6. Follows(Head(rx[n]), Start(k, dg[n]))
  BY <1>3, <1>4, <1>5, TakenFollows
<1> QED BY <1>1, <1>6

(* A receiver waits for the next fragment, *)
Held(x) ==
  /\ x \in Object
  /\ ~x.receiving => x.rbuf = << >>
  /\ x.receiving => x.rbuf # << >> /\ Being(x) \in Body
LEMMA NextFragment ==
  ASSUME NEW n \in Node, NEW x, Held(x), x.receiving, Begun(x, n), NEW f \in Frame,
         IsFragment(f), Follows(f, Start(x.from, x))
  PROVE  /\ Len(x.rbuf) \in Nat \ {0} /\ f.body = Being(x) /\ f.i = Len(x.rbuf) + 1
<1>1. PICK b \in Body : b = Being(x)
  BY DEF Held
<1>2. PICK k : k = Len(x.rbuf)
  OBVIOUS
<1>3. k \in Nat \ {0} /\ k < b.size /\ b.size \in Nat
  <2>1. x.rbuf \in Seq(Body \X Nat) /\ x.rbuf # << >>
    BY DEF Held, Object
  <2>2. k \in Nat /\ k # 0
    BY <1>2, <2>1, LenProperties, EmptySeq
  <2> QED BY <1>1, <1>2, <2>2 DEF Begun, Body
<1>4. k \in 1 .. b.size /\ k + 1 \in 1 .. b.size
  BY <1>3
<1>5. PICK g : g = Fragment(b, k)
  OBVIOUS
<1>6. g.body = b /\ g.i = k /\ MustGoOn(g)
  BY <1>3, <1>4, <1>5, FragmentKind DEF MustGoOn
<1>7. Follows(f, g)
  BY <1>1, <1>2, <1>5 DEF Start
<1>8. ~IsMapping(f)
  BY DEF IsFragment, IsMapping
<1>9. f = Fragment(b, k + 1)
  BY <1>6, <1>7, <1>8 DEF Follows
<1>10. f.body = b /\ f.i = k + 1
  BY <1>4, <1>9, FragmentKind
<1> QED BY <1>1, <1>2, <1>3, <1>10

(* ... and what fits in goes on with what is there. *)
LEMMA FitsOn ==
  ASSUME NEW n \in Node, NEW x, Held(x), Begun(x, n), NEW f \in Frame, IsFragment(f),
         Fits(x, f), Follows(f, Start(f.src, x))
  PROVE  /\ Joined(x, f) = Parts(f.body, f.i) /\ Len(Parts(f.body, f.i)) = f.i
         /\ First(Parts(f.body, f.i)) = f.body
<1>0. /\ f.body \in Body /\ f.i \in 1 .. f.body.size /\ f.body.size \in Nat \ {0}
      /\ Starts(f) <=> f.i = 1
  BY FragmentFacts
<1>1. PICK b \in Body : b = f.body
  BY <1>0
<1>2. PICK k \in Nat : f.i = k + 1
  <2>1. f.i - 1 \in Nat /\ f.i = (f.i - 1) + 1
    BY <1>0
  <2> QED BY <2>1
<1>3. /\ Parts(b, k) \in Seq(Body \X Nat) /\ Len(Parts(b, k)) = k
      /\ Append(Parts(b, k), <<b, k + 1>>) = Parts(b, k + 1)
      /\ Append(<< >>, <<b, 1>>) = Parts(b, 1)
      /\ First(Parts(b, k + 1)) = b
  BY PartsMore
<1>4. PICK l \in Nat : l = k + 1
  OBVIOUS
<1>5. Len(Parts(b, l)) = l
  <2>1. /\ Parts(b, l) \in Seq(Body \X Nat) /\ Len(Parts(b, l)) = l
        /\ Append(Parts(b, l), <<b, l + 1>>) = Parts(b, l + 1)
        /\ Append(<< >>, <<b, 1>>) = Parts(b, 1)
        /\ First(Parts(b, l + 1)) = b
    BY PartsMore
  <2> QED BY <2>1
<1>6. Joined(x, f) = Parts(b, l)
  <2>1. CASE Starts(f)
    <3>1. x.rbuf = << >> /\ f.i = 1 /\ l = 1
      BY <1>0, <1>2, <1>4, <2>1 DEF Fits, Held
    <3> QED BY <1>1, <1>3, <3>1 DEF Joined
  <2>2. CASE ~Starts(f)
    <3>1. x.receiving /\ x.from = f.src
      BY <2>2 DEF Fits
    <3>2. Len(x.rbuf) \in Nat \ {0} /\ f.body = Being(x) /\ f.i = Len(x.rbuf) + 1
      BY <3>1, NextFragment
    <3>3. Len(x.rbuf) = k
      BY <1>2, <3>2
    <3>4. x.rbuf = Parts(b, k)
      BY <1>1, <3>1, <3>2, <3>3 DEF Begun
    <3> QED BY <1>1, <1>2, <1>3, <1>4, <3>4 DEF Joined
  <2> QED BY <2>1, <2>2
<1>7. First(Parts(b, l)) = b
  BY <1>3, <1>4
<1> QED BY <1>1, <1>2, <1>4, <1>5, <1>6, <1>7

(* n takes f: it goes on with f, or waits for a beginning. *)
GoesBy(n, f) ==
  \A k \in Node : k # n =>
    IF f \in Between(k, n) THEN Start(k, dg'[n]) \in {f, AMD(k)}
    ELSE Start(k, dg'[n]) = Start(k, dg[n])
Answers(n) ==
  /\ tx'[n] = tx[n] \/ \E g \in Frame : IsReply(g) /\ tx'[n] = Append(tx[n], g)
  /\ \A e : e \in Ends(n) => e \in Ends(n)'
Alone(n) ==
  \A m \in Node : m # n => dg'[m] = dg[m] /\ tx'[m] = tx[m] /\ hdr'[m] = hdr[m]
LEMMA TakenWhole ==
  ASSUME DatagramInv, Chains, Prefixes, NEW n \in Node, Receive(n), NEW f, f = Head(rx[n]),
         GoesBy(n, f), Answers(n), Alone(n), Begun(dg'[n], n)
  PROVE  Chains' /\ Prefixes'
<1>0. rx[n] # << >> /\ rx' = [rx EXCEPT ![n] = Tail(@)] /\ on' = on
  BY DEF Receive
<1>1. tx \in [Node -> Seq(Frame)] /\ rx \in [Node -> Seq(Frame)]
  BY DEF DatagramInv, Traffic, Buffers
<1>2. rx'[n] = Tail(rx[n]) /\ \A m \in Node : m # n => rx'[m] = rx[m]
  BY <1>0, <1>1
<1>3. Prefixes'
  <2>1. \A m \in Node : Begun(dg'[m], m)
    BY DEF Alone, Prefixes
  <2> QED BY <2>1 DEF Prefixes
<1>4. ASSUME NEW k \in Node PROVE \A e : e \in Ends(k) => e \in Ends(k)'
  <2>1. CASE k = n
    BY <2>1 DEF Answers
  <2>2. CASE k # n
    BY <1>0, <2>2, EndsSame DEF Alone
  <2> QED BY <2>1, <2>2
<1>5. ASSUME NEW k \in Node, NEW m \in Node, k # m
      PROVE  Chain(k, m, dg'[m], rx'[m], tx'[k], Ends(k)')
  <2>1. CASE m = n
    <3>1. PICK E : E = Ends(k)
      OBVIOUS
    <3>2. PICK F : F = Ends(k)'
      OBVIOUS
    <3>3. Chain(k, m, dg[m], rx[m], tx[k], E) /\ AMD(k) \in E
      BY <1>5, <3>1, EndsHave DEF Chains
    <3>4. tx[k] \in Seq(Frame) /\ rx[m] \in Seq(Frame) /\ rx[m] # << >> /\ Tail(rx[m]) \in Seq(Frame)
      BY <1>0, <1>1, <2>1, HeadTailProperties
    <3>5. \/ Head(rx[m]) \notin Between(k, m) /\ Start(k, dg'[m]) = Start(k, dg[m])
          \/ Head(rx[m]) \in Between(k, m) /\ Start(k, dg'[m]) \in {Head(rx[m]), AMD(k)}
      BY <1>5, <2>1 DEF GoesBy
    <3>6. Chain(k, m, dg'[m], Tail(rx[m]), tx[k], E)
      BY <3>3, <3>4, <3>5, ChainTaken
    <3>7. \A e \in Between(k, m) : e \in E => e \in F
      BY <1>4, <3>1, <3>2
    <3>8. Start(k, dg'[m]) = Start(k, dg'[m])
      OBVIOUS
    <3>9. Chain(k, m, dg'[m], Tail(rx[m]), tx[k], F)
      BY <3>4, <3>6, <3>7, <3>8, ChainKept
    <3>10. tx'[k] = tx[k]
      BY <1>5, <2>1 DEF Alone
    <3> QED BY <1>2, <2>1, <3>2, <3>9, <3>10
  <2>2. CASE m # n
    <3>1. rx'[m] = rx[m] /\ Start(k, dg'[m]) = Start(k, dg[m])
      BY <1>2, <2>2 DEF Alone
    <3>2. CASE tx'[k] = tx[k]
      BY <1>4, <1>5, <3>1, <3>2, PairKept
    <3>3. CASE k = n /\ \E g \in Frame : IsReply(g) /\ tx'[n] = Append(tx[n], g)
      <4>1. PICK g \in Frame : IsReply(g) /\ tx'[k] = Append(tx[k], g)
        BY <3>3
      <4>2. g \notin Between(k, m)
        BY <4>1, FrameKinds DEF Between
      <4> QED BY <1>4, <1>5, <3>1, <4>1, <4>2, PairQueued
    <3> QED BY <3>2, <3>3 DEF Alone, Answers
  <2> QED BY <2>1, <2>2
<1> QED BY <1>3, <1>5 DEF Chains

(* Silently: n's transmit buffer, and all of the others, stay as they are. *)
LEMMA SilentWhole ==
  ASSUME NEW n \in Node, Taking(n, Head(rx[n])), UNCHANGED <<tx, hdr>>,
         \A m \in Node : m # n => dg'[m] = dg[m],
         \/ dg'[n].left = dg[n].left /\ dg'[n].tbuf = dg[n].tbuf
         \/ ~(dg[n].left > 0)
  PROVE  Answers(n) /\ Alone(n)
<1>1. n \in on /\ on' = on
  BY DEF Taking
<1>2. \A e : e \in Ends(n) => e \in Ends(n)'
  <2>1. CASE dg'[n].left = dg[n].left /\ dg'[n].tbuf = dg[n].tbuf
    BY <1>1, <2>1, EndsSame
  <2>2. CASE ~(dg[n].left > 0)
    BY <1>1, <2>2, EndsIdle
  <2> QED BY <2>1, <2>2
<1> QED BY <1>2 DEF Answers, Alone

(* The alias definition of a sender ends what n has from it. *)
LEMMA HearMappingWhole ==
  ASSUME DatagramInv, Prefixes, NEW n \in Node, NEW f, Taking(n, f), f = Head(rx[n]), HearMapping(n, f)
  PROVE  GoesBy(n, f) /\ Answers(n) /\ Alone(n) /\ Begun(dg'[n], n) /\ delivered' = delivered
<1>0. /\ dg' = IF dg[n].receiving /\ dg[n].from = f.src
               THEN [dg EXCEPT ![n].receiving = FALSE, ![n].rbuf = << >>] ELSE dg
      /\ UNCHANGED <<hdr, tx, delivered>> /\ IsMapping(f)
  BY DEF HearMapping, hist
<1>1. dg \in [Node -> Object] /\ f \in Frame
  BY DEF Taking, Exchange, Objects
<1>2. \A k \in Node : f \in Between(k, n) <=> k = f.src
  BY <1>0, <1>1 DEF Between
<1>3. /\ \A m \in Node : m # n => dg'[m] = dg[m]
      /\ dg'[n].left = dg[n].left /\ dg'[n].tbuf = dg[n].tbuf
      /\ \/ dg'[n] = dg[n] /\ ~(dg[n].receiving /\ dg[n].from = f.src)
         \/ ~dg'[n].receiving /\ dg[n].receiving /\ dg[n].from = f.src
  <2>1. CASE dg[n].receiving /\ dg[n].from = f.src
    <3>1. dg' = [dg EXCEPT ![n].receiving = FALSE, ![n].rbuf = << >>]
      BY <1>0, <2>1
    <3>2. /\ \A m \in Node : m # n => dg'[m] = dg[m]
          /\ dg'[n].left = dg[n].left /\ dg'[n].tbuf = dg[n].tbuf /\ ~dg'[n].receiving
      BY <1>1, <3>1 DEF Object
    <3> QED BY <2>1, <3>2
  <2>2. CASE ~(dg[n].receiving /\ dg[n].from = f.src)
    BY <1>0, <2>2
  <2> QED BY <2>1, <2>2
<1>4. GoesBy(n, f)
  BY <1>2, <1>3 DEF GoesBy, Start
<1>5. Begun(dg'[n], n)
  BY <1>3 DEF Prefixes, Begun
<1>6. Answers(n) /\ Alone(n)
  BY <1>0, <1>3, SilentWhole
<1> QED BY <1>0, <1>4, <1>5, <1>6

(* A reply is not between n and who sends to it. *)
LEMMA ReplyWhole ==
  ASSUME DatagramInv, Prefixes, NEW n \in Node, NEW f, Taking(n, f), f = Head(rx[n]),
         HearAck(n, f) \/ HearReject(n, f) \/ HearNak(n, f)
  PROVE  GoesBy(n, f) /\ Answers(n) /\ Alone(n) /\ Begun(dg'[n], n) /\ delivered' = delivered
<1>0. /\ \/ dg' = [dg EXCEPT ![n].reserved = FALSE]
         \/ dg' = [dg EXCEPT ![n].left = dg[n].tbuf.size]
      /\ UNCHANGED <<hdr, tx, delivered>> /\ IsReply(f)
  BY DEF HearAck, HearReject, HearNak, hist, IsReply, Replies
<1>1. dg \in [Node -> Object] /\ f \in Frame
  BY DEF Taking, Exchange, Objects
<1>2. \A k \in Node : f \notin Between(k, n)
  BY <1>0, <1>1, FrameKinds DEF Between
<1>3. dg[n].left = 0
  BY <1>0, ReplyHeard
<1>4. /\ \A m \in Node : m # n => dg'[m] = dg[m]
      /\ dg'[n].receiving = dg[n].receiving /\ dg'[n].from = dg[n].from /\ dg'[n].rbuf = dg[n].rbuf
  <2>1. CASE dg' = [dg EXCEPT ![n].reserved = FALSE]
    BY <1>1, <2>1 DEF Object
  <2>2. CASE dg' = [dg EXCEPT ![n].left = dg[n].tbuf.size]
    BY <1>1, <2>2 DEF Object
  <2> QED BY <1>0, <2>1, <2>2
<1>5. \A m \in Node : /\ dg'[m].receiving = dg[m].receiving /\ dg'[m].from = dg[m].from
                      /\ dg'[m].rbuf = dg[m].rbuf
  BY <1>4
<1>6. Prefixes' /\ \A k, m \in Node : Start(k, dg'[m]) = Start(k, dg[m])
  BY <1>5, Untouched
<1>7. GoesBy(n, f)
  BY <1>2, <1>6 DEF GoesBy
<1>8. Begun(dg'[n], n)
  BY <1>6 DEF Prefixes
<1>9. Answers(n) /\ Alone(n)
  BY <1>0, <1>3, <1>4, SilentWhole
<1> QED BY <1>0, <1>7, <1>8, <1>9

(* What is known of a fragment that n takes, *)
LEMMA FragmentComes ==
  ASSUME DatagramInv, NEW n \in Node, NEW f, Taking(n, f), IsFragment(f)
  PROVE  /\ f \in Frame /\ f.src \in Node /\ f.src # n /\ f \in Between(f.src, n)
         /\ \A k \in Node : f \in Between(k, n) => k = f.src
         /\ Held(dg[n]) /\ dg \in [Node -> Object]
<1>1. f \in Frame /\ For(f, n) /\ Exchange(Air(tx, rx), dg, on, count.send, delivered)
  BY DEF Taking
<1>2. f.src \in Node /\ f.dst \in Node
  BY <1>1, FragmentFacts
<1>3. f.src # n /\ f.dst = n
  BY <1>1, <1>2, DatagramAssumption DEF For
<1>4. Held(dg[n]) /\ dg \in [Node -> Object]
  BY <1>1 DEF Exchange, Objects, Held
<1> QED BY <1>1, <1>2, <1>3, <1>4 DEF Between

(* ... and of the answer. *)
LEMMA AnswerWhole ==
  ASSUME DatagramInv, NEW n \in Node, NEW f, Taking(n, f), f = Head(rx[n]),
         NEW kind \in Replies, NEW d \in Node, Queue(n, Reply(kind, n, d)),
         \A m \in Node : m # n => dg'[m] = dg[m],
         dg'[n].left = dg[n].left, dg'[n].tbuf = dg[n].tbuf
  PROVE  Answers(n) /\ Alone(n)
<1>1. PICK g : g = Reply(kind, n, d)
  OBVIOUS
<1>2. g \in Frame /\ IsReply(g)
  BY <1>1, ReplyKind
<1>3. tx' = [tx EXCEPT ![n] = Append(@, g)] /\ hdr' = [hdr EXCEPT ![n] = "OLCB"]
  BY <1>1 DEF Queue
<1>4. tx \in [Node -> Seq(Frame)] /\ hdr \in [Node -> {"OLCB", "CAN"}] /\ on' = on
  BY DEF DatagramInv, Bounds, Traffic, Buffers, Taking
<1>5. tx'[n] = Append(tx[n], g) /\ hdr'[n] = "OLCB"
  BY <1>3, <1>4
<1>6. \A m \in Node : m # n => tx'[m] = tx[m] /\ hdr'[m] = hdr[m]
  BY <1>3, <1>4
<1>7. \A e : e \in Ends(n) => e \in Ends(n)'
  BY <1>4, <1>5, EndsSame
<1> QED BY <1>2, <1>5, <1>6, <1>7 DEF Answers, Alone

(* What does not fit in does not come from the sender n waits for. *)
LEMMA RefuseWhole ==
  ASSUME DatagramInv, Prefixes, NEW n \in Node, NEW f, Taking(n, f), f = Head(rx[n]),
         IsFragment(f), Follows(f, Start(f.src, dg[n])), Refuse(n, f)
  PROVE  GoesBy(n, f) /\ Answers(n) /\ Alone(n) /\ Begun(dg'[n], n) /\ delivered' = delivered
<1>0. /\ UNCHANGED <<dg, delivered>> /\ ~Fits(dg[n], f)
      /\ UNCHANGED <<hdr, tx>> \/ Queue(n, Reply("NAK", n, f.src))
  BY DEF Refuse, hist, Fits, Takes
<1>1. /\ f \in Frame /\ f.src \in Node /\ f.src # n /\ f \in Between(f.src, n)
      /\ \A k \in Node : f \in Between(k, n) => k = f.src
      /\ Held(dg[n]) /\ dg \in [Node -> Object]
  BY FragmentComes
<1>2. Begun(dg[n], n)
  BY DEF Prefixes
<1>3. Start(f.src, dg[n]) = AMD(f.src)
  <2>1. ASSUME dg[n].receiving, dg[n].from = f.src PROVE FALSE
    <3>1. Follows(f, Start(dg[n].from, dg[n]))
      BY <2>1
    <3>2. /\ Len(dg[n].rbuf) \in Nat \ {0} /\ f.body = Being(dg[n]) /\ f.i = Len(dg[n].rbuf) + 1
      BY <1>1, <1>2, <2>1, <3>1, NextFragment
    <3>3. f.i # 1
      BY <3>2
    <3>4. ~Starts(f)
      BY <1>1, <3>3, FragmentFacts
    <3> QED BY <1>0, <2>1, <3>4 DEF Fits
  <2> QED BY <2>1 DEF Start
<1>4. GoesBy(n, f)
  BY <1>0, <1>1, <1>3 DEF GoesBy
<1>5. Answers(n) /\ Alone(n)
  <2>1. CASE UNCHANGED <<hdr, tx>>
    BY <1>0, <2>1, SilentWhole
  <2>2. CASE Queue(n, Reply("NAK", n, f.src))
    <3>1. "NAK" \in Replies
      BY DEF Replies
    <3> QED BY <1>0, <1>1, <2>2, <3>1, AnswerWhole
  <2> QED BY <1>0, <2>1, <2>2
<1> QED BY <1>0, <1>2, <1>4, <1>5

(* The others' fragments do not fit in while n receives. *)
LEMMA FitsFrom ==
  ASSUME NEW x, NEW f, Fits(x, f), NEW k, k # f.src
  PROVE  Start(k, x) = AMD(k)
BY DEF Fits, Start

LEMMA StoreWhole ==
  ASSUME DatagramInv, Prefixes, NEW n \in Node, NEW f, Taking(n, f), f = Head(rx[n]),
         IsFragment(f), Follows(f, Start(f.src, dg[n])), Store(n, f)
  PROVE  GoesBy(n, f) /\ Answers(n) /\ Alone(n) /\ Begun(dg'[n], n) /\ delivered' = delivered
<1>0. f.kind \in {"FIRST", "MID"} /\ Fits(dg[n], f) /\ UNCHANGED <<hdr, tx, delivered>>
  BY DEF Store, hist, Fits, Takes
<1>1. /\ f \in Frame /\ f.src \in Node /\ f.src # n /\ f \in Between(f.src, n)
      /\ \A k \in Node : f \in Between(k, n) => k = f.src
      /\ Held(dg[n]) /\ dg \in [Node -> Object]
  BY FragmentComes
<1>2. /\ Joined(dg[n], f) = Parts(f.body, f.i) /\ Len(Parts(f.body, f.i)) = f.i
      /\ First(Parts(f.body, f.i)) = f.body
  <2>1. Begun(dg[n], n)
    BY DEF Prefixes
  <2> QED BY <1>0, <1>1, <2>1, FitsOn
<1>3. /\ f.i < f.body.size /\ f = Fragment(f.body, f.i)
  BY <1>0, <1>1, FragmentFacts
<1>4. PICK w : w = Parts(f.body, f.i)
  OBVIOUS
<1>5. dg' = [dg EXCEPT ![n].receiving = TRUE, ![n].from = f.src, ![n].rbuf = w]
  <2>1. dg' = [dg EXCEPT ![n].receiving = TRUE, ![n].from = f.src,
                         ![n].rbuf = Append(dg[n].rbuf, <<f.body, f.i>>)]
    BY <1>1 DEF Store
  <2>2. w = Append(dg[n].rbuf, <<f.body, f.i>>)
    BY <1>2, <1>4 DEF Joined
  <2> QED BY <2>1, <2>2
<1>6. /\ \A m \in Node : m # n => dg'[m] = dg[m]
      /\ dg'[n].left = dg[n].left /\ dg'[n].tbuf = dg[n].tbuf
      /\ dg'[n].receiving /\ dg'[n].from = f.src /\ dg'[n].rbuf = w
  BY <1>1, <1>5 DEF Object
<1>7. Being(dg'[n]) = f.body /\ Len(dg'[n].rbuf) = f.i
  <2>1. Being(dg'[n]) = First(w)
    BY <1>6 DEF Being, First
  <2> QED BY <1>2, <1>4, <1>6, <2>1
<1>8. Begun(dg'[n], n)
  BY <1>1, <1>3, <1>4, <1>6, <1>7 DEF Begun
<1>9. GoesBy(n, f)
  <2>1. Start(f.src, dg'[n]) = f
    BY <1>3, <1>6, <1>7 DEF Start
  <2>2. ASSUME NEW k \in Node, k # f.src
        PROVE  Start(k, dg'[n]) = Start(k, dg[n])
    <3>1. Start(k, dg'[n]) = AMD(k)
      BY <1>6, <2>2 DEF Start
    <3>2. Start(k, dg[n]) = AMD(k)
      BY <1>0, <2>2, FitsFrom
    <3> QED BY <3>1, <3>2
  <2> QED BY <1>1, <2>1, <2>2 DEF GoesBy
<1>10. Answers(n) /\ Alone(n)
  BY <1>0, <1>6, SilentWhole
<1> QED BY <1>0, <1>8, <1>9, <1>10

LEMMA CompleteWhole ==
  ASSUME DatagramInv, Prefixes, Wholes(delivered), NEW n \in Node, NEW f, Taking(n, f),
         f = Head(rx[n]), IsFragment(f), Follows(f, Start(f.src, dg[n])), Complete(n, f)
  PROVE  /\ GoesBy(n, f) /\ Answers(n) /\ Alone(n) /\ Begun(dg'[n], n)
         /\ Wholes(delivered')
<1>0. /\ f.kind \in Final /\ Fits(dg[n], f)
      /\ dg' = [dg EXCEPT ![n].receiving = FALSE, ![n].from = f.src, ![n].rbuf = << >>]
      /\ \E kind \in Replies : Queue(n, Reply(kind, n, f.src))
      /\ delivered' = delivered \/ delivered' = Append(delivered, Joined(dg[n], f))
  BY DEF Complete, Fits, Takes, Joined, Replies
<1>1. /\ f \in Frame /\ f.src \in Node /\ f.src # n /\ f \in Between(f.src, n)
      /\ \A k \in Node : f \in Between(k, n) => k = f.src
      /\ Held(dg[n]) /\ dg \in [Node -> Object]
  BY FragmentComes
<1>2. /\ Joined(dg[n], f) = Parts(f.body, f.i) /\ Len(Parts(f.body, f.i)) = f.i
      /\ First(Parts(f.body, f.i)) = f.body
  <2>1. Begun(dg[n], n)
    BY DEF Prefixes
  <2> QED BY <1>0, <1>1, <2>1, FitsOn
<1>3. f.i = f.body.size /\ f.body \in Body /\ f.body.size \in Nat
  BY <1>0, <1>1, FragmentFacts
<1>4. PICK w : w = Joined(dg[n], f)
  OBVIOUS
<1>5. w = Parts(First(w), First(w).size)
  BY <1>2, <1>3, <1>4
<1>6. w \in Seq(Body \X Nat)
  <2>1. /\ Parts(f.body, f.i) \in Seq(Body \X Nat) /\ Len(Parts(f.body, f.i)) = f.i
        /\ Append(Parts(f.body, f.i), <<f.body, f.i + 1>>) = Parts(f.body, f.i + 1)
        /\ Append(<< >>, <<f.body, 1>>) = Parts(f.body, 1)
        /\ First(Parts(f.body, f.i + 1)) = f.body
    BY <1>3, PartsMore
  <2> QED BY <1>2, <1>4, <2>1
<1>7. Wholes(delivered')
  <2>1. CASE delivered' = delivered
    BY <2>1
  <2>2. CASE delivered' = Append(delivered, w)
    <3>1. PICK T : T = Seq(Body \X Nat)
      OBVIOUS
    <3>2. delivered \in Seq(T) /\ w \in T
      BY <1>6, <3>1 DEF Taking, Exchange, Deliveries
    <3>3. PICK v : v = Append(delivered, w)
      OBVIOUS
    <3>4. /\ Len(v) = Len(delivered) + 1 /\ v[Len(delivered) + 1] = w
          /\ \A k \in 1 .. Len(delivered) : v[k] = delivered[k]
      BY <3>2, <3>3, Appended
    <3>5. Len(delivered) \in Nat
      BY <3>2, LenProperties
    <3>6. ASSUME NEW k \in 1 .. Len(v) PROVE v[k] = Parts(First(v[k]), First(v[k]).size)
      <4>1. k = Len(delivered) + 1 \/ k \in 1 .. Len(delivered)
        BY <3>4, <3>5
      <4>2. CASE k = Len(delivered) + 1
        BY <1>5, <3>4, <4>2
      <4>3. CASE k \in 1 .. Len(delivered)
        <5>1. delivered[k] = Parts(First(delivered[k]), First(delivered[k]).size)
          BY <4>3 DEF Wholes
        <5> QED BY <3>4, <4>3, <5>1
      <4> QED BY <4>1, <4>2, <4>3
    <3> QED BY <2>2, <3>3, <3>6 DEF Wholes
  <2> QED BY <1>0, <1>4, <2>1, <2>2
<1>8. /\ \A m \in Node : m # n => dg'[m] = dg[m]
      /\ dg'[n].left = dg[n].left /\ dg'[n].tbuf = dg[n].tbuf /\ ~dg'[n].receiving
  <2>1. dg' = [dg EXCEPT ![n].receiving = FALSE, ![n].from = f.src, ![n].rbuf = << >>]
    BY <1>0
  <2> QED BY <1>1, <2>1 DEF Object
<1>9. Begun(dg'[n], n)
  BY <1>8 DEF Begun
<1>10. GoesBy(n, f)
  <2>1. \A k \in Node : Start(k, dg'[n]) = AMD(k)
    BY <1>8 DEF Start
  <2>2. \A k \in Node : k # f.src => Start(k, dg[n]) = AMD(k)
    BY <1>0, FitsFrom
  <2> QED BY <1>1, <2>1, <2>2 DEF GoesBy
<1>11. Answers(n) /\ Alone(n)
  <2>1. PICK kind \in Replies : Queue(n, Reply(kind, n, f.src))
    BY <1>0
  <2> QED BY <1>1, <1>8, <2>1, AnswerWhole
<1> QED BY <1>7, <1>9, <1>10, <1>11

LEMMA ReceiveWhole ==
  ASSUME DatagramInv, Chains, Prefixes, Wholes(delivered), NEW n \in Node, Receive(n)
  PROVE  Chains' /\ Prefixes' /\ Wholes(delivered')
<1>1. PICK f : f = Head(rx[n])
  OBVIOUS
<1>2. Taking(n, f) /\ rx[n] # << >>
  BY <1>1, Taken DEF Receive
<1>3. GoesBy(n, f) /\ Answers(n) /\ Alone(n) /\ Begun(dg'[n], n) /\ Wholes(delivered')
  <2>1. CASE HearMapping(n, f)
    <3>1. /\ GoesBy(n, f) /\ Answers(n) /\ Alone(n) /\ Begun(dg'[n], n) /\ delivered' = delivered
      BY <1>1, <1>2, <2>1, HearMappingWhole
    <3> QED BY <3>1
  <2>2. CASE HearAck(n, f) \/ HearReject(n, f) \/ HearNak(n, f)
    <3>1. /\ GoesBy(n, f) /\ Answers(n) /\ Alone(n) /\ Begun(dg'[n], n) /\ delivered' = delivered
      BY <1>1, <1>2, <2>2, ReplyWhole
    <3> QED BY <3>1
  <2>3. CASE IsFragment(f) /\ (Refuse(n, f) \/ Store(n, f) \/ Complete(n, f))
    <3>1. Follows(f, Start(f.src, dg[n]))
      <4>1. f \in Frame /\ f.src # n /\ f \in Between(f.src, n)
        BY <1>2, <2>3, FragmentComes
      <4> QED BY <1>1, <1>2, <4>1, TakenNext
    <3>2. CASE Refuse(n, f) \/ Store(n, f)
      <4>1. /\ GoesBy(n, f) /\ Answers(n) /\ Alone(n) /\ Begun(dg'[n], n) /\ delivered' = delivered
        BY <1>1, <1>2, <2>3, <3>1, <3>2, RefuseWhole, StoreWhole
      <4> QED BY <4>1
    <3>3. CASE Complete(n, f)
      BY <1>1, <1>2, <2>3, <3>1, <3>3, CompleteWhole
    <3> QED BY <2>3, <3>2, <3>3
  <2>4. \/ HearMapping(n, f) \/ HearAck(n, f) \/ HearReject(n, f) \/ HearNak(n, f)
        \/ IsFragment(f) /\ (Refuse(n, f) \/ Store(n, f) \/ Complete(n, f))
    BY <1>1 DEF Receive
  <2> QED BY <2>1, <2>2, <2>3, <2>4
<1>4. Chains' /\ Prefixes'
  BY <1>1, <1>3, TakenWhole
<1> QED BY <1>3, <1>4

----------------------------------------------------------------------------
LEMMA WholeStart ==
  ASSUME Init
  PROVE  WholeInv
<1>0. /\ dg = [n \in Node |-> Reset] /\ delivered = << >>
      /\ tx = [n \in Node |-> << >>] /\ rx = [n \in Node |-> << >>]
  BY DEF Init
<1>1. \A m \in Node : ~dg[m].receiving
  BY <1>0 DEF Reset
<1>2. ASSUME NEW n \in Node, NEW m \in Node, n # m
      PROVE  Chain(n, m, dg[m], rx[m], tx[n], Ends(n))
  <2>1. PICK S : S = Between(n, m)
    OBVIOUS
  <2>2. PICK a : a = AMD(n)
    OBVIOUS
  <2>3. a \in S /\ a \in Ends(n) /\ Start(n, dg[m]) = a
    BY <1>1, <2>1, <2>2, AMDBetween, EndsHave DEF Start
  <2>4. Walk(S, a, << >>, a)
    BY <2>3, WalkNothing
  <2>5. rx[m] = << >> /\ tx[n] = << >>
    BY <1>0
  <2> QED BY <2>1, <2>3, <2>4, <2>5 DEF Chain
<1>3. Prefixes
  BY <1>1 DEF Prefixes, Begun
<1>4. Wholes(delivered)
  <2>1. Len(delivered) = 0
    BY <1>0
  <2> QED BY <2>1 DEF Wholes
<1> QED BY <1>2, <1>3, <1>4 DEF WholeInv, Chains

LEMMA WholeNext ==
  ASSUME DatagramInv, WholeInv, [Next]_vars
  PROVE  WholeInv'
<1>1. CASE lost
  <2>1. lost'
    BY <1>1, Zenon DEF Next, Send, Check, Enquiry, Receive, HearMapping, HearAck, HearReject, HearNak,
       Refuse, Store, Complete, Bus, Lose, Crash, GiveUp, Restart, hist, vars, net
  <2> QED BY <2>1 DEF WholeInv
<1>2. CASE ~lost
  <2>0. Chains /\ Prefixes /\ Wholes(delivered)
    BY <1>2 DEF WholeInv
  <2>1. CASE UNCHANGED vars
    <3>1. UNCHANGED <<dg, hdr, on, tx, rx, delivered>>
      BY <2>1 DEF vars, net, hist
    <3>2. Chains' /\ Prefixes'
      BY <2>0, <3>1 DEF Chains, Prefixes, Ends
    <3> QED BY <2>0, <3>1, <3>2 DEF WholeInv
  <2>2. ASSUME NEW n \in Node, NEW r \in Route, r[1] = n, Send(n, r[2], r[3]) PROVE WholeInv'
    <3>1. Chains' /\ Prefixes' /\ delivered' = delivered
      BY <2>0, <2>2, SendWhole
    <3> QED BY <2>0, <3>1 DEF WholeInv
  <2>3. ASSUME NEW n \in Node, \/ Check(n) \/ Enquiry(n) \/ Bus(n) \/ Crash(n) \/ GiveUp(n) \/ Restart(n)
        PROVE  WholeInv'
    <3>1. Chains' /\ Prefixes' /\ delivered' = delivered
      BY <2>0, <2>3, CheckWhole, EnquiryWhole, BusWhole, CrashWhole, GiveUpWhole, RestartWhole
    <3> QED BY <2>0, <3>1 DEF WholeInv
  <2>4. ASSUME NEW n \in Node, Receive(n) PROVE WholeInv'
    <3>1. Chains' /\ Prefixes' /\ Wholes(delivered')
      BY <2>0, <2>4, ReceiveWhole
    <3> QED BY <3>1 DEF WholeInv
  <2>5. ASSUME NEW n \in Node, Lose(n) PROVE WholeInv'
    BY <2>5 DEF Lose, WholeInv
  <2> QED BY <2>1, <2>2, <2>3, <2>4, <2>5 DEF Next
<1> QED BY <1>1, <1>2

LEMMA WholeInvariant == Spec => []WholeInv
<1>1. Init => WholeInv
  BY WholeStart
<1>2. DatagramInv /\ WholeInv /\ [Next]_vars => WholeInv'
  BY WholeNext
<1> QED BY <1>1, <1>2, DatagramInvariant, PTL DEF Spec

(* What the callback gets is a datagram as it was sent: all its fragments, *)
(* in order, and nothing else, through rejections, enquiries, crashes and  *)
(* restarts, as long as the bus loses nothing (receivedFrame() and its     *)
(* fromMask, Datagram.cpp).                                                *)
THEOREM DeliveredWhole == Spec => []Whole
<1>1. DatagramInv /\ WholeInv => Whole
  <2> SUFFICES ASSUME DatagramInv, WholeInv, ~lost, NEW k \in DOMAIN delivered
               PROVE  delivered[k] = Parts(delivered[k][1][1], delivered[k][1][1].size)
    BY DEF Whole
  <2>1. delivered \in Seq(Seq(Body \X Nat))
    BY DEF DatagramInv, Traffic, Exchange, Deliveries
  <2>2. k \in 1 .. Len(delivered)
    BY <2>1
  <2> QED BY <2>2 DEF WholeInv, Wholes, First
<1> QED BY <1>1, WholeInvariant, DatagramInvariant, PTL
=============================================================================
