-------------------------- MODULE NodeMemoryProofs --------------------------
(***************************************************************************)
(* What the EEPROM holds, for any number of events: its types, that a node *)
(* in operation works with the events it has stored, and, if the power     *)
(* fails only between calls, that the tag promises no more than there is.  *)
(*                                                                         *)
(* The writes of a call come one by one, so that the invariants are about  *)
(* the memory that will be there when the call is done (Reaches).          *)
(***************************************************************************)
EXTENDS NodeMemory, SequenceTheorems, TLAPS

(* What a cell may hold. *)
Contents(c) ==
  IF c = TAG01 THEN {"EE55", Blank}
  ELSE IF c = TAG2 THEN {"5E", "33", Blank}
  ELSE IF c = TAG3 THEN {"E5", "CC", Blank}
  ELSE IF c = COUNT THEN Serial \cup {Blank}
  ELSE IF c = NID THEN Owner
  ELSE IF c = REST THEN Taught \cup {Blank, Zero}
  ELSE Value
Content == UNION {Contents(c) : c \in Cell}
Write == {x \in [cell : Cell, val : Content] : x.val \in Contents(x.cell)}

(* The types, with the writes still to be done. *)
MemoryTyped ==
  /\ eeprom \in [Cell -> Content] /\ \A c \in Cell : eeprom[c] \in Contents(c)
  /\ todo \in Seq(Write)
  /\ phase \in {"off", "setup", "up"}
  /\ nid \in Owner /\ ev \in [Index -> Value]
  /\ count \in Serial /\ ops \in 0 .. MaxOps
  /\ edited \subseteq Cell

(* The memory store() leaves. *)
Image(c, n, e) ==
  [x \in Cell |-> CASE x = TAG01 -> "EE55" [] x = TAG2 -> "5E" [] x = TAG3 -> "E5"
                    [] x = COUNT -> c [] x = NID -> n [] x = REST -> Zero
                    [] OTHER -> e[x - 5]]

(* Memory m will hold w when the writes t are done: the last write to each *)
(* cell, or what is in it already.                                         *)
LastWrite(t, k, c) == t[k].cell = c /\ \A j \in 1 .. Len(t) : j > k => t[j].cell # c
Reaches(m, t, w) ==
  \A c \in Cell :
    \/ \E k \in 1 .. Len(t) : LastWrite(t, k, c) /\ t[k].val = w[c]
    \/ m[c] = w[c] /\ \A k \in 1 .. Len(t) : t[k].cell # c

----------------------------------------------------------------------------
LEMMA CellNumbers ==
  /\ nEvents \in Nat /\ REST \in Nat /\ REST = nEvents + 5
  /\ Cell = 0 .. nEvents + 5
  /\ {TAG01, TAG2, TAG3, COUNT, NID, REST} \subseteq Cell
  /\ \A i \in Index : EVENT(i) \in Cell /\ EVENT(i) = i + 5
  /\ \A i \in Index : EVENT(i) > NID /\ EVENT(i) < REST
BY MemoryAssumption DEF Cell, REST, Index, EVENT, TAG01, TAG2, TAG3, COUNT, NID

(* What belongs into a cell is a content, and a write of it is a write. *)
LEMMA Writes ==
  ASSUME NEW c \in Cell, NEW v \in Contents(c)
  PROVE  v \in Content /\ W(c, v) \in Write
BY DEF Content, Write, W

(* An image of typed data is typed. *)
LEMMA ImageTyped ==
  ASSUME NEW c \in Serial, NEW n \in Owner, NEW e \in [Index -> Value], NEW x \in Cell
  PROVE  Image(c, n, e)[x] \in Contents(x)
<1>1. x \notin {TAG01, TAG2, TAG3, COUNT, NID, REST} => x - 5 \in Index
  BY CellNumbers DEF Index, TAG01, TAG2, TAG3, COUNT, NID
<1>2. /\ TAG01 # TAG2 /\ TAG01 # TAG3 /\ TAG01 # COUNT /\ TAG01 # NID /\ TAG01 # REST
      /\ TAG2 # TAG3 /\ TAG2 # COUNT /\ TAG2 # NID /\ TAG2 # REST
      /\ TAG3 # COUNT /\ TAG3 # NID /\ TAG3 # REST
      /\ COUNT # NID /\ COUNT # REST /\ NID # REST
  BY CellNumbers DEF TAG01, TAG2, TAG3, COUNT, NID
<1>3. x \notin {TAG01, TAG2, TAG3, COUNT, NID, REST} => Image(c, n, e)[x] = e[x - 5]
  BY DEF Image
<1>4. CASE x \in {TAG01, TAG2, TAG3, COUNT, NID, REST}
  BY <1>2, <1>4 DEF Image, Contents
<1> QED BY <1>1, <1>3, <1>4 DEF Contents

(* The elements of a concatenation. *)
LEMMA ConcatLen ==
  ASSUME NEW S, NEW a \in Seq(S), NEW b \in Seq(S)
  PROVE  Len(a \o b) = Len(a) + Len(b)
OBVIOUS

LEMMA ConcatFirst ==
  ASSUME NEW S, NEW a \in Seq(S), NEW b \in Seq(S)
  PROVE  \A k \in 1 .. Len(a) : (a \o b)[k] = a[k]
OBVIOUS

LEMMA ConcatSecond ==
  ASSUME NEW S, NEW a \in Seq(S), NEW b \in Seq(S)
  PROVE  \A k \in Len(a) + 1 .. Len(a) + Len(b) : (a \o b)[k] = b[k - Len(a)]
OBVIOUS

(* store() writes each cell once, in the order of their addresses. *)
LEMMA StoreIsImage ==
  ASSUME NEW c \in Serial, NEW n \in Owner, NEW e \in [Index -> Value]
  PROVE  /\ StoreWrites(c, n, e) \in Seq(Write)
         /\ Len(StoreWrites(c, n, e)) = nEvents + 6
         /\ \A k \in 1 .. nEvents + 6 : StoreWrites(c, n, e)[k] = W(k - 1, Image(c, n, e)[k - 1])
<1> DEFINE img == Image(c, n, e)
           h == <<W(TAG01, "EE55"), W(TAG2, "5E"), W(TAG3, "E5"), W(COUNT, c), W(NID, n)>>
           m == [k \in 1 .. nEvents |-> W(EVENT(k - 1), e[k - 1])]
           t == <<W(REST, Zero)>>
<1>0. nEvents \in Nat
  BY MemoryAssumption
<1>1. \A x \in Cell : W(x, img[x]) \in Write
  BY ImageTyped, Writes
<1>2. /\ TAG01 = 0 /\ TAG2 = 1 /\ TAG3 = 2 /\ COUNT = 3 /\ NID = 4 /\ REST = nEvents + 5
      /\ {0, 1, 2, 3, 4, nEvents + 5} \subseteq Cell
  BY CellNumbers DEF TAG01, TAG2, TAG3, COUNT, NID
<1>3. img[0] = "EE55" /\ img[1] = "5E" /\ img[2] = "E5" /\ img[3] = c /\ img[4] = n
      /\ img[nEvents + 5] = Zero
  BY <1>0, <1>2 DEF Image
<1>4. \A k \in 1 .. nEvents : EVENT(k - 1) = k + 4 /\ k + 4 \in Cell /\ img[k + 4] = e[k - 1]
  <2> TAKE k \in 1 .. nEvents
  <2>1. EVENT(k - 1) = k + 4 /\ k + 4 \in Cell
    BY <1>0, CellNumbers DEF EVENT
  <2>2. img[k + 4] = e[(k + 4) - 5] /\ (k + 4) - 5 = k - 1
    BY <1>0, <1>2, <2>1 DEF Image
  <2> QED BY <2>1, <2>2
<1> HIDE DEF img
<1> DEFINE F == [k \in 1 .. nEvents + 6 |-> W(k - 1, img[k - 1])]
<1>5. /\ h \in Seq(Write) /\ Len(h) = 5
      /\ \A k \in 1 .. 5 : h[k] = F[k]
  <2>1. h = <<W(0, img[0]), W(1, img[1]), W(2, img[2]), W(3, img[3]), W(4, img[4])>>
    BY <1>2, <1>3
  <2>2. /\ W(0, img[0]) \in Write /\ W(1, img[1]) \in Write /\ W(2, img[2]) \in Write
        /\ W(3, img[3]) \in Write /\ W(4, img[4]) \in Write
    BY <1>1, <1>2
  <2>3. /\ F[1] = W(0, img[0]) /\ F[2] = W(1, img[1]) /\ F[3] = W(2, img[2])
        /\ F[4] = W(3, img[3]) /\ F[5] = W(4, img[4])
    BY <1>0
  <2> HIDE DEF h, F
  <2>4. h[1] = F[1] /\ h[2] = F[2] /\ h[3] = F[3] /\ h[4] = F[4] /\ h[5] = F[5]
    BY <2>1, <2>3
  <2>5. h \in Seq(Write) /\ Len(h) = 5
    BY <2>1, <2>2
  <2> QED BY <2>4, <2>5
<1>6. /\ m \in Seq(Write) /\ Len(m) = nEvents
      /\ \A k \in 1 .. nEvents : m[k] = F[k + 5]
  <2>1. \A k \in 1 .. nEvents : m[k] = W(k + 4, img[k + 4]) /\ m[k] \in Write
    BY <1>1, <1>4
  <2>2. m \in [1 .. nEvents -> Write]
    BY <2>1
  <2>3. m \in Seq(Write)
    BY <1>0, <2>2, SeqDef
  <2>4. Len(m) = nEvents
    BY <1>0, <2>2, <2>3, LenProperties
  <2>5. ASSUME NEW k \in 1 .. nEvents PROVE m[k] = F[k + 5]
    <3>1. k + 5 \in 1 .. nEvents + 6 /\ (k + 5) - 1 = k + 4
      BY <1>0
    <3>2. F[k + 5] = W((k + 5) - 1, img[(k + 5) - 1])
      BY <3>1
    <3> HIDE DEF m, F
    <3> QED BY <2>1, <3>1, <3>2
  <2> QED BY <2>3, <2>4, <2>5
<1>7. t \in Seq(Write) /\ Len(t) = 1 /\ t[1] = F[1 + (5 + nEvents)]
  <2>1. W(nEvents + 5, img[nEvents + 5]) \in Write
    BY <1>1, <1>2
  <2>2. F[nEvents + 6] = W(nEvents + 5, img[nEvents + 5]) /\ 1 + (5 + nEvents) = nEvents + 6
    BY <1>0
  <2> QED BY <1>2, <1>3, <2>1, <2>2
<1>8. StoreWrites(c, n, e) = (h \o m) \o t
  BY DEF StoreWrites
<1>9. \A k \in 1 .. nEvents + 6 : F[k] = W(k - 1, img[k - 1])
  OBVIOUS
<1> HIDE DEF h, m, t, F
<1> DEFINE hm == h \o m
           hmt == hm \o t
           L == 5 + nEvents
<1>p. h \in Seq(Write) /\ m \in Seq(Write) /\ t \in Seq(Write)
  BY <1>5, <1>6, <1>7
<1>q. Len(h) = 5 /\ Len(m) = nEvents /\ Len(t) = 1
  BY <1>5, <1>6, <1>7
<1>10. /\ hm \in Seq(Write) /\ Len(hm) = L
       /\ \A k \in 1 .. 5 : hm[k] = h[k]
       /\ \A k \in 5 + 1 .. L : hm[k] = m[k - 5]
  <2>0. 5 \in Nat
    OBVIOUS
  <2>1. hm \in Seq(Write)
    BY <1>p
  <2>2. Len(hm) = L
    <3>1. Len(h \o m) = Len(h) + Len(m)
      BY <1>p, ConcatLen, Zenon
    <3> QED BY <3>1, <1>q, Zenon
  <2>3. \A k \in 1 .. 5 : hm[k] = h[k]
    <3>1. \A k \in 1 .. Len(h) : (h \o m)[k] = h[k]
      BY <1>p, ConcatFirst, Zenon
    <3> QED BY <3>1, <1>q, Zenon
  <2>4. \A k \in 5 + 1 .. L : hm[k] = m[k - 5]
    <3>1. \A k \in Len(h) + 1 .. Len(h) + Len(m) : (h \o m)[k] = m[k - Len(h)]
      BY <1>p, ConcatSecond, Zenon
    <3> QED BY <3>1, <1>q, Zenon
  <2> QED BY <2>1, <2>2, <2>3, <2>4
<1>11. L \in Nat /\ L + 1 = nEvents + 6
  BY <1>0
<1> HIDE DEF hm, L
<1>12. /\ hmt \in Seq(Write) /\ Len(hmt) = L + 1
       /\ \A k \in 1 .. L : hmt[k] = hm[k]
       /\ \A k \in L + 1 .. L + 1 : hmt[k] = t[k - L]
  <2>0. hm \in Seq(Write) /\ Len(hm) = L /\ 1 \in Nat
    BY <1>10
  <2>1. hmt \in Seq(Write)
    BY <1>p, <2>0
  <2>2. Len(hmt) = L + 1
    <3>1. Len(hm \o t) = Len(hm) + Len(t)
      BY <1>p, <2>0, ConcatLen, Zenon
    <3> QED BY <3>1, <1>q, <2>0, Zenon
  <2>3. \A k \in 1 .. L : hmt[k] = hm[k]
    BY <1>11, <1>p, <2>0, ConcatFirst, Zenon
  <2>4. \A k \in L + 1 .. L + 1 : hmt[k] = t[k - L]
    <3>1. \A k \in Len(hm) + 1 .. Len(hm) + Len(t) : (hm \o t)[k] = t[k - Len(hm)]
      BY <1>p, <2>0, ConcatSecond, Zenon
    <3> QED BY <3>1, <1>q, <2>0, Zenon
  <2> QED BY <2>1, <2>2, <2>3, <2>4
<1> HIDE DEF hmt
<1>13. ASSUME NEW k \in 1 .. L + 1 PROVE hmt[k] = F[k]
  <2>1. CASE k \in 1 .. 5
    <3>1. k \in 1 .. L
      BY <1>0, <2>1 DEF L
    <3>2. hmt[k] = hm[k]
      BY <1>12, <3>1
    <3>3. hm[k] = h[k]
      BY <1>10, <2>1
    <3>4. h[k] = F[k]
      BY <1>5, <2>1
    <3> QED BY <3>2, <3>3, <3>4
  <2>2. CASE k \in 6 .. L
    <3>1. k - 5 \in 1 .. nEvents /\ (k - 5) + 5 = k
      BY <1>0, <2>2 DEF L
    <3>2. m[k - 5] = F[(k - 5) + 5]
      BY <1>6, <3>1
    <3>3. k \in 1 .. L /\ k \in 5 + 1 .. L
      BY <1>11, <2>2
    <3>4. hmt[k] = hm[k]
      BY <1>12, <3>3
    <3>5. hm[k] = m[k - 5]
      BY <1>10, <3>3
    <3> QED BY <3>1, <3>2, <3>4, <3>5
  <2>3. CASE k = L + 1
    <3>1. k \in L + 1 .. L + 1 /\ k - L = 1 /\ k = 1 + (5 + nEvents)
      BY <1>0, <1>11, <2>3 DEF L
    <3> QED BY <1>7, <1>12, <3>1
  <2> QED BY <1>0, <1>11, <2>1, <2>2, <2>3 DEF L
<1>14. StoreWrites(c, n, e) = hmt
  BY <1>8 DEF hm, hmt
<1>15. \A k \in 1 .. nEvents + 6 : hmt[k] = W(k - 1, img[k - 1])
  BY <1>9, <1>11, <1>13
<1> QED BY <1>11, <1>12, <1>14, <1>15 DEF img

(* The writes of reset() are writes. *)
LEMMA ClearTyped == ClearWrites \in Seq(Write)
<1> DEFINE h == <<W(COUNT, 0), W(NID, Zero)>>
           m == [k \in 1 .. nEvents |-> W(EVENT(k - 1), Zero)]
           t == <<W(REST, Zero)>>
<1>0. nEvents \in Nat
  BY MemoryAssumption
<1>1. W(COUNT, 0) \in Write /\ W(NID, Zero) \in Write /\ W(REST, Zero) \in Write
  <2>1. 0 \in Contents(COUNT) /\ Zero \in Contents(NID) /\ Zero \in Contents(REST)
    BY CellNumbers, MemoryAssumption
       DEF Contents, TAG01, TAG2, TAG3, COUNT, NID, Serial, Owner
  <2> QED BY <2>1, CellNumbers, Writes
<1>2. \A i \in Index : W(EVENT(i), Zero) \in Write
  <2>1. \A i \in Index : Zero \in Contents(EVENT(i))
    BY CellNumbers DEF Contents, TAG01, TAG2, TAG3, COUNT, NID, Value
  <2> QED BY <2>1, CellNumbers, Writes
<1>3. h \in Seq(Write) /\ t \in Seq(Write)
  BY <1>1
<1>4. m \in Seq(Write)
  <2>1. \A k \in 1 .. nEvents : k - 1 \in Index
    BY <1>0 DEF Index
  <2>2. m \in [1 .. nEvents -> Write]
    BY <1>2, <2>1
  <2> QED BY <1>0, <2>2, SeqDef
<1>5. ClearWrites = (h \o m) \o t
  BY DEF ClearWrites
<1> HIDE DEF h, m, t
<1> QED BY <1>3, <1>4, <1>5, ConcatProperties

----------------------------------------------------------------------------
(* With nothing left to write the memory is the one it will be. *)
LEMMA ReachesNow ==
  ASSUME NEW m, NEW w, Reaches(m, << >>, w), NEW c \in Cell
  PROVE  m[c] = w[c]
BY DEF Reaches

(* And the other way round. *)
LEMMA NowReaches ==
  ASSUME NEW m PROVE Reaches(m, << >>, m)
BY DEF Reaches

(* A write that is done changes nothing in what is reached. *)
LEMMA ReachesStep ==
  ASSUME NEW m \in [Cell -> Content], NEW t \in Seq(Write), t # << >>, NEW w,
         Reaches(m, t, w)
  PROVE  Reaches([m EXCEPT ![Head(t).cell] = Head(t).val], Tail(t), w)
<1> DEFINE x == Head(t)
           u == Tail(t)
           mm == [m EXCEPT ![x.cell] = x.val]
           L == Len(t)
<1>1. x = t[1]
  OBVIOUS
<1>2. x \in Write
  BY HeadTailProperties
<1>3. x.cell \in Cell
  BY <1>2 DEF Write
<1>4. L \in Nat \ {0} /\ Len(u) = L - 1
  BY HeadTailProperties, EmptySeq, LenProperties
<1>5. \A k \in 1 .. L - 1 : u[k] = t[k + 1]
  BY <1>4, HeadTailProperties
<1>6. \A c \in Cell : \/ \E k \in 1 .. L : LastWrite(t, k, c) /\ t[k].val = w[c]
                      \/ m[c] = w[c] /\ \A k \in 1 .. L : t[k].cell # c
  BY DEF Reaches
<1>7. ASSUME NEW c \in Cell
      PROVE  mm[c] = IF c = x.cell THEN x.val ELSE m[c]
  BY <1>3
<1>8. \A c, k : LastWrite(t, k, c) <=> t[k].cell = c /\ \A j \in 1 .. L : j > k => t[j].cell # c
  BY DEF LastWrite
<1>9. \A c, k : LastWrite(u, k, c) <=> u[k].cell = c /\ \A j \in 1 .. L - 1 : j > k => u[j].cell # c
  BY <1>4 DEF LastWrite
<1> HIDE DEF x, u, mm, L
<1>10. ASSUME NEW c \in Cell
       PROVE  \/ \E k \in 1 .. L - 1 : LastWrite(u, k, c) /\ u[k].val = w[c]
              \/ mm[c] = w[c] /\ \A k \in 1 .. L - 1 : u[k].cell # c
  <2>1. CASE m[c] = w[c] /\ \A k \in 1 .. L : t[k].cell # c
    <3>1. \A k \in 1 .. L - 1 : u[k].cell # c
      BY <1>4, <1>5, <2>1
    <3>2. c # x.cell
      BY <1>1, <1>4, <2>1
    <3> QED BY <1>7, <2>1, <3>1, <3>2
  <2>2. ASSUME NEW k \in 1 .. L, LastWrite(t, k, c), t[k].val = w[c]
        PROVE  \/ \E j \in 1 .. L - 1 : LastWrite(u, j, c) /\ u[j].val = w[c]
               \/ mm[c] = w[c] /\ \A j \in 1 .. L - 1 : u[j].cell # c
    <3>0. t[k].cell = c /\ \A j \in 1 .. L : j > k => t[j].cell # c
      BY <1>8, <2>2
    <3>1. CASE k = 1
      <4>1. \A j \in 1 .. L - 1 : u[j].cell # c
        BY <1>4, <1>5, <3>0, <3>1
      <4> QED BY <1>1, <1>7, <2>2, <3>0, <3>1, <4>1
    <3>2. CASE k # 1
      <4>1. k - 1 \in 1 .. L - 1 /\ (k - 1) + 1 = k
        BY <1>4, <3>2
      <4>2. u[k - 1] = t[k]
        BY <1>5, <4>1
      <4>3. \A j \in 1 .. L - 1 : j > k - 1 => u[j].cell # c
        BY <1>4, <1>5, <3>0
      <4> QED BY <1>9, <2>2, <3>0, <4>1, <4>2, <4>3
    <3> QED BY <3>1, <3>2
  <2> QED BY <1>6, <2>1, <2>2
<1> QED BY <1>4, <1>10 DEF Reaches, x, u, mm

(* Writes that end with all the cells of an image reach that image. *)
LEMMA ReachesImage ==
  ASSUME NEW m, NEW t \in Seq(Write), NEW w, NEW p \in Nat, Len(t) = p + nEvents + 6,
         \A k \in 1 .. nEvents + 6 : t[p + k] = W(k - 1, w[k - 1])
  PROVE  Reaches(m, t, w)
<1>0. nEvents \in Nat /\ Cell = 0 .. nEvents + 5
  BY CellNumbers
<1>1. ASSUME NEW c \in Cell
      PROVE  \E k \in 1 .. Len(t) : LastWrite(t, k, c) /\ t[k].val = w[c]
  <2>1. c + 1 \in 1 .. nEvents + 6 /\ (c + 1) - 1 = c /\ p + (c + 1) \in 1 .. p + nEvents + 6
    BY <1>0
  <2>2. t[p + (c + 1)] = W(c, w[c])
    BY <2>1
  <2>3. ASSUME NEW j \in 1 .. p + nEvents + 6, j > p + (c + 1)
        PROVE  t[j].cell # c
    <3>1. j - p \in 1 .. nEvents + 6 /\ p + (j - p) = j /\ (j - p) - 1 # c
      BY <1>0, <2>3
    <3>2. t[p + (j - p)] = W((j - p) - 1, w[(j - p) - 1])
      BY <3>1
    <3> QED BY <3>1, <3>2 DEF W
  <2>4. LastWrite(t, p + (c + 1), c) /\ t[p + (c + 1)].val = w[c]
    BY <2>2, <2>3 DEF LastWrite, W
  <2> QED BY <2>1, <2>4
<1> QED BY <1>1 DEF Reaches

(* A store, alone or after other writes, reaches its image. *)
LEMMA ReachesStore ==
  ASSUME NEW m, NEW c \in Serial, NEW n \in Owner, NEW e \in [Index -> Value]
  PROVE  /\ Reaches(m, StoreWrites(c, n, e), Image(c, n, e))
         /\ \A s \in Seq(Write) : Reaches(m, s \o StoreWrites(c, n, e), Image(c, n, e))
<1> DEFINE sw == StoreWrites(c, n, e)
           img == Image(c, n, e)
           N == nEvents + 6
<1>1. /\ sw \in Seq(Write)
      /\ Len(sw) = N
      /\ \A k \in 1 .. N : sw[k] = W(k - 1, img[k - 1])
  BY StoreIsImage
<1>2. N \in Nat
  BY CellNumbers
<1>3. Reaches(m, sw, img)
  <2>1. 0 \in Nat /\ Len(sw) = 0 + nEvents + 6
    BY <1>1, <1>2, CellNumbers
  <2>2. ASSUME NEW k \in 1 .. nEvents + 6 PROVE sw[0 + k] = W(k - 1, img[k - 1])
    <3>1. 0 + k = k
      BY <1>2
    <3> QED BY <1>1, <3>1
  <2> HIDE DEF sw, img
  <2> QED BY <1>1, <2>1, <2>2, ReachesImage
<1>4. ASSUME NEW s \in Seq(Write) PROVE Reaches(m, s \o sw, img)
  <2> HIDE DEF sw, img, N
  <2> DEFINE t == s \o sw
             p == Len(s)
  <2>0. p \in Nat
    BY LenProperties
  <2>1. t \in Seq(Write)
    BY <1>1
  <2>2. Len(s \o sw) = Len(s) + Len(sw)
    BY <1>1, ConcatLen, Zenon
  <2>3. \A k \in Len(s) + 1 .. Len(s) + Len(sw) : (s \o sw)[k] = sw[k - Len(s)]
    BY <1>1, ConcatSecond, Zenon
  <2>4. \A k \in p + 1 .. p + N : t[k] = sw[k - p]
    BY <1>1, <2>3, Zenon
  <2>5. Len(t) = p + N
    BY <1>1, <2>2, Zenon
  <2> HIDE DEF t, p
  <2>6. ASSUME NEW k \in 1 .. N PROVE t[p + k] = W(k - 1, img[k - 1])
    <3>1. p + k \in p + 1 .. p + N /\ (p + k) - p = k
      BY <1>2, <2>0
    <3>2. t[p + k] = sw[(p + k) - p]
      BY <2>4, <3>1
    <3> QED BY <1>1, <3>1, <3>2
  <2>7. Len(t) = p + nEvents + 6
    BY <2>0, <2>5, CellNumbers DEF N
  <2>8. Reaches(m, t, img)
    BY <2>0, <2>1, <2>6, <2>7, ReachesImage DEF N
  <2> QED BY <2>8 DEF t
<1> QED BY <1>3, <1>4

(* One write, and two to different cells. *)
LEMMA ReachesOne ==
  ASSUME NEW m \in [Cell -> Content], NEW c \in Cell, NEW v
  PROVE  Reaches(m, <<W(c, v)>>, [m EXCEPT ![c] = v])
<1> DEFINE t == <<W(c, v)>>
           w == [m EXCEPT ![c] = v]
<1>1. Len(t) = 1 /\ t[1].cell = c /\ t[1].val = v
  BY DEF W
<1>2. w[c] = v /\ \A x \in Cell : x # c => w[x] = m[x]
  OBVIOUS
<1> HIDE DEF t, w
<1>3. LastWrite(t, 1, c)
  BY <1>1 DEF LastWrite
<1>4. Reaches(m, t, w)
  BY <1>1, <1>2, <1>3 DEF Reaches
<1> QED BY <1>4 DEF t, w

LEMMA ReachesTwo ==
  ASSUME NEW m \in [Cell -> Content], NEW c \in Cell, NEW v, NEW d \in Cell, NEW u, c # d
  PROVE  Reaches(m, <<W(c, v), W(d, u)>>, [m EXCEPT ![c] = v, ![d] = u])
<1> DEFINE t == <<W(c, v), W(d, u)>>
           w == [m EXCEPT ![c] = v, ![d] = u]
<1>1. Len(t) = 2 /\ t[1].cell = c /\ t[1].val = v /\ t[2].cell = d /\ t[2].val = u
  BY DEF W
<1>2. w[c] = v /\ w[d] = u /\ \A x \in Cell : x # c /\ x # d => w[x] = m[x]
  OBVIOUS
<1> HIDE DEF t, w
<1>3. LastWrite(t, 1, c) /\ LastWrite(t, 2, d)
  BY <1>1 DEF LastWrite
<1>4. ASSUME NEW x \in Cell
      PROVE  \/ \E k \in 1 .. Len(t) : LastWrite(t, k, x) /\ t[k].val = w[x]
             \/ m[x] = w[x] /\ \A k \in 1 .. Len(t) : t[k].cell # x
  BY <1>1, <1>2, <1>3
<1>5. Reaches(m, t, w)
  BY <1>4 DEF Reaches
<1> QED BY <1>5 DEF t, w

----------------------------------------------------------------------------
LEMMA CellsDiffer ==
  /\ TAG01 # TAG2 /\ TAG01 # TAG3 /\ TAG01 # COUNT /\ TAG01 # NID /\ TAG01 # REST
  /\ TAG2 # TAG3 /\ TAG2 # COUNT /\ TAG2 # NID /\ TAG2 # REST
  /\ TAG3 # COUNT /\ TAG3 # NID /\ TAG3 # REST
  /\ COUNT # NID /\ COUNT # REST /\ NID # REST
  /\ \A i \in Index : EVENT(i) \notin {TAG01, TAG2, TAG3, COUNT, NID, REST}
BY CellNumbers DEF TAG01, TAG2, TAG3, COUNT, NID

(* What a tool writes belongs into the cell, and is no blank or cleared ID. *)
LEMMA EditedCells ==
  ASSUME NEW c \in Editable, NEW e \in Written(c)
  PROVE  /\ c \in Cell /\ e \in Contents(c)
         /\ c = NID => e \in Names
         /\ \A i \in Index : c = EVENT(i) => e \notin {Blank, Zero}
<1>1. c \in Cell
  BY CellNumbers, MemoryAssumption
<1>2. \A i \in Index : c = EVENT(i) => e \in Taught
  BY CellsDiffer DEF Written
<1>3. c = NID => e \in Names
  BY CellsDiffer DEF Written, Names
<1>4. e \in Contents(c)
  BY MemoryAssumption, CellsDiffer DEF Written, Contents, Serial, Value, Owner, Names
<1> QED BY <1>1, <1>2, <1>3, <1>4, MemoryAssumption

LEMMA EventTyped ==
  ASSUME NEW i \in Index PROVE Contents(EVENT(i)) = Value
BY CellsDiffer DEF Contents

(* The event IDs made from a node ID are values. *)
LEMMA NewIDTyped ==
  ASSUME NEW n \in Owner, NEW c \in Serial, NEW k \in Nat
  PROVE  NewID(n, c, k) \in Value /\ (c + k) % CountWrap \in Serial
<1>1. CountWrap \in Nat \ {0}
  BY MemoryAssumption
<1>2. c + k \in Nat
  BY <1>1 DEF Serial
<1>3. (c + k) % CountWrap \in Serial
  BY <1>1, <1>2 DEF Serial
<1> QED BY <1>3 DEF NewID, Value

(* reset() keeps the types. *)
LEMMA ResetTyped ==
  ASSUME NEW n \in Owner, NEW c \in Serial, reset(n, c)
  PROVE  /\ todo' \in Seq(Write) /\ nid' \in Owner /\ ev' \in [Index -> Value]
         /\ count' \in Serial /\ edited' = {}
<1> DEFINE e == [i \in Index |-> NewID(n, c, i + 1)]
           d == (c + nEvents) % CountWrap
<1>1. e \in [Index -> Value]
  <2>1. \A i \in Index : i + 1 \in Nat
    BY MemoryAssumption DEF Index
  <2> QED BY <2>1, NewIDTyped
<1>2. d \in Serial
  BY MemoryAssumption, NewIDTyped
<1>3. todo' = ClearWrites \o StoreWrites(d, n, e) /\ ev' = e /\ count' = d /\ nid' = n /\ edited' = {}
  BY DEF reset
<1> HIDE DEF e, d
<1>4. StoreWrites(d, n, e) \in Seq(Write)
  BY <1>1, <1>2, StoreIsImage
<1>5. ClearWrites \o StoreWrites(d, n, e) \in Seq(Write)
  BY <1>4, ClearTyped, ConcatProperties
<1> QED BY <1>1, <1>2, <1>3, <1>5

(* One or two writes. *)
LEMMA WriteSeqs ==
  ASSUME NEW x \in Write, NEW y \in Write
  PROVE  <<x>> \in Seq(Write) /\ <<x, y>> \in Seq(Write)
OBVIOUS

LEMMA MemoryTypedInit == Init => MemoryTyped
<1> SUFFICES ASSUME Init PROVE MemoryTyped
  OBVIOUS
<1>1. \A c \in Cell : Blank \in Contents(c)
  BY DEF Contents, Owner, Value
<1>2. eeprom \in [Cell -> Content] /\ \A c \in Cell : eeprom[c] \in Contents(c)
  BY <1>1, Writes DEF Init, Content
<1>3. todo \in Seq(Write) /\ phase \in {"off", "setup", "up"} /\ edited \subseteq Cell
  BY DEF Init
<1>4. nid \in Owner /\ ev \in [Index -> Value]
  BY DEF Init, Owner, Names, Value
<1>5. count \in Serial /\ ops \in 0 .. MaxOps
  BY MemoryAssumption DEF Init, Serial
<1> QED BY <1>2, <1>3, <1>4, <1>5 DEF MemoryTyped

LEMMA MemoryTypedStep == MemoryTyped /\ [Next]_vars => MemoryTyped'
<1> SUFFICES ASSUME MemoryTyped, [Next]_vars PROVE MemoryTyped'
  OBVIOUS
<1> USE DEF MemoryTyped
<1>0. /\ 0 \in Serial /\ MyID \in Owner /\ Blank \in Value /\ MaxOps \in Nat
      /\ CountWrap - 1 \in Serial
  BY MemoryAssumption DEF Serial, Owner, Names, Value
<1>o. ops < MaxOps /\ ops' = ops + 1 => ops' \in 0 .. MaxOps
  BY <1>0
<1>1. CASE forceInitAll
  <2>1. W(TAG01, Blank) \in Write
    BY CellNumbers, Writes DEF Contents
  <2> QED BY <1>1, <1>o, <2>1, WriteSeqs DEF forceInitAll
<1>2. CASE SetupNidOK
  <2>1. eeprom[NID] \in Owner /\ (eeprom[COUNT] = Blank \/ eeprom[COUNT] \in Serial)
    BY CellNumbers, CellsDiffer DEF Contents
  <2> QED BY <1>0, <1>2, <2>1, ResetTyped DEF SetupNidOK
<1>3. CASE SetupInvalid
  BY <1>0, <1>3, ResetTyped DEF SetupInvalid
<1>4. CASE SetupAllOK
  BY <1>4 DEF SetupAllOK, history
<1>5. CASE Load
  <2>1. eeprom[NID] \in Owner
    BY CellNumbers, CellsDiffer DEF Contents
  <2>2. \A i \in Index : eeprom[EVENT(i)] \in Value
    BY CellNumbers, EventTyped
  <2> QED BY <1>5, <2>1, <2>2 DEF Load, history
<1>6. CASE WriteCell
  <2>1. Head(todo) \in Write /\ Tail(todo) \in Seq(Write)
    BY <1>6, HeadTailProperties DEF WriteCell
  <2>2. /\ Head(todo).cell \in Cell /\ Head(todo).val \in Content
        /\ Head(todo).val \in Contents(Head(todo).cell)
    BY <2>1 DEF Write
  <2>3. eeprom' \in [Cell -> Content] /\ \A c \in Cell : eeprom'[c] \in Contents(c)
    BY <1>6, <2>2 DEF WriteCell
  <2> QED BY <1>6, <2>1, <2>3 DEF WriteCell, history
<1>7. ASSUME NEW e \in Taught, NEW i \in Index, Learn(i, e) PROVE MemoryTyped'
  <2>1. ev' \in [Index -> Value]
    BY <1>7 DEF Learn, Value
  <2>2. todo' \in Seq(Write)
    BY <1>7, <2>1, StoreIsImage DEF Learn
  <2> QED BY <1>7, <1>o, <2>1, <2>2 DEF Learn, Operation
<1>8. ASSUME NEW c \in Editable, NEW e \in Written(c), Edit(c, e) PROVE MemoryTyped'
  <2>1. c \in Cell /\ W(c, e) \in Write
    BY EditedCells, Writes
  <2> QED BY <1>8, <1>o, <2>1, WriteSeqs DEF Edit, Operation
<1>9. CASE forceInitEvents
  <2>1. W(TAG2, "33") \in Write /\ W(TAG3, "CC") \in Write
    BY CellNumbers, CellsDiffer, Writes DEF Contents
  <2> QED BY <1>9, <1>o, <2>1, WriteSeqs DEF forceInitEvents, Operation, history
<1>10. CASE PowerOff
  BY <1>0, <1>10, <1>o DEF PowerOff, history
<1>11. CASE UNCHANGED vars
  BY <1>11 DEF vars
<1> QED BY <1>1, <1>2, <1>3, <1>4, <1>5, <1>6, <1>7, <1>8, <1>9, <1>10, <1>11 DEF Next

LEMMA MemoryAlwaysTyped == Spec => []MemoryTyped
BY MemoryTypedInit, MemoryTypedStep, PTL DEF Spec

LEMMA MemoryTypesHold == MemoryTyped => TypeOK
<1> SUFFICES ASSUME MemoryTyped PROVE TypeOK
  OBVIOUS
<1> USE DEF MemoryTyped
<1>1. /\ eeprom[TAG01] \in {"EE55", Blank}
      /\ eeprom[TAG2] \in {"5E", "33", Blank}
      /\ eeprom[TAG3] \in {"E5", "CC", Blank}
      /\ eeprom[COUNT] \in Serial \cup {Blank}
      /\ eeprom[NID] \in Owner
      /\ eeprom[REST] \in Taught \cup {Blank, Zero}
  BY CellNumbers, CellsDiffer DEF Contents
<1>2. \A i \in Index : eeprom[EVENT(i)] \in Value
  BY CellNumbers, EventTyped
<1>3. todo = << >> \/ Head(todo).cell \in Cell
  BY HeadTailProperties DEF Write
<1> QED BY <1>1, <1>2, <1>3 DEF TypeOK

(* Every cell holds what its field may hold, whatever was interrupted, and *)
(* the RAM holds event IDs (NodeMemory::setup, store, reset).              *)
THEOREM MemoryTypes == Spec => []TypeOK
BY MemoryAlwaysTyped, MemoryTypesHold, PTL

----------------------------------------------------------------------------
(* The events of a store are those of its image, and its tag says that all *)
(* memory is valid.                                                        *)
LEMMA ImageCells ==
  ASSUME NEW c, NEW n, NEW e \in [Index -> Value]
  PROVE  /\ Image(c, n, e) \in [Cell -> {Image(c, n, e)[x] : x \in Cell}]
         /\ Image(c, n, e)[TAG01] = "EE55" /\ Image(c, n, e)[TAG2] = "5E"
         /\ Image(c, n, e)[TAG3] = "E5" /\ Image(c, n, e)[NID] = n
         /\ \A i \in Index : Image(c, n, e)[EVENT(i)] = e[i]
<1>1. \A i \in Index : EVENT(i) - 5 = i /\ EVENT(i) \in Cell
  BY CellNumbers DEF Index
<1>2. \A i \in Index : Image(c, n, e)[EVENT(i)] = e[EVENT(i) - 5]
  BY <1>1, CellsDiffer DEF Image
<1> QED BY <1>1, <1>2, CellNumbers, CellsDiffer DEF Image

(* The memory that will be there has the events the node works with. *)
EventsIn(w) == \A i \in Index : EVENT(i) \in edited \/ w[EVENT(i)] = ev[i]
WillHoldEvents == phase = "up" => \E w : Reaches(eeprom, todo, w) /\ EventsIn(w)

LEMMA WillHoldEventsStep == MemoryTyped /\ WillHoldEvents /\ [Next]_vars => WillHoldEvents'
<1> SUFFICES ASSUME MemoryTyped, WillHoldEvents, [Next]_vars, phase' = "up"
             PROVE  \E w : Reaches(eeprom', todo', w) /\ EventsIn(w)'
  BY DEF WillHoldEvents
<1>0. eeprom \in [Cell -> Content] /\ todo \in Seq(Write) /\ ev \in [Index -> Value]
      /\ count \in Serial /\ nid \in Owner
  BY DEF MemoryTyped
<1>n. ASSUME phase = "up", todo = << >>
      PROVE  \A i \in Index : EVENT(i) \in edited \/ eeprom[EVENT(i)] = ev[i]
  <2>1. PICK w : Reaches(eeprom, << >>, w) /\ EventsIn(w)
    BY <1>n DEF WillHoldEvents
  <2> QED BY <2>1, ReachesNow, CellNumbers DEF EventsIn
<1>1. CASE forceInitAll \/ SetupNidOK \/ SetupInvalid \/ SetupAllOK \/ PowerOff
  BY <1>1 DEF forceInitAll, SetupNidOK, SetupInvalid, SetupAllOK, PowerOff
<1>2. CASE Load
  <2>1. eeprom' = eeprom /\ todo' = << >> /\ \A i \in Index : ev'[i] = eeprom[EVENT(i)]
    BY <1>2 DEF Load
  <2>2. Reaches(eeprom', todo', eeprom)
    BY <2>1, NowReaches
  <2> QED BY <2>1, <2>2 DEF EventsIn
<1>3. CASE WriteCell
  <2>1. phase = "up" /\ edited' = edited /\ ev' = ev /\ todo # << >> /\ todo' = Tail(todo)
        /\ eeprom' = [eeprom EXCEPT ![Head(todo).cell] = Head(todo).val]
    BY <1>3 DEF WriteCell, history
  <2>2. PICK w : Reaches(eeprom, todo, w) /\ EventsIn(w)
    BY <2>1 DEF WillHoldEvents
  <2>3. Reaches(eeprom', todo', w)
    BY <1>0, <2>1, <2>2, ReachesStep
  <2>4. EventsIn(w)'
    BY <2>1, <2>2 DEF EventsIn
  <2> QED BY <2>3, <2>4
<1>4. ASSUME NEW e \in Taught, NEW i \in Index, Learn(i, e)
      PROVE  \E w : Reaches(eeprom', todo', w) /\ EventsIn(w)'
  <2>1. ev' \in [Index -> Value]
    BY <1>0, <1>4 DEF Learn, Value
  <2>2. todo' = StoreWrites(count, nid, ev')
    BY <1>4 DEF Learn
  <2>3. Reaches(eeprom', todo', Image(count, nid, ev'))
    BY <1>0, <2>1, <2>2, ReachesStore
  <2>4. \A j \in Index : Image(count, nid, ev')[EVENT(j)] = ev'[j]
    BY <2>1, ImageCells
  <2> QED BY <2>3, <2>4 DEF EventsIn
<1>5. ASSUME NEW c \in Editable, NEW e \in Written(c), Edit(c, e)
      PROVE  \E w : Reaches(eeprom', todo', w) /\ EventsIn(w)'
  <2>0. PICK w : w = [eeprom EXCEPT ![c] = e]
    OBVIOUS
  <2>1. phase = "up" /\ todo = << >> /\ eeprom' = eeprom /\ ev' = ev
        /\ edited' = edited \cup {c} /\ todo' = <<W(c, e)>>
    BY <1>5 DEF Edit, Operation
  <2>2. c \in Cell
    BY EditedCells
  <2>3. Reaches(eeprom', todo', w)
    BY <1>0, <2>0, <2>1, <2>2, ReachesOne
  <2>4. \A i \in Index : EVENT(i) = c \/ w[EVENT(i)] = eeprom[EVENT(i)]
    BY <1>0, <2>0, <2>2, CellNumbers
  <2>5. EventsIn(w)'
    BY <1>n, <2>1, <2>4 DEF EventsIn
  <2> QED BY <2>3, <2>5
<1>6. CASE forceInitEvents
  <2>0. PICK w : w = [eeprom EXCEPT ![TAG2] = "33", ![TAG3] = "CC"]
    OBVIOUS
  <2>1. phase = "up" /\ todo = << >> /\ eeprom' = eeprom /\ ev' = ev
        /\ edited' = edited /\ todo' = <<W(TAG2, "33"), W(TAG3, "CC")>>
    BY <1>6 DEF forceInitEvents, Operation, history
  <2>2. TAG2 \in Cell /\ TAG3 \in Cell /\ TAG2 # TAG3
    BY CellNumbers, CellsDiffer
  <2>3. Reaches(eeprom', todo', w)
    BY <1>0, <2>0, <2>1, <2>2, ReachesTwo
  <2>4. \A i \in Index : w[EVENT(i)] = eeprom[EVENT(i)]
    BY <1>0, <2>0, <2>2, CellNumbers, CellsDiffer
  <2>5. EventsIn(w)'
    BY <1>n, <2>1, <2>4 DEF EventsIn
  <2> QED BY <2>3, <2>5
<1>7. CASE UNCHANGED vars
  <2>1. phase = "up" /\ eeprom' = eeprom /\ todo' = todo /\ edited' = edited /\ ev' = ev
    BY <1>7 DEF vars
  <2>2. PICK w : Reaches(eeprom, todo, w) /\ EventsIn(w)
    BY <2>1 DEF WillHoldEvents
  <2>3. EventsIn(w)'
    BY <2>1, <2>2 DEF EventsIn
  <2> QED BY <2>1, <2>2, <2>3
<1> QED BY <1>1, <1>2, <1>3, <1>4, <1>5, <1>6, <1>7 DEF Next

(* A node that is up, its writes done, works with the events it has in the *)
(* EEPROM, save those a tool has written there since; also when the power  *)
(* failed between two writes (NodeMemory::store, setup).                   *)
THEOREM EventsAreStored == Spec => []StoredEvents
<1>1. Init => WillHoldEvents
  BY DEF Init, WillHoldEvents
<1>2. WillHoldEvents => StoredEvents
  <2> SUFFICES ASSUME WillHoldEvents, phase = "up", todo = << >>, NEW i \in Index
               PROVE  EVENT(i) \in edited \/ eeprom[EVENT(i)] = ev[i]
    BY DEF StoredEvents
  <2>1. PICK w : Reaches(eeprom, << >>, w) /\ EventsIn(w)
    BY DEF WillHoldEvents
  <2> QED BY <2>1, ReachesNow, CellNumbers DEF EventsIn
<1> QED BY <1>1, <1>2, MemoryAlwaysTyped, WillHoldEventsStep, PTL DEF Spec

----------------------------------------------------------------------------
(* The two tags, and the memory they promise. *)
AllValid(m) == m[TAG01] = "EE55" /\ m[TAG2] = "5E" /\ m[TAG3] = "E5"
NidValid(m) == m[TAG01] = "EE55" /\ m[TAG2] = "33" /\ m[TAG3] = "CC"
EventsSet(m) == \A i \in Index : m[EVENT(i)] \notin {Blank, Zero}
Filled(m) == m[NID] \in Names /\ EventsSet(m)
Promised(m) ==
  /\ AllValid(m) => Filled(m)
  /\ NidValid(m) => m[NID] \in Names

(* With whole calls: what setup() leaves is what its tag promises, and a   *)
(* node that is up keeps its memory filled, whatever becomes of the tag.   *)
WillPromise ==
  /\ phase = "off" => /\ nid = MyID /\ Promised(eeprom)
                      /\ todo = << >> \/ todo = <<W(TAG01, Blank)>>
  /\ phase = "setup" => \E w : Reaches(eeprom, todo, w) /\ Filled(w)
  /\ phase = "up" => /\ nid \in Names /\ \A i \in Index : ev[i] \notin {Blank, Zero}
                     /\ \E w : Reaches(eeprom, todo, w) /\ Filled(w)

(* The tag and the events depend on nothing but their cells. *)
LEMMA SameCells ==
  ASSUME NEW m, NEW w, \A c \in Cell : m[c] = w[c]
  PROVE  Filled(m) <=> Filled(w)
<1>1. m[NID] = w[NID] /\ \A i \in Index : m[EVENT(i)] = w[EVENT(i)]
  BY CellNumbers
<1> QED BY <1>1 DEF Filled, EventsSet

LEMMA FilledPromised ==
  ASSUME NEW m, Filled(m) PROVE Promised(m)
BY DEF Filled, Promised

(* A store of a node ID and of events that are set. *)
LEMMA ImageFilled ==
  ASSUME NEW c, NEW n \in Names, NEW e \in [Index -> Value],
         \A i \in Index : e[i] \notin {Blank, Zero}
  PROVE  Filled(Image(c, n, e))
<1> DEFINE m == Image(c, n, e)
<1>1. m[NID] = n /\ \A i \in Index : m[EVENT(i)] = e[i]
  BY ImageCells
<1> HIDE DEF m
<1>2. Filled(m)
  BY <1>1 DEF Filled, EventsSet
<1> QED BY <1>2 DEF m

(* reset() with a node ID reaches such a store. *)
LEMMA ResetFills ==
  ASSUME NEW n \in Names, NEW c \in Serial, reset(n, c)
  PROVE  \E w : Reaches(eeprom, todo', w) /\ Filled(w)
<1> DEFINE e == [i \in Index |-> NewID(n, c, i + 1)]
           d == (c + nEvents) % CountWrap
<1>1. n \in Owner
  BY DEF Owner
<1>2. \A i \in Index : NewID(n, c, i + 1) \in Value /\ NewID(n, c, i + 1) \notin {Blank, Zero}
  <2> TAKE i \in Index
  <2>1. i + 1 \in Nat
    BY MemoryAssumption DEF Index
  <2>2. NewID(n, c, i + 1) \in Value /\ (c + (i + 1)) % CountWrap \in 0 .. CountWrap - 1
    BY <1>1, <2>1, NewIDTyped DEF Serial
  <2>3. ((NodeIDs \cup {MyID, Blank, Zero}) \X (0 .. CountWrap - 1)) \cap {Blank, Zero} = {}
    BY MemoryAssumption
  <2>4. NewID(n, c, i + 1) \in (NodeIDs \cup {MyID, Blank, Zero}) \X (0 .. CountWrap - 1)
    BY <2>2 DEF NewID, Names
  <2> QED BY <2>2, <2>3, <2>4
<1>3. e \in [Index -> Value] /\ \A i \in Index : e[i] \notin {Blank, Zero}
  BY <1>2
<1>4. d \in Serial
  BY <1>1, MemoryAssumption, NewIDTyped
<1>5. todo' = ClearWrites \o StoreWrites(d, n, e)
  BY DEF reset
<1> HIDE DEF e, d
<1>6. Reaches(eeprom, todo', Image(d, n, e))
  BY <1>1, <1>3, <1>4, <1>5, ReachesStore, ClearTyped
<1> QED BY <1>3, <1>6, ImageFilled

LEMMA WillPromiseStep == ~Torn /\ MemoryTyped /\ WillPromise /\ [Next]_vars => WillPromise'
<1> SUFFICES ASSUME ~Torn, MemoryTyped, WillPromise, [Next]_vars PROVE WillPromise'
  OBVIOUS
<1>0. eeprom \in [Cell -> Content] /\ todo \in Seq(Write) /\ ev \in [Index -> Value]
      /\ count \in Serial /\ Names \subseteq Owner
  BY DEF MemoryTyped, Owner
<1>c. /\ {TAG01, TAG2, TAG3, COUNT, NID} \subseteq Cell
      /\ \A i \in Index : EVENT(i) \in Cell
  BY CellNumbers
<1>n. ASSUME NEW w, Reaches(eeprom, << >>, w), Filled(w)
      PROVE  Filled(eeprom)
  BY <1>n, ReachesNow, SameCells
<1>t. /\ checkAllOK <=> AllValid(eeprom)
      /\ checkNidOK <=> NidValid(eeprom)
  BY DEF checkAllOK, checkNidOK, HasTag, AllTag, NidTag, AllValid, NidValid
<1>1. CASE forceInitAll
  <2>1. phase = "off" /\ phase' = "off" /\ nid' = nid /\ eeprom' = eeprom /\ todo' = <<W(TAG01, Blank)>>
    BY <1>1 DEF forceInitAll
  <2> QED BY <2>1 DEF WillPromise, Promised, AllValid, NidValid, Filled, EventsSet
<1>2. CASE SetupNidOK
  <2>1. PICK c : /\ c = (IF eeprom[COUNT] = Blank THEN CountWrap - 1 ELSE eeprom[COUNT])
                 /\ reset(eeprom[NID], c)
    BY <1>2 DEF SetupNidOK
  <2>2. eeprom[COUNT] \in Serial \cup {Blank} /\ CountWrap - 1 \in Serial
    BY MemoryAssumption, CellNumbers, CellsDiffer DEF Contents, MemoryTyped, Serial
  <2>3. c \in Serial
    BY <2>1, <2>2
  <2>4. phase = "off" /\ NidValid(eeprom) /\ phase' = "setup" /\ eeprom' = eeprom
    BY <1>2, <1>t DEF SetupNidOK, PowerOn
  <2>5. eeprom[NID] \in Names
    BY <2>4 DEF WillPromise, Promised
  <2>6. \E w : Reaches(eeprom, todo', w) /\ Filled(w)
    BY <2>1, <2>3, <2>5, ResetFills
  <2> QED BY <2>4, <2>6 DEF WillPromise
<1>3. CASE SetupInvalid
  <2>1. phase = "off" /\ reset(nid, 0) /\ phase' = "setup" /\ eeprom' = eeprom
    BY <1>3 DEF SetupInvalid, PowerOn
  <2>2. nid \in Names /\ 0 \in Serial
    BY <2>1, MemoryAssumption DEF WillPromise, Serial, Names
  <2>3. \E w : Reaches(eeprom, todo', w) /\ Filled(w)
    BY <2>1, <2>2, ResetFills
  <2> QED BY <2>1, <2>3 DEF WillPromise
<1>4. CASE SetupAllOK
  <2>1. /\ phase = "off" /\ todo = << >> /\ AllValid(eeprom)
        /\ phase' = "setup" /\ eeprom' = eeprom /\ todo' = todo
    BY <1>4, <1>t DEF SetupAllOK, PowerOn
  <2>2. Filled(eeprom)
    BY <2>1 DEF WillPromise, Promised
  <2>3. Reaches(eeprom', todo', eeprom)
    BY <2>1, NowReaches
  <2> QED BY <2>1, <2>2, <2>3 DEF WillPromise
<1>5. CASE Load
  <2>1. /\ phase = "setup" /\ todo = << >> /\ eeprom' = eeprom /\ todo' = todo
        /\ phase' = "up" /\ nid' = eeprom[NID] /\ \A i \in Index : ev'[i] = eeprom[EVENT(i)]
    BY <1>5 DEF Load
  <2>2. PICK w : Reaches(eeprom, << >>, w) /\ Filled(w)
    BY <2>1 DEF WillPromise
  <2>3. Filled(eeprom)
    BY <1>n, <2>2
  <2>4. nid' \in Names /\ \A i \in Index : ev'[i] \notin {Blank, Zero}
    BY <2>1, <2>3 DEF Filled, EventsSet
  <2>5. Reaches(eeprom', todo', eeprom)
    BY <2>1, NowReaches
  <2> QED BY <2>1, <2>3, <2>4, <2>5 DEF WillPromise
<1>6. CASE WriteCell
  <2>1. /\ todo # << >> /\ todo' = Tail(todo) /\ phase' = phase /\ nid' = nid /\ ev' = ev
        /\ eeprom' = [eeprom EXCEPT ![Head(todo).cell] = Head(todo).val]
    BY <1>6 DEF WriteCell
  <2>2. \A w : Reaches(eeprom, todo, w) => Reaches(eeprom', todo', w)
    BY <1>0, <2>1, ReachesStep
  <2>3. ASSUME phase = "off" PROVE todo' = << >> /\ Promised(eeprom')
    <3>1. todo = <<W(TAG01, Blank)>>
      BY <2>1, <2>3 DEF WillPromise
    <3>2. todo' = << >> /\ Head(todo).cell = TAG01 /\ Head(todo).val = Blank
      BY <2>1, <3>1 DEF W
    <3>3. eeprom'[TAG01] = Blank /\ Blank # "EE55"
      BY <1>0, <1>c, <2>1, <3>2, MemoryAssumption
    <3> QED BY <3>2, <3>3 DEF Promised, AllValid, NidValid
  <2> QED BY <2>1, <2>2, <2>3 DEF WillPromise
<1>7. ASSUME NEW e \in Taught, NEW i \in Index, Learn(i, e) PROVE WillPromise'
  <2>1. /\ phase = "up" /\ phase' = "up" /\ nid' = nid /\ eeprom' = eeprom
        /\ ev' = [ev EXCEPT ![i] = e] /\ todo' = StoreWrites(count, nid, ev')
    BY <1>7 DEF Learn, Operation
  <2>2. nid \in Names /\ nid \in Owner /\ \A j \in Index : ev[j] \notin {Blank, Zero}
    BY <1>0, <2>1 DEF WillPromise
  <2>3. e \notin {Blank, Zero}
    BY MemoryAssumption
  <2>4. ev' \in [Index -> Value] /\ \A j \in Index : ev'[j] \notin {Blank, Zero}
    BY <1>0, <2>1, <2>2, <2>3 DEF Value
  <2>5. Reaches(eeprom', todo', Image(count, nid, ev'))
    BY <1>0, <2>1, <2>2, <2>4, ReachesStore
  <2>6. Filled(Image(count, nid, ev'))
    BY <2>2, <2>4, ImageFilled
  <2> QED BY <2>1, <2>2, <2>4, <2>5, <2>6 DEF WillPromise
<1>u. ASSUME phase = "up", todo = << >>
      PROVE  nid \in Names /\ (\A i \in Index : ev[i] \notin {Blank, Zero}) /\ Filled(eeprom)
  <2>1. PICK w : Reaches(eeprom, << >>, w) /\ Filled(w)
    BY <1>u DEF WillPromise
  <2> QED BY <1>u, <1>n, <2>1 DEF WillPromise
<1>8. ASSUME NEW c \in Editable, NEW e \in Written(c), Edit(c, e) PROVE WillPromise'
  <2>0. PICK w : w = [eeprom EXCEPT ![c] = e]
    OBVIOUS
  <2>1. /\ phase = "up" /\ todo = << >> /\ phase' = "up" /\ nid' = nid /\ eeprom' = eeprom
        /\ ev' = ev /\ todo' = <<W(c, e)>>
    BY <1>8 DEF Edit, Operation
  <2>2. /\ c \in Cell
        /\ c = NID => e \in Names
        /\ \A i \in Index : c = EVENT(i) => e \notin {Blank, Zero}
    BY EditedCells
  <2>3. Reaches(eeprom', todo', w)
    BY <1>0, <2>0, <2>1, <2>2, ReachesOne
  <2>4. w[NID] \in Names
    BY <1>0, <1>c, <1>u, <2>0, <2>1, <2>2 DEF Filled
  <2>5. \A i \in Index : w[EVENT(i)] \notin {Blank, Zero}
    BY <1>0, <1>c, <1>u, <2>0, <2>1, <2>2 DEF Filled, EventsSet
  <2>6. Filled(w)
    BY <2>4, <2>5 DEF Filled, EventsSet
  <2> QED BY <1>u, <2>1, <2>3, <2>6 DEF WillPromise
<1>9. CASE forceInitEvents
  <2>0. PICK w : w = [eeprom EXCEPT ![TAG2] = "33", ![TAG3] = "CC"]
    OBVIOUS
  <2>1. /\ phase = "up" /\ todo = << >> /\ phase' = "up" /\ nid' = nid /\ eeprom' = eeprom
        /\ ev' = ev /\ todo' = <<W(TAG2, "33"), W(TAG3, "CC")>>
    BY <1>9 DEF forceInitEvents, Operation
  <2>2. Reaches(eeprom', todo', w)
    BY <1>0, <1>c, <2>0, <2>1, CellsDiffer, ReachesTwo
  <2>3. w[NID] = eeprom[NID] /\ \A i \in Index : w[EVENT(i)] = eeprom[EVENT(i)]
    BY <1>0, <1>c, <2>0, CellsDiffer
  <2>4. Filled(w)
    BY <1>u, <2>1, <2>3 DEF Filled, EventsSet
  <2> QED BY <1>u, <2>1, <2>2, <2>4 DEF WillPromise
<1>10. CASE PowerOff
  <2>1. /\ phase \in {"setup", "up"} /\ todo = << >> /\ phase' = "off" /\ nid' = MyID
        /\ todo' = << >> /\ eeprom' = eeprom
    BY <1>10 DEF PowerOff, MemoryTyped
  <2>2. PICK w : Reaches(eeprom, << >>, w) /\ Filled(w)
    BY <2>1 DEF WillPromise
  <2>3. Promised(eeprom)
    BY <1>n, <2>2, FilledPromised
  <2> QED BY <2>1, <2>3 DEF WillPromise, Promised, AllValid, NidValid, Filled, EventsSet
<1>11. CASE UNCHANGED vars
  BY <1>11 DEF vars, WillPromise, Promised, AllValid, NidValid, Filled, EventsSet
<1> QED BY <1>1, <1>2, <1>3, <1>4, <1>5, <1>6, <1>7, <1>8, <1>9, <1>10, <1>11 DEF Next

(* If the power fails only between calls, a tag found at power-on is true: *)
(* "all memory valid" means a node ID and events that are set, "node ID    *)
(* valid" a node ID (checkAllOK, checkNidOK), whatever cells a tool has    *)
(* written, the tag itself included.  Without the hypothesis it is false,  *)
(* as store() writes the tag first.                                        *)
THEOREM TagIsSound ==
  ASSUME ~Torn
  PROVE  Spec => []TagSound
<1>1. Init => WillPromise
  BY MemoryAssumption, CellNumbers
     DEF Init, WillPromise, Promised, AllValid, NidValid, Filled, Cell
<1>2. WillPromise => TagSound
  BY DEF WillPromise, Promised, AllValid, NidValid, Filled, EventsSet, TagSound,
         checkAllOK, checkNidOK, HasTag, AllTag, NidTag
<1>3. MemoryTyped /\ WillPromise /\ [Next]_vars => WillPromise'
  BY WillPromiseStep
<1> QED BY <1>1, <1>2, <1>3, MemoryAlwaysTyped, PTL DEF Spec
=============================================================================
