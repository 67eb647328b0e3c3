-------------------------- MODULE NodeListProofs ---------------------------
(***************************************************************************)
(* What the list algorithms of NodeLists do to every list: where they      *)
(* insert, and that a sorted queue without repetition stays one.           *)
(***************************************************************************)
EXTENDS NodeLists, SequenceTheorems, FiniteSetTheorems, NaturalsInduction,
        WellFoundedInduction, TLAPS

(***************************************************************************)
(* Every non-empty set of naturals has a least element, from the fact that *)
(* < is well-founded.                                                      *)
(***************************************************************************)
LEMMA LeastNat ==
  ASSUME NEW T \in SUBSET Nat, T # {}
  PROVE  /\ Min(T) \in T
         /\ \A y \in T : Min(T) <= y
<1> DEFINE R == {p \in Nat \X Nat : p[1] < p[2]}
<1>1. R = OpToRel(<, Nat)
  BY DEF OpToRel
<1>2. IsWellFoundedOn(R, Nat)
  BY <1>1, NatLessThanWellFounded
<1>3. PICK x \in T : \A y \in T : ~(<<y, x>> \in R)
  <2> HIDE DEF R
  <2> QED
    BY <1>2, WFMin
<1>4. \A y \in T : /\ <<y, x>> \in Nat \X Nat
                   /\ <<y, x>>[1] = y
                   /\ <<y, x>>[2] = x
  OBVIOUS
<1>5. \A y \in T : ~(y < x)
  BY <1>3, <1>4
<1>6. \A y \in T : x <= y
  BY <1>5
<1> QED
  BY <1>6 DEF Min

\* Nothing before the insertion point is as far as e, and what is there is.
LEMMA InsertionPointIs ==
  ASSUME NEW S, NEW list \in Seq(S), NEW e
  PROVE  LET i == InsertionPoint(list, e)
         IN  \/ /\ i = 0
                /\ \A j \in DOMAIN list : ~(e.d <= list[j].d)
             \/ /\ i \in DOMAIN list
                /\ e.d <= list[i].d
                /\ \A j \in DOMAIN list : j < i => ~(e.d <= list[j].d)
<1> DEFINE I == { j \in 1 .. Len(list) : e.d <= list[j].d }
<1>1. I \subseteq Nat /\ DOMAIN list = 1 .. Len(list)
  BY LenProperties
<1>2. I # {} => Min(I) \in I /\ \A j \in I : Min(I) <= j
  <2> HIDE DEF I
  <2> QED
    BY <1>1, LeastNat
<1>3. InsertionPoint(list, e) = IF I # {} THEN Min(I) ELSE 0
  BY DEF InsertionPoint, SelectInSeq
<1>4. CASE I = {}
  BY <1>1, <1>3, <1>4
<1>5. CASE I # {}
  <2>1. \A j \in DOMAIN list : j < Min(I) => j \notin I
    <3>1. DOMAIN list \subseteq Nat
      BY <1>1
    <3> HIDE DEF I
    <3>2. Min(I) \in Nat
      BY <1>1, <1>2, <1>5
    <3> QED
      BY <1>2, <1>5, <3>1, <3>2
  <2> QED
    BY <1>1, <1>2, <1>3, <1>5, <2>1
<1> QED
  BY <1>4, <1>5

\* A set of positions has a k-th one, for each k up to its size.
LEMMA KthExists ==
  ASSUME NEW n \in Nat, NEW kept \in SUBSET (1 .. n),
         NEW k \in 1 .. Cardinality(kept)
  PROVE  \E j \in kept : Cardinality({ i \in kept : i <= j }) = k
<1> DEFINE UpTo(j) == { i \in kept : i <= j }
           Enough  == { j \in 0 .. n : k <= Cardinality(UpTo(j)) }
<1>1. /\ IsFiniteSet(kept)
      /\ Cardinality(kept) \in Nat
      /\ \A T \in SUBSET kept : IsFiniteSet(T) /\ Cardinality(T) \in Nat
  <2>1. IsFiniteSet(1 .. n)
    BY FS_Interval
  <2>2. IsFiniteSet(kept)
    BY <2>1, FS_Subset
  <2>3. \A T \in SUBSET kept : IsFiniteSet(T)
    BY <2>2, FS_Subset
  <2> QED
    BY <2>2, <2>3, FS_CardinalityType
<1>2. \A j : IsFiniteSet(UpTo(j)) /\ Cardinality(UpTo(j)) \in Nat
  BY <1>1
<1>3. UpTo(n) = kept /\ UpTo(0) = {}
  <2>1. \A j \in kept : j <= n /\ ~(j <= 0)
    OBVIOUS
  <2> QED
    BY <2>1
<1>4. n \in Enough /\ 0 \notin Enough /\ Enough \in SUBSET Nat
  BY <1>1, <1>3, FS_EmptySet
<1>5. PICK m \in Enough : \A j \in Enough : m <= j
  <2> HIDE DEF Enough
  <2> QED
    BY <1>4, LeastNat
<1>6. m \in 1 .. n /\ m - 1 \in 0 .. n /\ m - 1 \notin Enough
  <2>1. m # 0 /\ m \in 0 .. n
    BY <1>4, <1>5
  <2>2. m \in 1 .. n /\ m - 1 \in 0 .. n /\ ~(m <= m - 1)
    BY <2>1
  <2> HIDE DEF Enough
  <2> QED
    BY <1>5, <2>2
<1>7. Cardinality(UpTo(m - 1)) < k /\ k <= Cardinality(UpTo(m))
  <2>1. k <= Cardinality(UpTo(m)) /\ ~(k <= Cardinality(UpTo(m - 1)))
    BY <1>5, <1>6
  <2> HIDE DEF UpTo
  <2> QED
    BY <1>2, <2>1
<1>8. \A i \in kept : i <= m <=> (i <= m - 1 \/ i = m)
  BY <1>6
<1>9. m \in kept
  <2> SUFFICES ASSUME m \notin kept
               PROVE  FALSE
    OBVIOUS
  <2>1. UpTo(m) = UpTo(m - 1)
    BY <1>8
  <2> HIDE DEF UpTo
  <2> QED
    BY <1>2, <1>7, <2>1
<1>10. UpTo(m) = UpTo(m - 1) \cup {m}
  BY <1>6, <1>8, <1>9
<1>11. m \notin UpTo(m - 1)
  BY <1>6
<1>12. Cardinality(UpTo(m)) = Cardinality(UpTo(m - 1)) + 1
  <2> HIDE DEF UpTo
  <2> QED
    BY <1>2, <1>10, <1>11, FS_AddElement
<1>13. Cardinality(UpTo(m)) = k
  <2> HIDE DEF UpTo
  <2> QED
    BY <1>2, <1>7, <1>12
<1> QED
  BY <1>9, <1>13

(***************************************************************************)
(* WithoutSame keeps a selection of the list, in its order, without e.     *)
(***************************************************************************)
LEMMA WithoutSameSelects ==
  ASSUME NEW S, NEW list \in Seq(S), NEW e
  PROVE  LET w == WithoutSame(list, e)
         IN  /\ w \in Seq(S)
             /\ Len(w) <= Len(list)
             /\ \E f \in [1 .. Len(w) -> 1 .. Len(list)] :
                   /\ \A j, k \in 1 .. Len(w) : j < k => f[j] < f[k]
                   /\ \A k \in 1 .. Len(w) : /\ w[k] = list[f[k]]
                                              /\ ~SameEntry(w[k], e)
<1> DEFINE n == Len(list)
           kept == { j \in 1 .. n : ~SameEntry(list[j], e) }
           c == Cardinality(kept)
           UpTo(j) == { i \in kept : i <= j }
           f == [k \in 1 .. c |-> CHOOSE j \in kept : Cardinality(UpTo(j)) = k]
           w == [k \in 1 .. c |-> list[f[k]]]
<1>1. n \in Nat /\ \A j \in 1 .. n : list[j] \in S
  BY LenProperties, ElementOfSeq
<1>2. kept \in SUBSET (1 .. n)
  OBVIOUS
<1>3. c \in Nat /\ c <= n /\ IsFiniteSet(kept)
  <2> HIDE DEF kept
  <2>1. IsFiniteSet(1 .. n) /\ Cardinality(1 .. n) = n
    <3> HIDE DEF n
    <3>1. /\ IsFiniteSet(1 .. n)
          /\ Cardinality(1 .. n) = IF 1 > n THEN 0 ELSE n - 1 + 1
      BY <1>1, FS_Interval
    <3> QED
      BY <1>1, <3>1
  <2>2. IsFiniteSet(kept) /\ Cardinality(kept) <= Cardinality(1 .. n)
    BY <1>2, <2>1, FS_Subset
  <2> QED
    BY <2>1, <2>2, FS_CardinalityType
<1>4. \A k \in 1 .. c : f[k] \in kept /\ Cardinality(UpTo(f[k])) = k
  <2> HIDE DEF kept
  <2>1. \A k \in 1 .. c : \E j \in kept : Cardinality(UpTo(j)) = k
    BY <1>1, <1>2, KthExists
  <2> QED
    BY <2>1
<1>5. ASSUME NEW j \in 1 .. c, NEW k \in 1 .. c, j < k
      PROVE  f[j] < f[k]
  <2> HIDE DEF f, kept, n, UpTo
  <2>1. f[j] \in Nat /\ f[k] \in Nat
    <3>1. kept \subseteq Nat
      BY <1>1, <1>2
    <3>2. f[j] \in kept /\ f[k] \in kept
      BY <1>4
    <3> QED
      BY <3>1, <3>2
  <2>2. SUFFICES ASSUME f[k] <= f[j]
                 PROVE  FALSE
    BY <2>1
  <2>3. UpTo(f[k]) \in SUBSET UpTo(f[j])
    <3>1. \A i \in kept : i <= f[k] => i <= f[j]
      BY <1>1, <1>2, <2>1, <2>2
    <3> QED
      BY <3>1 DEF UpTo
  <2>4. IsFiniteSet(UpTo(f[j]))
    BY <1>3, FS_Subset DEF UpTo
  <2>5. Cardinality(UpTo(f[k])) <= Cardinality(UpTo(f[j]))
    <3> HIDE DEF UpTo
    <3> QED
      BY <2>3, <2>4, FS_Subset
  <2> QED
    BY <1>3, <1>4, <1>5, <2>5
<1>6. WithoutSame(list, e) = w
  BY DEF WithoutSame
<1> HIDE DEF kept, UpTo
<1>7. w \in Seq(S) /\ Len(w) = c
  <2>1. \A k \in 1 .. c : list[f[k]] \in S
    BY <1>1, <1>2, <1>4
  <2> HIDE DEF f, c
  <2> QED
    BY <1>3, <2>1
<1>8. f \in [1 .. c -> 1 .. n]
  BY <1>2, <1>4
<1>9. \A k \in 1 .. c : w[k] = list[f[k]] /\ ~SameEntry(w[k], e)
  BY <1>4 DEF kept
<1> HIDE DEF f, c, w
<1> QED
  BY <1>3, <1>5, <1>6, <1>7, <1>8, <1>9

\* Sorted by distance, and no entry twice.
Ordered(list) ==
    \A i, j \in DOMAIN list : i < j => /\ list[i].d <= list[j].d
                                      /\ ~SameEntry(list[i], list[j])

(***************************************************************************)
(* e inserted at its place, and the entries equal to it taken out behind:  *)
(* the list stays ordered, and its first entry is none of the farther.     *)
(***************************************************************************)
LEMMA InsertionKeepsOrder ==
  ASSUME NEW S, \A x \in S : x.d \in Nat,
         NEW queue \in Seq(S), NEW e \in S, Ordered(queue),
         InsertionPoint(queue, e) # 0
  PROVE  LET i == InsertionPoint(queue, e)
             g == SubSeq(queue, 1, i - 1) \o <<e>>
                  \o WithoutSame(SubSeq(queue, i, Len(queue)), e)
         IN  /\ g \in Seq(S)
             /\ Len(g) \in 1 .. Len(queue) + 1
             /\ Ordered(g)
             /\ g[1].d <= e.d
             /\ g[1].d <= queue[1].d
<1> DEFINE i == InsertionPoint(queue, e)
           n == Len(queue)
           b == <<e>>
           a == SubSeq(queue, 1, i - 1)
           t == SubSeq(queue, i, n)
           w == WithoutSame(t, e)
           g == a \o b \o w
<1>1. /\ n \in Nat
      /\ DOMAIN queue = 1 .. n
      /\ \A j \in 1 .. n : queue[j] \in S /\ queue[j].d \in Nat
      /\ e.d \in Nat
  BY LenProperties, ElementOfSeq
<1>2. /\ i \in 1 .. n
      /\ e.d <= queue[i].d
      /\ \A j \in 1 .. n : j < i => ~(e.d <= queue[j].d)
  BY <1>1, InsertionPointIs
<1> HIDE DEF i
<1>3. /\ a \in Seq(S)
      /\ Len(a) = i - 1
      /\ \A j \in 1 .. i - 1 : a[j] = queue[j]
  <2>1. \A j \in 1 .. i - 1 : queue[j] \in S
    BY <1>1, <1>2
  <2> QED
    BY <1>1, <1>2, <2>1, SubSeqProperties
<1>4. /\ t \in Seq(S)
      /\ Len(t) = n - i + 1
      /\ \A j \in 1 .. n - i + 1 : t[j] = queue[i + j - 1]
  <2>1. \A j \in i .. n : queue[j] \in S
    BY <1>1, <1>2
  <2> QED
    BY <1>1, <1>2, <2>1, SubSeqProperties
<1> HIDE DEF a, t
<1>5. /\ w \in Seq(S)
      /\ Len(w) \in 0 .. n - i + 1
      /\ \E f \in [1 .. Len(w) -> 1 .. Len(t)] :
            /\ \A j, k \in 1 .. Len(w) : j < k => f[j] < f[k]
            /\ \A k \in 1 .. Len(w) : w[k] = t[f[k]] /\ ~SameEntry(w[k], e)
  <2>1. /\ w \in Seq(S)
        /\ Len(w) <= Len(t)
        /\ \E f \in [1 .. Len(w) -> 1 .. Len(t)] :
              /\ \A j, k \in 1 .. Len(w) : j < k => f[j] < f[k]
              /\ \A k \in 1 .. Len(w) : w[k] = t[f[k]] /\ ~SameEntry(w[k], e)
    BY <1>4, WithoutSameSelects
  <2> HIDE DEF w
  <2>2. Len(w) \in 0 .. n - i + 1
    BY <1>1, <1>2, <1>4, <2>1, LenProperties
  <2> QED
    BY <2>1, <2>2
<1>6. PICK f \in [1 .. Len(w) -> 1 .. Len(t)] :
         /\ \A j, k \in 1 .. Len(w) : j < k => f[j] < f[k]
         /\ \A k \in 1 .. Len(w) : w[k] = t[f[k]] /\ ~SameEntry(w[k], e)
  BY <1>5
<1> HIDE DEF w, n
<1>7. /\ g \in Seq(S)
      /\ Len(g) = i + Len(w)
      /\ \A k \in 1 .. i - 1 : g[k] = queue[k]
      /\ g[i] = e
      /\ \A k \in 1 .. Len(w) : g[i + k] = w[k]
  <2>1. b \in Seq(S) /\ Len(b) = 1 /\ b[1] = e
    OBVIOUS
  <2> HIDE DEF b
  <2>2. /\ a \o b \in Seq(S)
        /\ Len(a \o b) = i
        /\ \A k \in 1 .. i - 1 : (a \o b)[k] = queue[k]
        /\ (a \o b)[i] = e
    <3>1. /\ a \o b \in Seq(S)
          /\ Len(a \o b) = Len(a) + Len(b)
          /\ \A k \in 1 .. Len(a) + Len(b) :
                (a \o b)[k] = IF k <= Len(a) THEN a[k] ELSE b[k - Len(a)]
      BY <1>3, <2>1, ConcatProperties
    <3>2. i \in Int /\ 1 <= i /\ Len(a) + Len(b) = i /\ i - Len(a) = 1
      BY <1>1, <1>2, <1>3, <2>1
    <3>3. \A k \in 1 .. i - 1 : (a \o b)[k] = queue[k]
      BY <1>3, <3>1, <3>2
    <3>4. (a \o b)[i] = b[i - Len(a)]
      BY <1>3, <3>1, <3>2
    <3> QED
      BY <2>1, <3>1, <3>2, <3>3, <3>4
  <2>3. /\ g \in Seq(S)
        /\ Len(g) = i + Len(w)
        /\ \A k \in 1 .. i + Len(w) :
              g[k] = IF k <= i THEN (a \o b)[k] ELSE w[k - i]
    <3> DEFINE ab == a \o b
    <3>1. ab \in Seq(S) /\ Len(ab) = i
      BY <2>2
    <3> HIDE DEF ab
    <3>2. /\ ab \o w \in Seq(S)
          /\ Len(ab \o w) = Len(ab) + Len(w)
          /\ \A k \in 1 .. Len(ab) + Len(w) :
                (ab \o w)[k] = IF k <= Len(ab) THEN ab[k] ELSE w[k - Len(ab)]
      BY <1>5, <3>1, ConcatProperties
    <3> QED
      BY <3>1, <3>2 DEF ab
  <2> HIDE DEF g
  <2>4. \A k \in 1 .. i - 1 : g[k] = queue[k]
    <3>1. \A k \in 1 .. i - 1 : k \in 1 .. i + Len(w) /\ k <= i
      BY <1>1, <1>2, <1>5
    <3> QED
      BY <2>2, <2>3, <3>1
  <2>5. g[i] = e
    BY <1>1, <1>2, <1>5, <2>1, <2>2, <2>3
  <2>6. ASSUME NEW k \in 1 .. Len(w)
        PROVE  g[i + k] = w[k]
    <3>1. i + k \in 1 .. i + Len(w) /\ ~(i + k <= i) /\ (i + k) - i = k
      BY <1>1, <1>2, <1>5
    <3> QED
      BY <2>3, <3>1
  <2> QED
    BY <2>3, <2>4, <2>5, <2>6
<1> HIDE DEF g
<1>8. ASSUME NEW k \in 1 .. Len(w)
      PROVE  /\ w[k] = queue[i + f[k] - 1]
             /\ i + f[k] - 1 \in i .. n
             /\ f[k] \in Nat
  <2>1. f[k] \in 1 .. n - i + 1
    BY <1>4, <1>6
  <2>2. w[k] = queue[i + f[k] - 1]
    BY <1>4, <1>6, <2>1
  <2>3. i + f[k] - 1 \in i .. n
    BY <1>1, <1>2, <2>1
  <2> QED
    BY <1>1, <1>2, <2>1, <2>2, <2>3
<1>9. \A j \in 1 .. i - 1 : queue[j].d < e.d
  BY <1>1, <1>2
<1>10. \A m \in i .. n : e.d <= queue[m].d
  <2> SUFFICES ASSUME NEW m \in i .. n
               PROVE  e.d <= queue[m].d
    OBVIOUS
  <2>1. m = i \/ (i < m /\ i \in DOMAIN queue /\ m \in DOMAIN queue)
    BY <1>1, <1>2
  <2>2. queue[i].d <= queue[m].d
    <3>1. CASE m = i
      BY <1>1, <1>2, <3>1
    <3>2. CASE m # i
      BY <2>1, <3>2 DEF Ordered
    <3> QED
      BY <3>1, <3>2
  <2>3. m \in 1 .. n
    BY <1>1, <1>2
  <2> QED
    BY <1>1, <1>2, <2>2, <2>3
<1>11. i .. n \subseteq 1 .. n
  BY <1>1, <1>2
<1>12. ASSUME NEW j \in 1 .. i + Len(w), NEW k \in 1 .. i + Len(w), j < k
       PROVE  g[j].d <= g[k].d /\ ~SameEntry(g[j], g[k])
  <2> USE <1>1, <1>2, <1>5, <1>12
  <2>1. CASE k <= i - 1
    <3>1. j \in 1 .. n /\ k \in 1 .. n /\ g[j] = queue[j] /\ g[k] = queue[k]
      BY <1>7, <2>1
    <3> QED
      BY <3>1 DEF Ordered
  <2>2. CASE k = i
    <3>1. j \in 1 .. i - 1 /\ g[j] = queue[j] /\ g[k] = e
      BY <1>7, <2>2
    <3> QED
      BY <1>9, <3>1 DEF SameEntry
  <2>3. CASE k > i
    <3> DEFINE k2 == k - i
    <3>1. k2 \in 1 .. Len(w) /\ k = i + k2
      BY <2>3
    <3>2. g[k] = w[k2]
      BY <1>7, <3>1
    <3>3. PICK m \in i .. n : w[k2] = queue[m] /\ m = i + f[k2] - 1 /\ f[k2] \in Nat
      BY <1>8, <3>1
    <3>4. e.d <= g[k].d
      BY <1>10, <3>2, <3>3
    <3>5. CASE j <= i - 1
      <4>1. j \in 1 .. i - 1 /\ j \in 1 .. n /\ m \in 1 .. n
        BY <1>11, <3>5
      <4>2. g[j] = queue[j] /\ g[j].d < e.d /\ g[j].d \in Nat
        BY <1>7, <1>9, <4>1
      <4>3. g[k].d \in Nat
        BY <3>2, <3>3, <4>1
      <4>4. g[j].d < g[k].d
        BY <3>4, <4>2, <4>3
      <4>5. g[j].d # g[k].d
        BY <4>2, <4>3, <4>4
      <4>6. ~SameEntry(g[j], g[k])
        BY <4>5 DEF SameEntry
      <4> QED
        BY <4>2, <4>3, <4>4, <4>6
    <3>6. CASE j = i
      <4>1. g[j] = e /\ ~SameEntry(g[k], e)
        BY <1>6, <1>7, <3>1, <3>2, <3>6
      <4> QED
        BY <3>4, <4>1 DEF SameEntry, SameNode
    <3>7. CASE j > i
      <4> DEFINE j2 == j - i
      <4>1. j2 \in 1 .. Len(w) /\ j = i + j2 /\ j2 < k2
        BY <3>7
      <4>2. g[j] = w[j2] /\ f[j2] < f[k2]
        BY <1>6, <1>7, <3>1, <4>1
      <4> HIDE DEF j2, k2
      <4>3. PICK l \in i .. n : w[j2] = queue[l] /\ l = i + f[j2] - 1 /\ f[j2] \in Nat
        BY <1>8, <4>1
      <4>4. l \in 1 .. n /\ m \in 1 .. n
        BY <1>11
      <4>5. l < m
        <5>1. \A x, y \in Nat : x < y => i + x - 1 < i + y - 1
          BY <1>2
        <5> QED
          BY <3>3, <4>2, <4>3, <5>1
      <4>6. queue[l].d <= queue[m].d /\ ~SameEntry(queue[l], queue[m])
        BY <4>4, <4>5 DEF Ordered
      <4>7. g[j] = queue[l] /\ g[k] = queue[m]
        BY <3>2, <3>3, <4>2, <4>3
      <4> QED
        BY <4>6, <4>7
    <3> QED
      BY <3>5, <3>6, <3>7
  <2> QED
    BY <2>1, <2>2, <2>3
<1>13. Ordered(g)
  BY <1>7, <1>12, LenProperties DEF Ordered
<1>14. g[1].d <= e.d /\ g[1].d <= queue[1].d
  <2>1. CASE i = 1
    BY <1>1, <1>2, <1>7, <2>1
  <2>2. CASE i # 1
    <3>1. 1 \in 1 .. i - 1 /\ 1 \in 1 .. n
      BY <1>1, <1>2, <2>2
    <3>2. g[1] = queue[1] /\ queue[1].d < e.d
      BY <1>7, <1>9, <3>1
    <3> QED
      BY <1>1, <3>1, <3>2
  <2> QED
    BY <2>1, <2>2
<1>15. Len(g) \in 1 .. n + 1
  BY <1>1, <1>2, <1>5, <1>7
<1> QED
  BY <1>7, <1>13, <1>14, <1>15 DEF g, w, t, a, b, i, n

(***************************************************************************)
(* A suggestion taken: the queue keeps its order and its bound, is not     *)
(* empty, and starts with none that is farther than what it started with   *)
(* or than the suggestion, whichever entries it drops.                     *)
(***************************************************************************)
LEMMA SuggestionKeepsOrder ==
  ASSUME NEW S, \A x \in S : x.d \in Nat, NEW max \in Nat \ {0},
         NEW queue \in Seq(S), NEW e \in S,
         Ordered(queue), Len(queue) <= max
  PROVE  LET q == QueueSuggestion(queue, e, max)
         IN  /\ q \in Seq(S)
             /\ Len(q) \in 1 .. max
             /\ Ordered(q)
             /\ q[1].d <= e.d
             /\ queue # <<>> => q[1].d <= queue[1].d
<1> DEFINE i == InsertionPoint(queue, e)
           g == SubSeq(queue, 1, i - 1) \o <<e>>
                \o WithoutSame(SubSeq(queue, i, Len(queue)), e)
<1>1. e.d \in Nat /\ Len(queue) \in Nat
  OBVIOUS
<1>2. CASE queue = <<>>
  <2>1. QueueSuggestion(queue, e, max) = <<e>>
    BY <1>2 DEF QueueSuggestion
  <2>2. <<e>> \in Seq(S) /\ Len(<<e>>) = 1 /\ <<e>>[1] = e
    OBVIOUS
  <2>3. Ordered(<<e>>)
    BY DEF Ordered
  <2>4. Len(<<e>>) \in 1 .. max /\ e.d <= e.d
    BY <1>1, <2>2
  <2> QED
    BY <1>2, <2>1, <2>2, <2>3, <2>4
<1>3. CASE queue # <<>> /\ i = 0
  <2>1. QueueSuggestion(queue, e, max) = queue
    BY <1>1, <1>3 DEF QueueSuggestion
  <2>2. Len(queue) \in 1 .. max /\ 1 \in DOMAIN queue
    BY <1>1, <1>3, EmptySeq, LenProperties
  <2>3. queue[1] \in S
    BY <2>2, ElementOfSeq
  <2>4. ~(e.d <= queue[1].d)
    BY <1>3, <2>2, InsertionPointIs
  <2> QED
    BY <1>1, <2>1, <2>2, <2>3, <2>4
<1>4. CASE queue # <<>> /\ i # 0
  <2>1. /\ g \in Seq(S)
        /\ Len(g) \in 1 .. Len(queue) + 1
        /\ Ordered(g)
        /\ g[1].d <= e.d
        /\ g[1].d <= queue[1].d
    BY <1>4, InsertionKeepsOrder
  <2>2. QueueSuggestion(queue, e, max) = IF Len(g) > max THEN Front(g) ELSE g
    BY <1>4 DEF QueueSuggestion
  <2> HIDE DEF g, i
  <2>3. CASE Len(g) > max
    <3>1. Front(g) = SubSeq(g, 1, Len(g) - 1) /\ Len(g) - 1 \in 1 .. max
      BY <1>1, <2>1, <2>3 DEF Front
    <3>2. \A k \in 1 .. Len(g) - 1 : g[k] \in S
      BY <2>1, ElementOfSeq
    <3>3. /\ Front(g) \in Seq(S)
          /\ Len(Front(g)) = Len(g) - 1
          /\ \A k \in 1 .. Len(g) - 1 : Front(g)[k] = g[k]
      BY <2>1, <3>1, <3>2, SubSeqProperties
    <3>4. /\ DOMAIN Front(g) = 1 .. Len(g) - 1
          /\ 1 .. Len(g) - 1 \subseteq DOMAIN g
      BY <2>1, <3>3, LenProperties
    <3>5. Ordered(Front(g))
      <4> DEFINE h == Front(g)
      <4>1. \A j \in DOMAIN h : j \in DOMAIN g /\ h[j] = g[j]
        BY <3>3, <3>4
      <4> HIDE DEF h
      <4>2. Ordered(h)
        BY <2>1, <4>1 DEF Ordered
      <4> QED
        BY <4>2 DEF h
    <3>6. Front(g)[1] = g[1]
      BY <3>1, <3>3
    <3> QED
      BY <2>1, <2>2, <2>3, <3>1, <3>3, <3>5, <3>6
  <2>4. CASE ~(Len(g) > max)
    BY <1>1, <2>1, <2>2, <2>4
  <2> QED
    BY <2>3, <2>4
<1> QED
  BY <1>2, <1>3, <1>4

-----------------------------------------------------------------------------
(***************************************************************************)
(* Induction up to n over a set, for what the prover has no induction over *)
(* operators for.                                                          *)
(***************************************************************************)
LEMMA UpTo ==
  ASSUME NEW n \in Nat, NEW T, 0 \in T,
         \A k \in 0 .. n : k < n /\ k \in T => k + 1 \in T
  PROVE  \A k \in 0 .. n : k \in T
<1> DEFINE Bad == { k \in 0 .. n : k \notin T }
<1> SUFFICES ASSUME Bad # {}
             PROVE  FALSE
  OBVIOUS
<1>1. Bad \in SUBSET Nat
  OBVIOUS
<1>2. PICK m \in Bad : \A k \in Bad : m <= k
  <2> HIDE DEF Bad
  <2> QED
    BY <1>1, LeastNat
<1>3. m \in 0 .. n /\ m # 0
  BY <1>2
<1>4. m - 1 \in 0 .. n /\ m - 1 < n /\ ~(m <= m - 1)
  BY <1>3
<1>5. m - 1 \notin Bad
  BY <1>2, <1>4
<1>6. (m - 1) + 1 \in T
  BY <1>4, <1>5
<1> QED
  BY <1>2, <1>3, <1>6

\* What n steps from base pass through.
Stepping(S, n, base, step) == n \in Nat /\ base \in S /\ step \in [S \X (1 .. n) -> S]

IsRun(S, n, base, step, f) ==
    /\ f \in [0 .. n -> S]
    /\ f[0] = base
    /\ \A j \in 1 .. n : f[j] = step[<<f[j - 1], j>>]

\* A step can be taken n times, which is what a recursive function rests on.
LEMMA StepsExist ==
  ASSUME NEW S, NEW n, NEW base, NEW step, Stepping(S, n, base, step)
  PROVE  \E f : IsRun(S, n, base, step, f)
<1> USE DEF Stepping
<1> DEFINE Runs(k) == { f \in [0 .. k -> S] :
                          /\ f[0] = base
                          /\ \A j \in 1 .. k : f[j] = step[<<f[j - 1], j>>] }
           T == { k \in 0 .. n : Runs(k) # {} }
<1>1. 0 \in T
  <2>1. [j \in 0 .. 0 |-> base] \in Runs(0)
    OBVIOUS
  <2> QED
    BY <2>1
<1>2. ASSUME NEW k \in 0 .. n, k < n, k \in T
      PROVE  k + 1 \in T
  <2>1. PICK f \in Runs(k) : TRUE
    BY <1>2
  <2>2. /\ f \in [0 .. k -> S]
        /\ f[0] = base
        /\ \A j \in 1 .. k : f[j] = step[<<f[j - 1], j>>]
    BY <2>1
  <2> DEFINE x == step[<<f[k], k + 1>>]
             g == [j \in 0 .. k + 1 |-> IF j = k + 1 THEN x ELSE f[j]]
  <2>3. k \in 0 .. k /\ k + 1 \in 1 .. n /\ k + 1 \in 0 .. n
    BY <1>2
  <2>4. x \in S
    BY <2>2, <2>3
  <2> HIDE DEF x
  <2>5. g \in [0 .. k + 1 -> S]
    BY <2>2, <2>4
  <2>6. \A j \in 0 .. k : g[j] = f[j]
    BY <2>3
  <2>7. g[0] = base /\ g[k + 1] = x
    BY <2>2, <2>3, <2>6
  <2>8. ASSUME NEW j \in 1 .. k + 1
        PROVE  g[j] = step[<<g[j - 1], j>>]
    <3>1. CASE j = k + 1
      <4>1. j - 1 = k
        BY <2>3, <3>1
      <4> QED
        BY <2>3, <2>6, <2>7, <3>1, <4>1 DEF x
    <3>2. CASE j # k + 1
      <4>1. j \in 1 .. k /\ j \in 0 .. k /\ j - 1 \in 0 .. k
        BY <2>3, <3>2
      <4> QED
        BY <2>2, <2>6, <4>1
    <3> QED
      BY <3>1, <3>2
  <2> HIDE DEF g
  <2>9. g \in Runs(k + 1)
    BY <2>5, <2>7, <2>8
  <2> QED
    BY <2>3, <2>9
<1>3. \A k \in 0 .. n : k \in T
  <2> HIDE DEF T
  <2> QED
    BY <1>1, <1>2, UpTo
<1>4. Runs(n) # {}
  BY <1>3
<1> QED
  BY <1>4 DEF IsRun

-----------------------------------------------------------------------------
LEMMA FirstOf ==
  ASSUME NEW S, NEW list \in Seq(S), list # <<>>
  PROVE  1 \in DOMAIN list /\ list[1] \in S
BY EmptySeq, LenProperties, ElementOfSeq

LEMMA InsertAtProperties ==
  ASSUME NEW S, NEW list \in Seq(S), NEW e \in S, NEW i \in 1 .. Len(list)
  PROVE  LET g == InsertAt(list, i, e)
         IN  /\ g \in Seq(S)
             /\ Len(g) = Len(list) + 1
             /\ \A k \in 1 .. Len(list) + 1 :
                   g[k] = IF k < i THEN list[k] ELSE IF k = i THEN e ELSE list[k - 1]
<1> DEFINE n == Len(list)
           a == SubSeq(list, 1, i - 1)
           b == <<e>>
           c == SubSeq(list, i, n)
<1>1. n \in Nat /\ i \in 1 .. n
  BY LenProperties
<1>2. a \in Seq(S) /\ Len(a) = i - 1 /\ \A k \in 1 .. i - 1 : a[k] = list[k]
  BY SubSeqProperties, LenProperties, ElementOfSeq
<1>3. /\ c \in Seq(S)
      /\ Len(c) = n - i + 1
      /\ \A k \in 1 .. n - i + 1 : c[k] = list[i + k - 1]
  BY SubSeqProperties, LenProperties, ElementOfSeq
<1>4. b \in Seq(S) /\ Len(b) = 1 /\ b[1] = e
  OBVIOUS
<1>5. InsertAt(list, i, e) = a \o b \o c
  BY DEF InsertAt
<1> HIDE DEF a, b, c, n
<1>6. /\ a \o b \in Seq(S)
      /\ Len(a \o b) = i
      /\ \A k \in 1 .. i : (a \o b)[k] = IF k < i THEN list[k] ELSE e
  <2>1. /\ a \o b \in Seq(S)
        /\ Len(a \o b) = Len(a) + Len(b)
        /\ \A k \in 1 .. Len(a) + Len(b) :
              (a \o b)[k] = IF k <= Len(a) THEN a[k] ELSE b[k - Len(a)]
    BY <1>2, <1>4, ConcatProperties
  <2>2. Len(a) + Len(b) = i /\ i - Len(a) = 1
    BY <1>1, <1>2, <1>4
  <2>3. ASSUME NEW k \in 1 .. i
        PROVE  (a \o b)[k] = IF k < i THEN list[k] ELSE e
    <3>1. CASE k < i
      <4>1. k \in 1 .. i - 1 /\ k <= Len(a)
        BY <1>1, <1>2, <3>1
      <4> QED
        BY <1>2, <2>1, <2>2, <3>1, <4>1
    <3>2. CASE ~(k < i)
      <4>1. k = i /\ ~(k <= Len(a))
        BY <1>1, <1>2, <3>2
      <4> QED
        BY <1>4, <2>1, <2>2, <3>2, <4>1
    <3> QED
      BY <3>1, <3>2
  <2> QED
    BY <2>1, <2>2, <2>3
<1> DEFINE ab == a \o b
<1>7. ab \in Seq(S) /\ Len(ab) = i /\ \A k \in 1 .. i : ab[k] = IF k < i THEN list[k] ELSE e
  BY <1>6
<1> HIDE DEF ab
<1>8. /\ ab \o c \in Seq(S)
      /\ Len(ab \o c) = Len(ab) + Len(c)
      /\ \A k \in 1 .. Len(ab) + Len(c) :
            (ab \o c)[k] = IF k <= Len(ab) THEN ab[k] ELSE c[k - Len(ab)]
  BY <1>3, <1>7, ConcatProperties
<1>9. Len(ab) + Len(c) = n + 1
  BY <1>1, <1>3, <1>7
<1>10. ASSUME NEW k \in 1 .. n + 1
       PROVE  (ab \o c)[k] = IF k < i THEN list[k] ELSE IF k = i THEN e ELSE list[k - 1]
  <2>1. CASE k <= i
    <3>1. k \in 1 .. i
      BY <1>1, <2>1
    <3>2. (ab \o c)[k] = ab[k]
      BY <1>7, <1>8, <1>9, <2>1
    <3> QED
      BY <1>1, <1>7, <2>1, <3>1, <3>2
  <2>2. CASE ~(k <= i)
    <3>1. k - i \in 1 .. n - i + 1 /\ i + (k - i) - 1 = k - 1 /\ ~(k < i) /\ k # i
      BY <1>1, <2>2
    <3>2. (ab \o c)[k] = c[k - i]
      BY <1>7, <1>8, <1>9, <2>2
    <3> QED
      BY <1>3, <3>1, <3>2
  <2> QED
    BY <2>1, <2>2
<1> QED
  BY <1>5, <1>8, <1>9, <1>10 DEF ab, n

\* Dropping the last entry leaves the others.
LEMMA FrontProperties ==
  ASSUME NEW S, NEW list \in Seq(S), Len(list) # 0
  PROVE  /\ Front(list) \in Seq(S)
         /\ Len(Front(list)) = Len(list) - 1
         /\ \A k \in 1 .. Len(list) - 1 : Front(list)[k] = list[k]
<1>1. Len(list) \in Nat /\ Len(list) - 1 \in Nat
  BY LenProperties
<1>2. \A k \in 1 .. Len(list) - 1 : list[k] \in S
  BY <1>1, ElementOfSeq
<1> DEFINE m == Len(list) - 1
           f == SubSeq(list, 1, m)
<1>3. Front(list) = f
  BY DEF Front
<1>4. m \in Nat /\ \A k \in 1 .. m : list[k] \in S
  BY <1>1, <1>2
<1> HIDE DEF m
<1>5. f \in Seq(S) /\ Len(f) = m /\ \A k \in 1 .. m : f[k] = list[k]
  BY <1>4, SubSeqProperties
<1> HIDE DEF f
<1> QED
  BY <1>3, <1>5 DEF m

LEMMA OfferBetterType ==
  ASSUME NEW S, NEW pq \in Seq(S), NEW e \in S, NEW alpha
  PROVE  OfferBetter(pq, e, alpha) \in Seq(S)
<1> DEFINE i == InsertionPoint(pq, e)
           g == InsertAt(pq, i, e)
<1>1. CASE pq = <<>> \/ i = 0
  BY <1>1 DEF OfferBetter
<1>2. CASE pq # <<>> /\ i # 0
  <2>1. i \in 1 .. Len(pq)
    BY <1>2, InsertionPointIs, LenProperties
  <2>2. g \in Seq(S) /\ Len(g) = Len(pq) + 1
    BY <2>1, InsertAtProperties
  <2>3. OfferBetter(pq, e, alpha) = IF Len(g) >= alpha THEN Front(g) ELSE g
    BY <1>2 DEF OfferBetter
  <2> HIDE DEF g
  <2>4. Len(g) # 0
    BY <2>2, LenProperties
  <2> QED
    BY <2>2, <2>3, <2>4, FrontProperties
<1> QED
  BY <1>1, <1>2

\* Sorted by distance, and no record twice.
ByDistance(list) ==
    \A i, j \in DOMAIN list : i < j => /\ list[i].d <= list[j].d
                                      /\ list[i].node # list[j].node

\* What the first k entries of a list in order hold is in order.
LEMMA PrefixByDistance ==
  ASSUME NEW S, NEW list \in Seq(S), NEW pre \in Seq(S), ByDistance(list),
         Len(pre) <= Len(list), \A k \in 1 .. Len(pre) : pre[k] = list[k]
  PROVE  ByDistance(pre)
<1>1. DOMAIN pre = 1 .. Len(pre) /\ DOMAIN list = 1 .. Len(list)
  BY LenProperties
<1>2. \A k \in DOMAIN pre : k \in DOMAIN list /\ pre[k] = list[k]
  BY <1>1, LenProperties
<1> QED
  BY <1>2 DEF ByDistance

\* A list in order and within its bound, and what it gains by an offer of e.
InOrder(S, alpha, pq) ==
    pq \in Seq(S) /\ ByDistance(pq) /\ (Len(pq) < alpha \/ Len(pq) = 1)

IsNew(pq, e) == \A i \in DOMAIN pq : pq[i].node # e.node

Gains(pq, e, q) ==
    /\ q # <<>>
    /\ q[1].d <= e.d
    /\ pq # <<>> => q[1].d <= pq[1].d
    /\ \A i \in DOMAIN q : q[i] = e \/ \E j \in DOMAIN pq : q[i] = pq[j]

(***************************************************************************)
(* One node offered to a list in order: the list stays in order and within *)
(* its bound, its first entry gets no farther, and is no farther than the  *)
(* node, and nothing else comes in.                                        *)
(***************************************************************************)
LEMMA OfferKeepsOrder ==
  ASSUME NEW S, \A x \in S : x.d \in Nat, NEW alpha \in Nat \ {0},
         NEW pq, InOrder(S, alpha, pq), NEW e \in S, IsNew(pq, e)
  PROVE  LET q == OfferBetter(pq, e, alpha)
         IN  InOrder(S, alpha, q) /\ Gains(pq, e, q)
<1> USE DEF InOrder, IsNew, Gains
<1> DEFINE n == Len(pq)
           i == InsertionPoint(pq, e)
           g == InsertAt(pq, i, e)
           q == OfferBetter(pq, e, alpha)
<1>1. /\ n \in Nat
      /\ DOMAIN pq = 1 .. n
      /\ \A j \in 1 .. n : pq[j] \in S /\ pq[j].d \in Nat
      /\ e.d \in Nat
  BY LenProperties, ElementOfSeq
<1>2. CASE pq = <<>>
  <2>1. q = <<e>>
    BY <1>2 DEF OfferBetter
  <2>2. /\ <<e>> \in Seq(S) /\ <<e>> # <<>> /\ Len(<<e>>) = 1 /\ <<e>>[1] = e
        /\ \A j \in DOMAIN <<e>> : <<e>>[j] = e
    OBVIOUS
  <2>3. ByDistance(<<e>>)
    BY DEF ByDistance
  <2>4. <<e>>[1].d <= e.d
    BY <1>1, <2>2
  <2> QED
    BY <1>2, <2>1, <2>2, <2>3, <2>4
<1>3. CASE pq # <<>> /\ i = 0
  <2>1. q = pq
    BY <1>3 DEF OfferBetter
  <2>2. 1 \in 1 .. n
    BY <1>1, <1>3, EmptySeq
  <2>3. ~(e.d <= pq[1].d)
    BY <1>1, <1>3, <2>2, InsertionPointIs
  <2> QED
    BY <1>1, <1>3, <2>1, <2>2, <2>3
<1>4. CASE pq # <<>> /\ i # 0
  <2>1. /\ i \in 1 .. n
        /\ e.d <= pq[i].d
        /\ \A j \in 1 .. n : j < i => ~(e.d <= pq[j].d)
    BY <1>1, <1>4, InsertionPointIs
  <2> HIDE DEF i
  <2>2. /\ g \in Seq(S)
        /\ Len(g) = n + 1
        /\ \A k \in 1 .. n + 1 :
              g[k] = IF k < i THEN pq[k] ELSE IF k = i THEN e ELSE pq[k - 1]
    BY <2>1, InsertAtProperties
  <2>3. q = IF Len(g) >= alpha THEN Front(g) ELSE g
    BY <1>4 DEF OfferBetter, i
  <2> HIDE DEF g, q, n
  <2>4. DOMAIN g = 1 .. n + 1
    BY <2>2, LenProperties
  <2>5. \A k \in 1 .. n + 1 : g[k] = e \/ \E j \in 1 .. n : g[k] = pq[j]
    <3> SUFFICES ASSUME NEW k \in 1 .. n + 1
                 PROVE  g[k] = e \/ \E j \in 1 .. n : g[k] = pq[j]
      OBVIOUS
    <3>1. k < i => k \in 1 .. n
      BY <1>1, <2>1
    <3>2. k > i => k - 1 \in 1 .. n
      BY <1>1, <2>1
    <3> QED
      BY <1>1, <2>1, <2>2, <3>1, <3>2
  <2>6. ASSUME NEW j \in 1 .. n + 1, NEW k \in 1 .. n + 1, j < k
        PROVE  g[j].d <= g[k].d /\ g[j].node # g[k].node
    <3>1. CASE k < i
      <4>1. j \in 1 .. n /\ k \in 1 .. n /\ g[j] = pq[j] /\ g[k] = pq[k]
        BY <1>1, <2>1, <2>2, <2>6, <3>1
      <4> QED
        BY <1>1, <2>6, <4>1 DEF ByDistance
    <3>2. CASE k = i
      <4>0. j < i /\ j \in 1 .. n /\ ~(k < i)
        BY <1>1, <2>1, <2>6, <3>2
      <4>1. j \in 1 .. n /\ j < i /\ g[j] = pq[j] /\ g[k] = e
        BY <2>2, <2>6, <3>2, <4>0
      <4>2. pq[j].d <= e.d
        BY <1>1, <2>1, <4>1
      <4> QED
        BY <1>1, <4>1, <4>2
    <3>3. CASE k > i /\ j = i
      <4>1. k - 1 \in 1 .. n /\ (i = k - 1 \/ i < k - 1) /\ g[j] = e /\ g[k] = pq[k - 1]
        BY <1>1, <2>1, <2>2, <3>3
      <4>2. pq[i].d <= pq[k - 1].d
        <5>1. CASE i = k - 1
          BY <1>1, <2>1, <5>1
        <5>2. CASE i < k - 1
          BY <1>1, <2>1, <4>1, <5>2 DEF ByDistance
        <5> QED
          BY <4>1, <5>1, <5>2
      <4>3. e.d <= pq[k - 1].d
        BY <1>1, <2>1, <4>1, <4>2
      <4> QED
        BY <1>1, <4>1, <4>3
    <3>4. CASE k > i /\ j < i
      <4>1. j \in 1 .. n /\ k - 1 \in 1 .. n /\ j < k - 1 /\ g[j] = pq[j] /\ g[k] = pq[k - 1]
        BY <1>1, <2>1, <2>2, <2>6, <3>4
      <4> QED
        BY <1>1, <4>1 DEF ByDistance
    <3>5. CASE k > i /\ j > i
      <4>1. /\ j - 1 \in 1 .. n /\ k - 1 \in 1 .. n /\ j - 1 < k - 1
            /\ g[j] = pq[j - 1] /\ g[k] = pq[k - 1]
        BY <1>1, <2>1, <2>2, <2>6, <3>5
      <4> QED
        BY <1>1, <4>1 DEF ByDistance
    <3> QED
      BY <1>1, <2>1, <3>1, <3>2, <3>3, <3>4, <3>5
  <2>7. ByDistance(g)
    BY <2>4, <2>6 DEF ByDistance
  <2>8. g[1].d <= e.d /\ g[1].d <= pq[1].d
    <3>0. 1 \in 1 .. n /\ 1 \in 1 .. n + 1
      BY <1>1, <2>1
    <3>1. CASE i = 1
      BY <1>1, <2>1, <2>2, <3>0, <3>1
    <3>2. CASE i # 1
      <4>1. 1 < i
        BY <1>1, <2>1, <3>2
      <4>2. g[1] = pq[1] /\ ~(e.d <= pq[1].d)
        BY <2>1, <2>2, <3>0, <4>1
      <4> QED
        BY <1>1, <3>0, <4>2
    <3> QED
      BY <3>1, <3>2
  <2>9. CASE Len(g) >= alpha
    <3>1. /\ q \in Seq(S)
          /\ Len(q) = n
          /\ \A k \in 1 .. n : q[k] = g[k]
      <4>1. Len(g) # 0 /\ Len(g) - 1 = n
        BY <1>1, <2>2
      <4> QED
        BY <2>2, <2>3, <2>9, <4>1, FrontProperties
    <3>2. ByDistance(q)
      <4>1. Len(q) <= Len(g) /\ \A k \in 1 .. Len(q) : q[k] = g[k]
        BY <1>1, <2>2, <3>1
      <4> QED
        BY <2>2, <2>7, <3>1, <4>1, PrefixByDistance
    <3>3. 1 \in 1 .. n /\ q[1] = g[1] /\ q # <<>>
      BY <1>1, <2>1, <3>1, EmptySeq
    <3>4. DOMAIN q = 1 .. n /\ \A k \in 1 .. n : k \in 1 .. n + 1
      BY <1>1, <3>1, LenProperties
    <3>5. Len(q) < alpha \/ Len(q) = 1
      BY <3>1 DEF n
    <3>6. q[1].d <= e.d /\ q[1].d <= pq[1].d
      BY <2>8, <3>3
    <3>7. \A k \in DOMAIN q : q[k] = e \/ \E j \in DOMAIN pq : q[k] = pq[j]
      <4> SUFFICES ASSUME NEW k \in 1 .. n
                   PROVE  q[k] = e \/ \E j \in 1 .. n : q[k] = pq[j]
        BY <1>1, <3>4
      <4>1. k \in 1 .. n + 1 /\ q[k] = g[k]
        BY <3>1, <3>4
      <4> QED
        BY <2>5, <4>1
    <3> QED
      BY <3>1, <3>2, <3>3, <3>5, <3>6, <3>7 DEF q
  <2>10. CASE ~(Len(g) >= alpha)
    <3>1. q = g
      BY <2>3, <2>10
    <3>2. Len(g) < alpha /\ g # <<>>
      BY <1>1, <2>2, <2>10, EmptySeq
    <3> QED
      BY <1>1, <2>2, <2>4, <2>5, <2>7, <2>8, <3>1, <3>2 DEF q
  <2> QED
    BY <2>9, <2>10
<1> QED
  BY <1>2, <1>3, <1>4

\* pq is in order and within its bound, and none of the nodes is in it or repeated.
Offerable(N, key, alpha, pq, nodes) ==
    /\ \A n \in N : bit_distance(key, n.nodeId) \in Nat
    /\ InOrder([d : Nat, node : N], alpha, pq)
    /\ nodes \in Seq(N)
    /\ \A i, j \in DOMAIN nodes : nodes[i] = nodes[j] => i = j
    /\ \A i \in DOMAIN pq, j \in DOMAIN nodes : pq[i].node # nodes[j]

(***************************************************************************)
(* The nodes of a list offered in turn to pq, none of which it has yet:    *)
(* pq stays in order and within its bound, has only nodes it had and       *)
(* allowed ones of the list, and starts with the nearest of them all.      *)
(***************************************************************************)
LEMMA OfferAllFindsNearest ==
  ASSUME NEW N, NEW key, NEW limit, NEW allow, NEW alpha \in Nat \ {0},
         NEW pq, NEW nodes, Offerable(N, key, alpha, pq, nodes)
  PROVE  LET q == OfferAll(pq, nodes, key, limit, allow, alpha)
             offers(n) == allow \/ bit_distance(n.nodeId, key) < limit
         IN  /\ InOrder([d : Nat, node : N], alpha, q)
             /\ \A i \in DOMAIN q :
                   \/ \E j \in DOMAIN pq : q[i] = pq[j]
                   \/ \E j \in DOMAIN nodes : /\ offers(nodes[j])
                                             /\ q[i] = Entry(key, nodes[j])
             /\ pq # <<>> => q # <<>> /\ q[1].d <= pq[1].d
             /\ \A j \in DOMAIN nodes : offers(nodes[j]) =>
                   q # <<>> /\ q[1].d <= bit_distance(key, nodes[j].nodeId)
<1> DEFINE S == [d : Nat, node : N]
           n == Len(nodes)
           offers(m) == allow \/ bit_distance(m.nodeId, key) < limit
           next(q, m) == Offer(q, m, key, limit, allow, alpha)
           step == [x \in Seq(S) \X (1 .. n) |-> next(x[1], nodes[x[2]])]
           offered == CHOOSE f : f = [j \in 0 .. n |-> IF j = 0 THEN pq
                                                      ELSE next(f[j - 1], nodes[j])]
<1>1. /\ n \in Nat
      /\ DOMAIN nodes = 1 .. n
      /\ \A j \in 1 .. n : nodes[j] \in N /\ Entry(key, nodes[j]) \in S
  <2>1. nodes \in Seq(N) /\ \A j \in 1 .. n : nodes[j] \in N
    BY ElementOfSeq DEF Offerable
  <2> QED
    BY <2>1, LenProperties DEF Entry, Offerable
<1>2. ASSUME NEW q \in Seq(S), NEW j \in 1 .. n
      PROVE  next(q, nodes[j]) \in Seq(S)
  BY <1>1, OfferBetterType DEF Offer
<1> HIDE DEF S, next
<1>3. step \in [Seq(S) \X (1 .. n) -> Seq(S)]
  BY <1>2
<1>4. \E f : IsRun(Seq(S), n, pq, step, f)
  <2>1. pq \in Seq(S)
    BY DEF S, Offerable, InOrder
  <2>2. Stepping(Seq(S), n, pq, step)
    BY <1>1, <1>3, <2>1 DEF Stepping
  <2> HIDE DEF step, n
  <2> QED
    BY <2>2, StepsExist
<1>5. \E f : f = [j \in 0 .. n |-> IF j = 0 THEN pq ELSE next(f[j - 1], nodes[j])]
  <2>1. PICK f \in [0 .. n -> Seq(S)] : /\ f[0] = pq
                                       /\ \A j \in 1 .. n : f[j] = step[<<f[j - 1], j>>]
    BY <1>4 DEF IsRun
  <2>2. ASSUME NEW j \in 0 .. n
        PROVE  f[j] = IF j = 0 THEN pq ELSE next(f[j - 1], nodes[j])
    <3>1. CASE j = 0
      BY <2>1, <3>1
    <3>2. CASE j # 0
      <4>1. j \in 1 .. n /\ j - 1 \in 0 .. n
        BY <1>1, <3>2
      <4>2. <<f[j - 1], j>> \in Seq(S) \X (1 .. n)
        BY <2>1, <4>1
      <4> QED
        BY <2>1, <3>2, <4>1, <4>2
    <3> QED
      BY <3>1, <3>2
  <2>3. f = [j \in 0 .. n |-> IF j = 0 THEN pq ELSE next(f[j - 1], nodes[j])]
    BY <2>1, <2>2
  <2> QED
    BY <2>3
<1>6. /\ offered = [j \in 0 .. n |-> IF j = 0 THEN pq ELSE next(offered[j - 1], nodes[j])]
      /\ OfferAll(pq, nodes, key, limit, allow, alpha) = offered[n]
  <2>1. offered = [j \in 0 .. n |-> IF j = 0 THEN pq ELSE next(offered[j - 1], nodes[j])]
    BY <1>5
  <2>2. OfferAll(pq, nodes, key, limit, allow, alpha) = offered[n]
    BY DEF OfferAll, next
  <2> QED
    BY <2>1, <2>2
<1> HIDE DEF offered
<1>7. /\ offered[0] = pq
      /\ \A j \in 1 .. n : offered[j] = next(offered[j - 1], nodes[j])
  <2>1. \A j \in 0 .. n :
           offered[j] = IF j = 0 THEN pq ELSE next(offered[j - 1], nodes[j])
    BY <1>6
  <2> QED
    BY <1>1, <2>1
<1> DEFINE Comes(q, k) ==
              \A i \in DOMAIN q :
                 \/ \E j \in DOMAIN pq : q[i] = pq[j]
                 \/ \E j \in 1 .. k : offers(nodes[j]) /\ q[i] = Entry(key, nodes[j])
           Nearest(q, k) ==
              /\ pq # <<>> => q # <<>> /\ q[1].d <= pq[1].d
              /\ \A j \in 1 .. k : offers(nodes[j]) =>
                    q # <<>> /\ q[1].d <= bit_distance(key, nodes[j].nodeId)
           Good(q, k) == /\ InOrder(S, alpha, q)
                         /\ Comes(q, k)
                         /\ Nearest(q, k)
           T == { k \in 0 .. n : Good(offered[k], k) }
<1>8. 0 \in T
  <2>1. pq # <<>> => pq[1].d <= pq[1].d
    <3> SUFFICES ASSUME pq # <<>>
                 PROVE  pq[1].d <= pq[1].d
      OBVIOUS
    <3>1. pq[1] \in [d : Nat, node : N]
      BY FirstOf DEF Offerable, InOrder
    <3> QED
      BY <3>1
  <2>2. Good(pq, 0)
    BY <2>1 DEF S, Offerable
  <2> HIDE DEF Good
  <2> QED
    BY <1>1, <1>7, <2>2
<1>9. ASSUME NEW k \in 0 .. n, k < n, k \in T
      PROVE  k + 1 \in T
  <2> DEFINE q == offered[k]
             m == nodes[k + 1]
             e == Entry(key, m)
             r == offered[k + 1]
  <2>1. k + 1 \in 1 .. n /\ k + 1 \in 0 .. n /\ (k + 1) - 1 = k
    BY <1>1, <1>9
  <2>2. r = next(q, m)
    BY <1>7, <2>1
  <2>3. Good(q, k)
    BY <1>9
  <2>4. m \in N /\ e \in S /\ e.d = bit_distance(key, m.nodeId) /\ e.node = m
    BY <1>1, <2>1 DEF Entry
  <2>5. \A j \in 1 .. k + 1 : j = k + 1 \/ j \in 1 .. k
    BY <2>1
  <2> HIDE DEF q, r, m, e
  <2>6. CASE ~offers(m)
    <3>1. r = q
      BY <2>2, <2>6 DEF next, Offer
    <3>2. Comes(r, k + 1)
      <4>1. 1 .. k \subseteq 1 .. k + 1
        BY <2>1
      <4> QED
        BY <2>3, <3>1, <4>1
    <3>3. Nearest(r, k + 1)
      BY <2>3, <2>5, <2>6, <3>1 DEF m
    <3>4. Good(r, k + 1)
      BY <2>3, <3>1, <3>2, <3>3
    <3> HIDE DEF Good
    <3> QED
      BY <2>1, <3>4 DEF r
  <2>7. CASE offers(m)
    <3>1. r = OfferBetter(q, e, alpha)
      BY <2>2, <2>7 DEF next, Offer, e
    <3>2. IsNew(q, e)
      <4> SUFFICES ASSUME NEW i \in DOMAIN q
                   PROVE  q[i].node # m
        BY <2>4 DEF IsNew
      <4>1. CASE \E j \in DOMAIN pq : q[i] = pq[j]
        BY <1>1, <2>1, <4>1 DEF m, Offerable
      <4>2. CASE \E j \in 1 .. k : q[i] = Entry(key, nodes[j])
        <5>1. PICK j \in 1 .. k : q[i] = Entry(key, nodes[j])
          BY <4>2
        <5>2. j \in 1 .. n /\ j # k + 1 /\ q[i].node = nodes[j]
          BY <1>1, <2>1, <5>1 DEF Entry
        <5> QED
          BY <1>1, <2>1, <5>2 DEF m, Offerable
      <4> QED
        BY <2>3, <4>1, <4>2
    <3>3. \A x \in S : x.d \in Nat
      BY DEF S
    <3>4. InOrder(S, alpha, q)
      BY <2>3
    <3>5. InOrder(S, alpha, r) /\ Gains(q, e, r)
      BY <2>4, <3>1, <3>2, <3>3, <3>4, OfferKeepsOrder
    <3>6. Comes(r, k + 1)
      <4> SUFFICES ASSUME NEW i \in DOMAIN r
                   PROVE  \/ \E j \in DOMAIN pq : r[i] = pq[j]
                          \/ \E j \in 1 .. k + 1 : /\ offers(nodes[j])
                                                   /\ r[i] = Entry(key, nodes[j])
        OBVIOUS
      <4>1. CASE r[i] = e
        <5>1. k + 1 \in 1 .. k + 1
          BY <2>1
        <5> QED
          BY <2>7, <4>1, <5>1 DEF e, m
      <4>2. CASE \E j \in DOMAIN q : r[i] = q[j]
        <5>1. 1 .. k \subseteq 1 .. k + 1
          BY <2>1
        <5> QED
          BY <2>3, <4>2, <5>1
      <4> QED
        BY <3>5, <4>1, <4>2 DEF Gains
    <3>7. Nearest(r, k + 1)
      <4>1. r[1].d \in Nat
        BY <3>3, <3>5, FirstOf DEF InOrder, Gains
      <4>2. q # <<>> => q[1].d \in Nat
        BY <3>3, <3>4, FirstOf DEF InOrder
      <4>3. pq # <<>> => r[1].d <= pq[1].d
        <5> SUFFICES ASSUME pq # <<>>
                     PROVE  r[1].d <= pq[1].d
          OBVIOUS
        <5>1. pq[1] \in [d : Nat, node : N]
          BY FirstOf DEF Offerable, InOrder
        <5>2. q # <<>> /\ q[1].d <= pq[1].d
          BY <2>3
        <5> QED
          BY <3>5, <4>1, <4>2, <5>1, <5>2 DEF Gains
      <4>4. ASSUME NEW j \in 1 .. k + 1, offers(nodes[j])
            PROVE  r[1].d <= bit_distance(key, nodes[j].nodeId)
        <5>1. CASE j = k + 1
          BY <2>4, <3>5, <5>1 DEF m, Gains
        <5>2. CASE j # k + 1
          <6>1. j \in 1 .. k /\ j \in 1 .. n
            BY <2>1, <2>5, <5>2
          <6>2. q # <<>> /\ q[1].d <= bit_distance(key, nodes[j].nodeId)
            BY <2>3, <4>4, <6>1
          <6>3. bit_distance(key, nodes[j].nodeId) \in Nat
            BY <1>1, <6>1 DEF Offerable
          <6> QED
            BY <3>5, <4>1, <4>2, <6>2, <6>3 DEF Gains
        <5> QED
          BY <5>1, <5>2
      <4> HIDE DEF offers
      <4> QED
        BY <3>5, <4>3, <4>4 DEF Gains
    <3>8. Good(r, k + 1)
      BY <3>5, <3>6, <3>7
    <3> HIDE DEF Good
    <3> QED
      BY <2>1, <3>8 DEF r
  <2> QED
    BY <2>6, <2>7
<1>10. \A k \in 0 .. n : k \in T
  <2> HIDE DEF T
  <2> QED
    BY <1>1, <1>8, <1>9, UpTo
<1>11. Good(offered[n], n)
  <2>1. n \in 0 .. n
    BY <1>1
  <2> HIDE DEF Good, n
  <2> QED
    BY <1>10, <2>1
<1> HIDE DEF offers
<1> QED
  BY <1>1, <1>6, <1>11 DEF S, offers

-----------------------------------------------------------------------------
\* No two elements of a list are the same.
NoneTwice(list) == \A i, j \in DOMAIN list : list[i] = list[j] => i = j

\* Appending one more element.
LEMMA AppendIs ==
  ASSUME NEW S, NEW list \in Seq(S), NEW e \in S
  PROVE  LET g == Append(list, e)
         IN  /\ g \in Seq(S) /\ g # <<>> /\ Len(g) = Len(list) + 1 /\ Len(list) \in Nat
             /\ \A i \in 1 .. Len(list) : g[i] = list[i]
             /\ g[Len(list) + 1] = e
             /\ DOMAIN g = 1 .. Len(list) + 1 /\ DOMAIN list = 1 .. Len(list)
<1>1. Len(list) \in Nat /\ DOMAIN list = 1 .. Len(list)
  BY LenProperties
<1>2. /\ Append(list, e) \in Seq(S) /\ Len(Append(list, e)) = Len(list) + 1
      /\ \A i \in 1 .. Len(list) : Append(list, e)[i] = list[i]
      /\ Append(list, e)[Len(list) + 1] = e
  BY <1>1, AppendProperties
<1>3. DOMAIN Append(list, e) = 1 .. Len(list) + 1
  BY <1>2, LenProperties
<1>4. Append(list, e) # <<>>
  BY <1>1, <1>2, EmptySeq
<1> QED
  BY <1>1, <1>2, <1>3, <1>4

(***************************************************************************)
(* What std::list::unique leaves of any list: elements of it, none of them *)
(* more often than before, at least one, and all of them if no two were of *)
(* the same address.                                                       *)
(***************************************************************************)
LEMMA UniqueSelects ==
  ASSUME NEW N, NEW nodes \in Seq(N)
  PROVE  LET u == Unique(nodes)
         IN  /\ u \in Seq(N) /\ Len(u) <= Len(nodes)
             /\ \A i \in DOMAIN u : \E j \in DOMAIN nodes : u[i] = nodes[j]
             /\ nodes # <<>> => u # <<>>
             /\ NoneTwice(nodes) => NoneTwice(u)
             /\ (\A i, j \in DOMAIN nodes : SameNode(nodes[i], nodes[j]) => i = j)
                   => Len(u) = Len(nodes)
<1> DEFINE n == Len(nodes)
           step == [x \in Seq(N) \X (1 .. n) |-> Keep(x[1], nodes[x[2]])]
           kept == CHOOSE f : f = [j \in 0 .. n |-> IF j = 0 THEN <<>>
                                                   ELSE Keep(f[j - 1], nodes[j])]
           apart == \A i, j \in DOMAIN nodes : SameNode(nodes[i], nodes[j]) => i = j
<1>1. n \in Nat /\ DOMAIN nodes = 1 .. n /\ \A j \in 1 .. n : nodes[j] \in N
  BY LenProperties, ElementOfSeq
<1>2. ASSUME NEW u \in Seq(N), NEW j \in 1 .. n
      PROVE  Keep(u, nodes[j]) \in Seq(N)
  BY <1>1, AppendIs DEF Keep
<1>3. step \in [Seq(N) \X (1 .. n) -> Seq(N)]
  BY <1>2
<1>4. \E f : IsRun(Seq(N), n, <<>>, step, f)
  <2>1. Stepping(Seq(N), n, <<>>, step)
    BY <1>1, <1>3, EmptySeq DEF Stepping
  <2> HIDE DEF step, n
  <2> QED
    BY <2>1, StepsExist
<1>5. \E f : f = [j \in 0 .. n |-> IF j = 0 THEN <<>> ELSE Keep(f[j - 1], nodes[j])]
  <2>1. PICK f \in [0 .. n -> Seq(N)] : /\ f[0] = <<>>
                                       /\ \A j \in 1 .. n : f[j] = step[<<f[j - 1], j>>]
    BY <1>4 DEF IsRun
  <2>2. ASSUME NEW j \in 0 .. n
        PROVE  f[j] = IF j = 0 THEN <<>> ELSE Keep(f[j - 1], nodes[j])
    <3>1. CASE j = 0
      BY <2>1, <3>1
    <3>2. CASE j # 0
      <4>1. j \in 1 .. n /\ j - 1 \in 0 .. n
        BY <1>1, <3>2
      <4>2. <<f[j - 1], j>> \in Seq(N) \X (1 .. n)
        BY <2>1, <4>1
      <4> QED
        BY <2>1, <3>2, <4>1, <4>2
    <3> QED
      BY <3>1, <3>2
  <2>3. f = [j \in 0 .. n |-> IF j = 0 THEN <<>> ELSE Keep(f[j - 1], nodes[j])]
    BY <2>1, <2>2
  <2> QED
    BY <2>3
<1>6. /\ kept = [j \in 0 .. n |-> IF j = 0 THEN <<>> ELSE Keep(kept[j - 1], nodes[j])]
      /\ Unique(nodes) = kept[n]
  <2>1. kept = [j \in 0 .. n |-> IF j = 0 THEN <<>> ELSE Keep(kept[j - 1], nodes[j])]
    BY <1>5
  <2>2. Unique(nodes) = kept[n]
    BY DEF Unique
  <2> QED
    BY <2>1, <2>2
<1> HIDE DEF kept
<1>7. kept[0] = <<>> /\ \A j \in 1 .. n : kept[j] = Keep(kept[j - 1], nodes[j])
  <2>1. \A j \in 0 .. n : kept[j] = IF j = 0 THEN <<>> ELSE Keep(kept[j - 1], nodes[j])
    BY <1>6
  <2> QED
    BY <1>1, <2>1
<1> DEFINE From(u, k) == \A i \in DOMAIN u : \E j \in 1 .. k : u[i] = nodes[j]
           Good(u, k) == /\ u \in Seq(N) /\ Len(u) <= k /\ From(u, k)
                         /\ k > 0 => u # <<>>
                         /\ NoneTwice(nodes) => NoneTwice(u)
                         /\ apart => Len(u) = k
           T == { k \in 0 .. n : Good(kept[k], k) }
<1>8. 0 \in T
  <2>1. Good(<<>>, 0)
    BY EmptySeq DEF NoneTwice
  <2> HIDE DEF Good
  <2> QED
    BY <1>1, <1>7, <2>1
<1>9. ASSUME NEW k \in 0 .. n, k < n, k \in T
      PROVE  k + 1 \in T
  <2> DEFINE u == kept[k]
             m == nodes[k + 1]
             v == kept[k + 1]
             l == Len(u)
  <2>1. k \in Nat /\ k + 1 \in 1 .. n /\ k + 1 \in 0 .. n /\ (k + 1) - 1 = k
        /\ 1 .. k \subseteq 1 .. k + 1 /\ k + 1 \in 1 .. k + 1
    BY <1>1, <1>9
  <2>2. v = Keep(u, m)
    BY <1>7, <2>1
  <2>3. Good(u, k)
    BY <1>9
  <2>4. m \in N
    BY <1>1, <2>1
  <2> HIDE DEF u, v, m
  <2>5. CASE u # <<>> /\ SameNode(Last(u), m)
    <3>1. v = u
      BY <2>2, <2>5 DEF Keep
    <3>2. From(u, k + 1)
      BY <2>1, <2>3
    <3>3. ~apart
      <4>1. l \in Nat /\ l # 0 /\ DOMAIN u = 1 .. l
        BY <2>3, <2>5, EmptySeq, LenProperties
      <4>2. l \in DOMAIN u
        BY <4>1
      <4> HIDE DEF l
      <4>3. PICK j \in 1 .. k : u[l] = nodes[j]
        BY <2>3, <4>2
      <4>4. j \in 1 .. n /\ j # k + 1
        BY <1>1, <2>1
      <4>5. SameNode(nodes[j], nodes[k + 1])
        BY <2>5, <4>3 DEF Last, l, m
      <4> QED
        BY <1>1, <2>1, <4>4, <4>5
    <3>4. Len(u) <= k + 1
      <4>1. Len(u) \in Nat
        BY <2>3, LenProperties
      <4> QED
        BY <2>1, <2>3, <4>1
    <3> HIDE DEF apart, From
    <3>5. Good(v, k + 1)
      BY <2>3, <2>5, <3>1, <3>2, <3>3, <3>4
    <3> HIDE DEF Good
    <3> QED
      BY <2>1, <3>5 DEF v
  <2>6. CASE ~(u # <<>> /\ SameNode(Last(u), m))
    <3>1. v = Append(u, m)
      BY <2>2, <2>6 DEF Keep
    <3>2. /\ v \in Seq(N) /\ v # <<>> /\ Len(v) = l + 1 /\ l \in Nat
          /\ \A i \in 1 .. l : v[i] = u[i]
          /\ v[l + 1] = m
          /\ DOMAIN v = 1 .. l + 1 /\ DOMAIN u = 1 .. l
      BY <2>3, <2>4, <3>1, AppendIs
    <3> HIDE DEF l
    <3>3. \A i \in 1 .. l + 1 : i \in 1 .. l \/ i = l + 1
      BY <3>2
    <3>4. From(v, k + 1)
      <4>1. \A i \in 1 .. l : \E j \in 1 .. k + 1 : v[i] = nodes[j]
        BY <2>1, <2>3, <3>2
      <4> QED
        BY <2>1, <3>2, <3>3, <4>1 DEF m
    <3>5. ASSUME NoneTwice(nodes)
          PROVE  NoneTwice(v)
      <4>1. ASSUME NEW i \in 1 .. l
            PROVE  v[i] # v[l + 1]
        <5>1. PICK j \in 1 .. k : u[i] = nodes[j]
          BY <2>3, <3>2
        <5>2. j \in 1 .. n /\ j # k + 1
          BY <1>1, <2>1
        <5> QED
          BY <1>1, <2>1, <3>2, <3>5, <5>1, <5>2 DEF NoneTwice, m
      <4>2. \A i, j \in 1 .. l : v[i] = v[j] => i = j
        BY <2>3, <3>2, <3>5 DEF NoneTwice
      <4> QED
        BY <3>2, <3>3, <4>1, <4>2 DEF NoneTwice
    <3>6. Len(v) <= k + 1 /\ (apart => Len(v) = k + 1)
      <4>1. l <= k /\ (apart => l = k)
        BY <2>3 DEF l
      <4> HIDE DEF apart
      <4> QED
        BY <2>1, <3>2, <4>1
    <3> HIDE DEF apart, From
    <3>7. Good(v, k + 1)
      BY <3>2, <3>4, <3>5, <3>6
    <3> HIDE DEF Good
    <3> QED
      BY <2>1, <3>7 DEF v
  <2> QED
    BY <2>5, <2>6
<1>10. \A k \in 0 .. n : k \in T
  <2> HIDE DEF T
  <2> QED
    BY <1>1, <1>8, <1>9, UpTo
<1>11. Good(kept[n], n)
  <2>1. n \in 0 .. n
    BY <1>1
  <2> HIDE DEF Good, n
  <2> QED
    BY <1>10, <2>1
<1>12. nodes # <<>> => n > 0
  BY <1>1, EmptySeq
<1> HIDE DEF apart
<1> QED
  BY <1>1, <1>6, <1>11, <1>12 DEF apart

\* What the advance and the erase leave: the first n % (Len + 1) elements.
LEMMA CutAfterIs ==
  ASSUME NEW S, NEW list \in Seq(S), NEW n \in Nat
  PROVE  LET c == CutAfter(list, n)
         IN  /\ c \in Seq(S) /\ Len(c) = n % (Len(list) + 1)
             /\ Len(c) <= n /\ Len(c) <= Len(list)
             /\ \A i \in 1 .. Len(c) : c[i] = list[i]
<1> DEFINE l == Len(list)
           m == n % (l + 1)
<1>1. l \in Nat /\ \A i \in 1 .. l : list[i] \in S
  BY LenProperties, ElementOfSeq
<1>2. m \in Nat /\ m <= l /\ m <= n
  <2>1. m \in 0 .. l
    BY <1>1
  <2>2. n < l + 1 => m = n
    BY <1>1
  <2> QED
    BY <1>1, <2>1, <2>2
<1> HIDE DEF m
<1>3. \A i \in 1 .. m : list[i] \in S
  BY <1>1, <1>2
<1> DEFINE c == SubSeq(list, 1, m)
<1>4. c \in Seq(S) /\ Len(c) = m /\ \A i \in 1 .. m : c[i] = list[i]
  BY <1>2, <1>3, SubSeqProperties
<1>5. CutAfter(list, n) = c
  BY DEF CutAfter, m
<1> HIDE DEF c, l
<1> QED
  BY <1>2, <1>4, <1>5 DEF m, l

=============================================================================
