-------------------------- MODULE NodeTableProofs ---------------------------
(***************************************************************************)
(* Theorems about the routing table, for every set of nodes and threads    *)
(* and every bucketSize.                                                   *)
(***************************************************************************)
EXTENDS NodeTable, NodeListProofs

\* The first entry of the list with n's address, where there is one.
LEMMA FirstOfSameNode ==
  ASSUME NEW S, NEW list \in Seq(S), NEW n
  PROVE  LET i == SelectInSeq(list, LAMBDA m : SameNode(m, n))
         IN  \/ /\ i = 0
                /\ \A j \in DOMAIN list : ~SameNode(list[j], n)
             \/ /\ i \in DOMAIN list
                /\ SameNode(list[i], n)
<1> DEFINE I == { j \in 1 .. Len(list) : SameNode(list[j], n) }
<1>1. I \subseteq Nat /\ DOMAIN list = 1 .. Len(list)
  BY LenProperties
<1>2. I # {} => Min(I) \in I
  <2> HIDE DEF I
  <2> QED
    BY <1>1, LeastNat
<1> QED
  BY <1>1, <1>2 DEF SelectInSeq

LEMMA RemoveAtProperties ==
  ASSUME NEW S, NEW list \in Seq(S), NEW i \in 1 .. Len(list)
  PROVE  /\ RemoveAt(list, i) \in Seq(S)
         /\ Len(RemoveAt(list, i)) = Len(list) - 1
         /\ \A j \in 1 .. Len(list) - 1 :
               RemoveAt(list, i)[j] = IF j < i THEN list[j] ELSE list[j + 1]
<1> DEFINE s == SubSeq(list, 1, i - 1)
           t == SubSeq(list, i + 1, Len(list))
<1>1. /\ s \in Seq(S)
      /\ Len(s) = i - 1
      /\ \A j \in 1 .. i - 1 : s[j] = list[j]
  BY SubSeqProperties, LenProperties, ElementOfSeq
<1>2. /\ t \in Seq(S)
      /\ Len(t) = Len(list) - i
      /\ \A j \in 1 .. Len(list) - i : t[j] = list[i + j]
  BY SubSeqProperties, LenProperties, ElementOfSeq
<1>3. /\ s \o t \in Seq(S)
      /\ Len(s \o t) = Len(s) + Len(t)
      /\ \A j \in 1 .. Len(s) + Len(t) :
            (s \o t)[j] = IF j <= Len(s) THEN s[j] ELSE t[j - Len(s)]
  BY <1>1, <1>2, ConcatProperties
<1>0. RemoveAt(list, i) = s \o t
  BY DEF RemoveAt
<1> HIDE DEF s, t
<1>4. \A j \in 1 .. Len(list) - 1 :
         (s \o t)[j] = IF j < i THEN list[j] ELSE list[j + 1]
  <2> SUFFICES ASSUME NEW j \in 1 .. Len(list) - 1
               PROVE  (s \o t)[j] = IF j < i THEN list[j] ELSE list[j + 1]
    OBVIOUS
  <2>1. Len(list) \in Nat /\ j \in 1 .. Len(s) + Len(t)
    BY <1>1, <1>2, LenProperties
  <2>2. CASE j < i
    BY <1>1, <1>3, <2>1, <2>2
  <2>3. CASE j >= i
    <3> DEFINE m == j - Len(s)
    <3>1. (s \o t)[j] = t[m]
      BY <1>1, <1>3, <2>1, <2>3
    <3>2. m \in 1 .. Len(list) - i /\ i + m = j + 1 /\ ~(j < i)
      BY <1>1, <2>1, <2>3
    <3> HIDE DEF m
    <3>3. t[m] = list[i + m]
      BY <1>2, <3>2
    <3> QED
      BY <3>1, <3>2, <3>3
  <2> QED
    BY <2>1, <2>2, <2>3
<1> QED
  BY <1>0, <1>1, <1>2, <1>3, <1>4, LenProperties

(***************************************************************************)
(* Moving an element to the front of a list: it comes from position p, the *)
(* elements before p move back by one place.  With p = Len(list) + 1 it is *)
(* new, and the list grows.                                                *)
(***************************************************************************)
MovedToFront(s, list, e, p) ==
    /\ p \in 1 .. Len(list) + 1
    /\ Len(s) = IF p <= Len(list) THEN Len(list) ELSE Len(list) + 1
    /\ \A k \in 1 .. Len(s) :
          s[k] = IF k = 1 THEN e ELSE IF k <= p THEN list[k - 1] ELSE list[k]

LEMMA ConsProperties ==
  ASSUME NEW S, NEW list \in Seq(S), NEW e \in S
  PROVE  /\ <<e>> \o list \in Seq(S)
         /\ Len(<<e>> \o list) = Len(list) + 1
         /\ (<<e>> \o list)[1] = e
         /\ \A k \in 2 .. Len(list) + 1 : (<<e>> \o list)[k] = list[k - 1]
<1>1. <<e>> \in Seq(S) /\ Len(<<e>>) = 1 /\ <<e>>[1] = e
  OBVIOUS
<1>2. /\ <<e>> \o list \in Seq(S)
      /\ Len(<<e>> \o list) = 1 + Len(list)
      /\ \A k \in 1 .. 1 + Len(list) :
            (<<e>> \o list)[k] = IF k <= 1 THEN <<e>>[k] ELSE list[k - 1]
  BY <1>1, ConcatProperties
<1> QED
  BY <1>1, <1>2, LenProperties

LEMMA RemoveAndCons ==
  ASSUME NEW S, NEW list \in Seq(S), NEW e \in S, NEW p \in 1 .. Len(list)
  PROVE  /\ <<e>> \o RemoveAt(list, p) \in Seq(S)
         /\ MovedToFront(<<e>> \o RemoveAt(list, p), list, e, p)
<1> DEFINE r == RemoveAt(list, p)
<1>1. /\ r \in Seq(S)
      /\ Len(r) = Len(list) - 1
      /\ \A j \in 1 .. Len(list) - 1 :
            r[j] = IF j < p THEN list[j] ELSE list[j + 1]
  BY RemoveAtProperties
<1>2. Len(list) \in Nat
  BY LenProperties
<1> HIDE DEF r
<1>3. /\ <<e>> \o r \in Seq(S)
      /\ Len(<<e>> \o r) = Len(r) + 1
      /\ (<<e>> \o r)[1] = e
      /\ \A k \in 2 .. Len(r) + 1 : (<<e>> \o r)[k] = r[k - 1]
  BY <1>1, ConsProperties
<1>4. \A k \in 2 .. Len(list) :
         (<<e>> \o r)[k] = IF k <= p THEN list[k - 1] ELSE list[k]
  <2> SUFFICES ASSUME NEW k \in 2 .. Len(list)
               PROVE  r[k - 1] = IF k <= p THEN list[k - 1] ELSE list[k]
    BY <1>1, <1>2, <1>3
  <2> QED
    BY <1>1, <1>2
<1>5. MovedToFront(<<e>> \o r, list, e, p)
  BY <1>1, <1>2, <1>3, <1>4 DEF MovedToFront
<1> QED
  BY <1>3, <1>5 DEF r

LEMMA ConsMoves ==
  ASSUME NEW S, NEW list \in Seq(S), NEW e \in S
  PROVE  MovedToFront(<<e>> \o list, list, e, Len(list) + 1)
  BY ConsProperties, LenProperties DEF MovedToFront

LEMMA SeenMoves ==
  ASSUME NEW list \in Seq(Nodes), NEW n \in Nodes
  PROVE  /\ Seen(list, n) \in Seq(Nodes)
         /\ \E p \in 1 .. Len(list) + 1 :
               /\ MovedToFront(Seen(list, n), list, n, p)
               /\ p \in DOMAIN list => SameNode(list[p], n)
               /\ p \notin DOMAIN list =>
                     \A j \in DOMAIN list : ~SameNode(list[j], n)
<1> DEFINE i == SelectInSeq(list, LAMBDA m : SameNode(m, n))
<1>1. \/ i = 0 /\ \A j \in DOMAIN list : ~SameNode(list[j], n)
      \/ i \in DOMAIN list /\ SameNode(list[i], n)
  BY FirstOfSameNode
<1>2. DOMAIN list = 1 .. Len(list) /\ Len(list) \in Nat
  BY LenProperties
<1>3. Seen(list, n) = <<n>> \o IF i = 0 THEN list ELSE RemoveAt(list, i)
  BY DEF Seen, Forget
<1> HIDE DEF i
<1>4. CASE i = 0
  BY <1>1, <1>2, <1>3, <1>4, ConsProperties, ConsMoves
<1>5. CASE i \in DOMAIN list
  BY <1>1, <1>2, <1>3, <1>5, RemoveAndCons
<1> QED
  BY <1>1, <1>4, <1>5

\* What moving the address a to the front of list does.
AddressMoves(list, a) ==
    \E p \in 1 .. Len(list) + 1 :
       /\ MovedToFront(<<a>> \o RemoveFirst(list, a), list, a, p)
       /\ p <= Len(list) => list[p] = a
       /\ p > Len(list) => \A j \in 1 .. Len(list) : list[j] # a

LEMMA RecencyMoves ==
  ASSUME NEW S, NEW list \in Seq(S), NEW a \in S
  PROVE  /\ <<a>> \o RemoveFirst(list, a) \in Seq(S)
         /\ AddressMoves(list, a)
<1> USE DEF AddressMoves
<1> DEFINE I == { j \in 1 .. Len(list) : list[j] = a }
<1>1. Len(list) \in Nat
  BY LenProperties
<1>2. CASE I = {}
  <2>1. RemoveFirst(list, a) = list
    BY <1>2 DEF RemoveFirst
  <2> QED
    BY <1>1, <1>2, <2>1, ConsProperties, ConsMoves
<1>3. CASE I # {}
  <2>1. Min(I) \in I
    <3>1. I \subseteq Nat
      BY <1>1
    <3> HIDE DEF I
    <3> QED
      BY <1>3, <3>1, LeastNat
  <2>2. RemoveFirst(list, a) = RemoveAt(list, Min(I))
    BY <1>3 DEF RemoveFirst, SelectInSeq
  <2> DEFINE m == Min(I)
  <2>3. m \in 1 .. Len(list) /\ list[m] = a
    BY <2>1
  <2>4. RemoveFirst(list, a) = RemoveAt(list, m)
    BY <2>2
  <2> HIDE DEF m
  <2> QED
    BY <1>1, <2>3, <2>4, RemoveAndCons
<1> QED
  BY <1>2, <1>3

-----------------------------------------------------------------------------
(***************************************************************************)
(* The invariant of one bucket: a list of nodes with distinct addresses    *)
(* that are, in order, the first of the addresses seen.                    *)
(***************************************************************************)
Addrs == { n.addr : n \in Nodes }

Distinct(list) ==
    \A i, j \in 1 .. Len(list) : SameNode(list[i], list[j]) => i = j

DistinctAddrs(rec) == \A i, j \in 1 .. Len(rec) : rec[i] = rec[j] => i = j

Recent(list, rec) ==
    /\ Len(list) = IF Len(rec) < bucketSize THEN Len(rec) ELSE bucketSize - 1
    /\ \A i \in 1 .. Len(list) : list[i].addr = rec[i]

(***************************************************************************)
(* Behind the first element of a list with an element moved to the front   *)
(* are the elements of the old list but the moved one, each once.          *)
(***************************************************************************)
From(k, p) == IF k <= p THEN k - 1 ELSE k

LEMMA MovedFrom ==
  ASSUME NEW S, NEW s \in Seq(S), NEW list \in Seq(S), NEW e, NEW p,
         MovedToFront(s, list, e, p)
  PROVE  /\ s[1] = e
         /\ \A k \in 2 .. Len(s) : /\ From(k, p) \in 1 .. Len(list)
                                   /\ From(k, p) # p
                                   /\ s[k] = list[From(k, p)]
         /\ \A k, l \in 2 .. Len(s) : From(k, p) = From(l, p) => k = l
<1>1. Len(s) \in Nat /\ Len(list) \in Nat /\ p \in 1 .. Len(list) + 1
  BY LenProperties DEF MovedToFront
<1>2. s[1] = e
  BY <1>1 DEF MovedToFront
<1>3. ASSUME NEW k \in 2 .. Len(s)
      PROVE  /\ From(k, p) \in 1 .. Len(list)
             /\ From(k, p) # p
             /\ s[k] = list[From(k, p)]
  <2>1. CASE k <= p
    BY <1>1, <1>3, <2>1 DEF MovedToFront, From
  <2>2. CASE k > p
    BY <1>1, <1>3, <2>2 DEF MovedToFront, From
  <2> QED
    BY <1>1, <2>1, <2>2
<1>4. \A k, l \in 2 .. Len(s) : From(k, p) = From(l, p) => k = l
  BY <1>1 DEF From
<1> QED
  BY <1>2, <1>3, <1>4

\* The elements of now but the first, a, are in their order in list.
OthersInOrder(now, list, a) ==
    /\ now[1] = a
    /\ \A x, y \in DOMAIN now : x < y =>
          \E q \in DOMAIN list :
             /\ now[y] = list[q]
             /\ x # 1 => \E p \in DOMAIN list : p < q /\ now[x] = list[p]

\* Behind the address that has moved to the front the others keep their order.
LEMMA OthersKeepOrder ==
  ASSUME NEW S, NEW list \in Seq(S), NEW a \in S
  PROVE  OthersInOrder(<<a>> \o RemoveFirst(list, a), list, a)
<1> DEFINE now == <<a>> \o RemoveFirst(list, a)
<1>1. now \in Seq(S) /\ AddressMoves(list, a)
  BY RecencyMoves
<1>2. PICK p \in 1 .. Len(list) + 1 : MovedToFront(now, list, a, p)
  BY <1>1 DEF AddressMoves
<1>3. /\ Len(list) \in Nat /\ DOMAIN list = 1 .. Len(list)
      /\ Len(now) \in Nat /\ DOMAIN now = 1 .. Len(now)
  BY <1>1, LenProperties
<1> HIDE DEF now
<1>4. /\ now[1] = a
      /\ \A k \in 2 .. Len(now) : /\ From(k, p) \in 1 .. Len(list)
                                  /\ now[k] = list[From(k, p)]
  BY <1>1, <1>2, MovedFrom
<1>5. ASSUME NEW x \in DOMAIN now, NEW y \in DOMAIN now, x < y
      PROVE  \E q \in DOMAIN list :
                /\ now[y] = list[q]
                /\ x # 1 => \E r \in DOMAIN list : r < q /\ now[x] = list[r]
  <2>1. y \in 2 .. Len(now) /\ (x # 1 => x \in 2 .. Len(now))
    BY <1>3, <1>5
  <2>2. x # 1 => From(x, p) < From(y, p)
    BY <1>2, <1>3, <1>5, <2>1 DEF From
  <2> QED
    BY <1>3, <1>4, <2>1, <2>2
<1> QED
  BY <1>4, <1>5 DEF now, OthersInOrder

\* A move to the front keeps distinct elements distinct.
LEMMA MoveKeepsDistinctAddrs ==
  ASSUME NEW S, NEW s \in Seq(S), NEW list \in Seq(S), NEW a \in S, NEW p,
         DistinctAddrs(list), MovedToFront(s, list, a, p),
         p <= Len(list) => list[p] = a,
         p > Len(list) => \A j \in 1 .. Len(list) : list[j] # a
  PROVE  DistinctAddrs(s)
<1>1. Len(s) \in Nat /\ Len(list) \in Nat /\ p \in 1 .. Len(list) + 1
  BY LenProperties DEF MovedToFront
<1>2. /\ s[1] = a
      /\ \A k \in 2 .. Len(s) : /\ From(k, p) \in 1 .. Len(list)
                                /\ From(k, p) # p
                                /\ s[k] = list[From(k, p)]
      /\ \A k, l \in 2 .. Len(s) : From(k, p) = From(l, p) => k = l
  BY MovedFrom
<1>3. ASSUME NEW x \in 1 .. Len(list), x # p
      PROVE  list[x] # a
  <2>1. CASE p <= Len(list)
    BY <1>1, <1>3, <2>1 DEF DistinctAddrs
  <2>2. CASE p > Len(list)
    BY <1>3, <2>2
  <2> QED
    BY <1>1, <2>1, <2>2
<1>4. ASSUME NEW k \in 2 .. Len(s), NEW l \in 2 .. Len(s), s[k] = s[l]
      PROVE  k = l
  BY <1>2, <1>4 DEF DistinctAddrs
<1>5. \A k \in 2 .. Len(s) : s[k] # s[1]
  BY <1>2, <1>3
<1>6. \A i \in 1 .. Len(s) : i = 1 \/ i \in 2 .. Len(s)
  BY <1>1
<1> QED
  BY <1>4, <1>5, <1>6 DEF DistinctAddrs

LEMMA MoveKeepsDistinct ==
  ASSUME NEW s \in Seq(Nodes), NEW list \in Seq(Nodes), NEW n \in Nodes, NEW p,
         Distinct(list), MovedToFront(s, list, n, p),
         p \in DOMAIN list => SameNode(list[p], n),
         p \notin DOMAIN list => \A j \in DOMAIN list : ~SameNode(list[j], n)
  PROVE  Distinct(s)
<1>1. /\ Len(s) \in Nat /\ Len(list) \in Nat /\ p \in 1 .. Len(list) + 1
      /\ DOMAIN list = 1 .. Len(list)
  BY LenProperties DEF MovedToFront
<1>2. /\ s[1] = n
      /\ \A k \in 2 .. Len(s) : /\ From(k, p) \in 1 .. Len(list)
                                /\ From(k, p) # p
                                /\ s[k] = list[From(k, p)]
      /\ \A k, l \in 2 .. Len(s) : From(k, p) = From(l, p) => k = l
  BY MovedFrom
<1>3. ASSUME NEW x \in 1 .. Len(list), x # p
      PROVE  ~SameNode(list[x], n)
  <2>1. CASE p \in DOMAIN list
    BY <1>1, <1>3, <2>1 DEF Distinct, SameNode
  <2>2. CASE p \notin DOMAIN list
    BY <1>1, <1>3, <2>2
  <2> QED
    BY <2>1, <2>2
<1>4. ASSUME NEW k \in 2 .. Len(s), NEW l \in 2 .. Len(s), SameNode(s[k], s[l])
      PROVE  k = l
  BY <1>2, <1>4 DEF Distinct
<1>5. \A k \in 2 .. Len(s) : ~SameNode(s[k], s[1]) /\ ~SameNode(s[1], s[k])
  BY <1>2, <1>3 DEF SameNode
<1>6. \A i \in 1 .. Len(s) : i = 1 \/ i \in 2 .. Len(s)
  BY <1>1
<1> QED
  BY <1>4, <1>5, <1>6 DEF Distinct

LEMMA KeptProperties ==
  ASSUME NEW s \in Seq(Nodes)
  PROVE  /\ Kept(s) \in Seq(Nodes)
         /\ Len(Kept(s)) = IF Len(s) >= bucketSize THEN Len(s) - 1 ELSE Len(s)
         /\ \A i \in 1 .. Len(Kept(s)) : Kept(s)[i] = s[i]
<1>1. Len(s) \in Nat /\ bucketSize \in Nat \ {0}
  BY LenProperties, NodeTableAssumption
<1>2. CASE Len(s) >= bucketSize
  <2>1. \A i \in 1 .. Len(s) - 1 : s[i] \in Nodes
    BY <1>1, ElementOfSeq
  <2> DEFINE m == Len(s) - 1
             f == SubSeq(s, 1, m)
  <2>2. m \in Nat
    BY <1>1, <1>2
  <2> HIDE DEF m
  <2>3. /\ f \in Seq(Nodes)
        /\ Len(f) = IF 1 <= m THEN m - 1 + 1 ELSE 0
        /\ \A i \in 1 .. m - 1 + 1 : f[i] = s[1 + i - 1]
    BY <2>1, <2>2, SubSeqProperties DEF m
  <2>4. Len(f) = m /\ \A i \in 1 .. m : f[i] = s[i]
    BY <2>2, <2>3
  <2>5. Kept(s) = f
    BY <1>2 DEF Kept, Front, m
  <2> HIDE DEF f
  <2> QED
    BY <1>1, <1>2, <2>3, <2>4, <2>5 DEF m
<1> QED
  BY <1>1, <1>2 DEF Kept

\* What mark_seen makes of a bucket and of the addresses seen for it.
LEMMA SeenBucket ==
  ASSUME NEW list \in Seq(Nodes), NEW rec \in Seq(Addrs), NEW n \in Nodes,
         Distinct(list), DistinctAddrs(rec), Recent(list, rec)
  PROVE  LET new == Kept(Seen(list, n))
             now == <<n.addr>> \o RemoveFirst(rec, n.addr)
         IN  /\ new \in Seq(Nodes) /\ now \in Seq(Addrs)
             /\ Distinct(new) /\ DistinctAddrs(now)
             /\ Recent(new, now)
             /\ \A k \in 1 .. Len(new) :
                   new[k] = n \/ \E x \in 1 .. Len(list) : new[k] = list[x]
<1> DEFINE s   == Seen(list, n)
           new == Kept(s)
           now == <<n.addr>> \o RemoveFirst(rec, n.addr)
<1>0. n.addr \in Addrs
  BY DEF Addrs
<1>1. PICK p \in 1 .. Len(list) + 1 :
         /\ MovedToFront(s, list, n, p)
         /\ p \in DOMAIN list => SameNode(list[p], n)
         /\ p \notin DOMAIN list => \A j \in DOMAIN list : ~SameNode(list[j], n)
  BY SeenMoves
<1>2. PICK q \in 1 .. Len(rec) + 1 :
         /\ MovedToFront(now, rec, n.addr, q)
         /\ q <= Len(rec) => rec[q] = n.addr
         /\ q > Len(rec) => \A j \in 1 .. Len(rec) : rec[j] # n.addr
  <2>1. AddressMoves(rec, n.addr)
    BY <1>0, RecencyMoves
  <2> QED
    BY <2>1 DEF AddressMoves
<1>3. s \in Seq(Nodes) /\ now \in Seq(Addrs)
  BY <1>0, SeenMoves, RecencyMoves
<1>4. /\ new \in Seq(Nodes)
      /\ Len(new) = IF Len(s) >= bucketSize THEN Len(s) - 1 ELSE Len(s)
      /\ \A i \in 1 .. Len(new) : new[i] = s[i]
  BY <1>3, KeptProperties
<1>5. /\ Len(list) \in Nat /\ Len(rec) \in Nat /\ Len(s) \in Nat
      /\ Len(now) \in Nat /\ bucketSize \in Nat \ {0}
      /\ DOMAIN list = 1 .. Len(list)
  BY <1>3, LenProperties, NodeTableAssumption
<1> HIDE DEF s, new, now
<1>6. Distinct(s)
  BY <1>1, <1>3, MoveKeepsDistinct
<1>7. DistinctAddrs(now)
  BY <1>0, <1>2, <1>3, MoveKeepsDistinctAddrs
<1>8. Distinct(new)
  <2>1. 1 .. Len(new) \subseteq 1 .. Len(s)
    BY <1>4, <1>5
  <2>2. \A i, j \in 1 .. Len(new) : SameNode(s[i], s[j]) => i = j
    BY <1>6, <2>1 DEF Distinct
  <2> QED
    BY <1>4, <2>2 DEF Distinct
<1>9. ASSUME p <= Len(list)
      PROVE  q = p
  <2>1. p \in 1 .. Len(rec) /\ rec[p] = n.addr
    BY <1>1, <1>5, <1>9 DEF Recent, SameNode
  <2>2. q \in 1 .. Len(rec) /\ rec[q] = n.addr
    BY <1>2, <1>5, <2>1
  <2> QED
    BY <2>1, <2>2 DEF DistinctAddrs
<1>10. ASSUME p > Len(list)
       PROVE  q > Len(list)
  <2> SUFFICES ASSUME q \in 1 .. Len(list)
               PROVE  FALSE
    BY <1>2, <1>5
  <2>1. q <= Len(rec) /\ list[q].addr = rec[q]
    BY <1>5 DEF Recent
  <2>2. SameNode(list[q], n)
    BY <1>2, <2>1 DEF SameNode
  <2> QED
    BY <1>1, <1>5, <1>10, <2>2
<1>11. Len(new) = IF Len(now) < bucketSize THEN Len(now) ELSE bucketSize - 1
  <2>1. /\ Len(s) = IF p <= Len(list) THEN Len(list) ELSE Len(list) + 1
        /\ Len(now) = IF q <= Len(rec) THEN Len(rec) ELSE Len(rec) + 1
    BY <1>1, <1>2 DEF MovedToFront
  <2>2. Len(list) = IF Len(rec) < bucketSize THEN Len(rec) ELSE bucketSize - 1
    BY DEF Recent
  <2>3. Len(new) = IF Len(s) >= bucketSize THEN Len(s) - 1 ELSE Len(s)
    BY <1>4
  <2>4. CASE Len(rec) < bucketSize
    <3>1. Len(list) = Len(rec)
      BY <2>2, <2>4
    <3>2. p <= Len(list) <=> q <= Len(rec)
      BY <1>5, <1>9, <1>10, <3>1
    <3>3. Len(s) = Len(now)
      BY <2>1, <3>1, <3>2
    <3>4. Len(now) <= bucketSize
      BY <1>5, <2>1, <2>4
    <3> QED
      BY <1>5, <2>3, <3>3, <3>4
  <2>5. CASE Len(rec) >= bucketSize
    BY <1>5, <2>1, <2>2, <2>3, <2>5
  <2> QED
    BY <1>5, <2>4, <2>5
<1>12. \A i \in 1 .. Len(new) : new[i].addr = now[i]
  <2> SUFFICES ASSUME NEW i \in 1 .. Len(new)
               PROVE  new[i].addr = now[i]
    OBVIOUS
  <2>0. Len(new) \in Nat /\ new[i] = s[i]
    BY <1>4, LenProperties
  <2>1. Len(new) <= Len(now) /\ Len(new) <= Len(s)
    <3>1. Len(new) = IF Len(s) >= bucketSize THEN Len(s) - 1 ELSE Len(s)
      BY <1>4
    <3> QED
      BY <1>5, <1>11, <3>1
  <2>2. i <= Len(now) /\ i <= Len(s) /\ i - 1 \in Nat
    BY <1>5, <2>0, <2>1
  <2>3. CASE i = 1
    BY <1>1, <1>2, <1>5, <2>0, <2>2, <2>3 DEF MovedToFront
  <2>4. CASE i > 1 /\ i <= p
    <3>1. s[i] = list[i - 1] /\ i - 1 \in 1 .. Len(list)
      BY <1>1, <1>5, <2>0, <2>2, <2>4 DEF MovedToFront
    <3>2. i <= q
      BY <1>1, <1>2, <1>5, <1>9, <1>10, <2>4
    <3>3. now[i] = rec[i - 1]
      BY <1>2, <1>5, <2>0, <2>2, <2>4, <3>2 DEF MovedToFront
    <3> QED
      BY <2>0, <2>2, <3>1, <3>3 DEF Recent
  <2>5. CASE i > p
    <3>1. s[i] = list[i] /\ i \in 1 .. Len(list) /\ p <= Len(list)
      BY <1>1, <1>5, <2>0, <2>2, <2>5 DEF MovedToFront
    <3>2. now[i] = rec[i]
      BY <1>2, <1>5, <1>9, <2>0, <2>2, <2>5, <3>1 DEF MovedToFront
    <3> QED
      BY <2>0, <2>2, <3>1, <3>2 DEF Recent
  <2> QED
    BY <1>5, <2>0, <2>2, <2>3, <2>4, <2>5
<1>13. \A k \in 1 .. Len(new) :
          new[k] = n \/ \E x \in 1 .. Len(list) : new[k] = list[x]
  <2> SUFFICES ASSUME NEW k \in 1 .. Len(new)
               PROVE  new[k] = n \/ \E x \in 1 .. Len(list) : new[k] = list[x]
    OBVIOUS
  <2>1. k \in 1 .. Len(s) /\ new[k] = s[k]
    BY <1>4, <1>5
  <2>2. CASE k = 1
    BY <1>1, <2>1, <2>2 DEF MovedToFront
  <2>3. CASE k # 1 /\ k <= p
    <3>1. k - 1 \in 1 .. Len(list) /\ s[k] = list[k - 1]
      BY <1>1, <1>5, <2>1, <2>3 DEF MovedToFront
    <3> QED
      BY <2>1, <3>1
  <2>4. CASE k # 1 /\ k > p
    <3>1. k \in 1 .. Len(list) /\ s[k] = list[k]
      BY <1>1, <1>5, <2>1, <2>4 DEF MovedToFront
    <3> QED
      BY <2>1, <3>1
  <2> QED
    BY <1>1, <1>5, <2>1, <2>2, <2>3, <2>4
<1> QED
  BY <1>3, <1>4, <1>7, <1>8, <1>11, <1>12, <1>13 DEF Recent, s, new, now

-----------------------------------------------------------------------------
(***************************************************************************)
(* The inductive invariant of the buckets: each is in step with the        *)
(* history of the addresses seen for it.                                   *)
(***************************************************************************)
BucketInv(d) ==
    /\ Distinct(buckets[d])
    /\ DistinctAddrs(recency[d])
    /\ Recent(buckets[d], recency[d])
    /\ \A i \in 1 .. Len(buckets[d]) :
          bit_distance(Self.nodeId, buckets[d][i].nodeId) = d

TableInv ==
    /\ buckets \in [Buckets -> Seq(Nodes)]
    /\ recency \in [Buckets -> Seq(Addrs)]
    /\ \A d \in Buckets : BucketInv(d)

LEMMA InitTable == Init => TableInv
<1> SUFFICES ASSUME Init
             PROVE  TableInv
  OBVIOUS
<1>1. /\ buckets \in [Buckets -> Seq(Nodes)]
      /\ recency \in [Buckets -> Seq(Addrs)]
  BY EmptySeq DEF Init
<1>2. ASSUME NEW d \in Buckets
      PROVE  BucketInv(d)
  <2>1. buckets[d] = <<>> /\ recency[d] = <<>> /\ Len(<<>>) = 0
    BY EmptySeq DEF Init
  <2>2. bucketSize \in Nat \ {0}
    BY NodeTableAssumption
  <2> QED
    BY <2>1, <2>2 DEF BucketInv, Distinct, DistinctAddrs, Recent
<1> QED
  BY <1>1, <1>2 DEF TableInv

LEMMA MarkSeenKeepsTable ==
  ASSUME TableInv, NEW t \in Threads, NEW n \in Nodes, mark_seen(t, n)
  PROVE  TableInv'
<1> DEFINE d0  == bit_distance(Self.nodeId, n.nodeId)
           new == Kept(Seen(buckets[d0], n))
           now == <<n.addr>> \o RemoveFirst(recency[d0], n.addr)
<1>1. /\ d0 \in Buckets
      /\ buckets' = [buckets EXCEPT ![d0] = new]
      /\ recency' = [recency EXCEPT ![d0] = now]
  BY DEF mark_seen
<1>2. /\ buckets[d0] \in Seq(Nodes) /\ recency[d0] \in Seq(Addrs)
      /\ BucketInv(d0)
  BY <1>1 DEF TableInv
<1>3. /\ new \in Seq(Nodes) /\ now \in Seq(Addrs)
      /\ Distinct(new) /\ DistinctAddrs(now)
      /\ Recent(new, now)
      /\ \A k \in 1 .. Len(new) :
            new[k] = n \/ \E x \in 1 .. Len(buckets[d0]) : new[k] = buckets[d0][x]
  BY <1>2, SeenBucket DEF BucketInv
<1> HIDE DEF new, now
<1>4. ASSUME NEW k \in 1 .. Len(new)
      PROVE  bit_distance(Self.nodeId, new[k].nodeId) = d0
  <2>1. CASE new[k] = n
    BY <2>1
  <2>2. CASE \E x \in 1 .. Len(buckets[d0]) : new[k] = buckets[d0][x]
    BY <1>2, <2>2 DEF BucketInv
  <2> QED
    BY <1>3, <2>1, <2>2
<1> HIDE DEF d0
<1>5. /\ buckets' \in [Buckets -> Seq(Nodes)]
      /\ recency' \in [Buckets -> Seq(Addrs)]
  BY <1>1, <1>3 DEF TableInv
<1>6. ASSUME NEW d \in Buckets
      PROVE  BucketInv(d)'
  <2>1. CASE d = d0
    <3>1. buckets'[d] = new /\ recency'[d] = now
      BY <1>1, <2>1 DEF TableInv
    <3> QED
      BY <1>3, <1>4, <2>1, <3>1 DEF BucketInv
  <2>2. CASE d # d0
    <3>1. buckets'[d] = buckets[d] /\ recency'[d] = recency[d]
      BY <1>1, <2>2 DEF TableInv
    <3> QED
      BY <3>1 DEF BucketInv, TableInv
  <2> QED
    BY <2>1, <2>2
<1> QED
  BY <1>5, <1>6 DEF TableInv

\* mark_seen is the only operation that writes the buckets.
LEMMA OnlyMarkSeenWrites ==
  ASSUME [Next]_vars
  PROVE  \/ \E t \in Threads, n \in Nodes : mark_seen(t, n)
         \/ UNCHANGED <<buckets, recency>>
BY DEF Next, MarkOutOfRange, BeginScan, ScanBucket, BeginPingAll, PingBucket,
       Return, vars

THEOREM TableInvariant == Spec => []TableInv
<1>1. TableInv /\ [Next]_vars => TableInv'
  <2> SUFFICES ASSUME TableInv, [Next]_vars
               PROVE  TableInv'
    OBVIOUS
  <2>1. CASE \E t \in Threads, n \in Nodes : mark_seen(t, n)
    BY <2>1, MarkSeenKeepsTable
  <2>2. CASE UNCHANGED <<buckets, recency>>
    BY <2>2 DEF TableInv, BucketInv
  <2> QED
    BY <2>1, <2>2, OnlyMarkSeenWrites
<1> QED
  BY InitTable, <1>1, PTL DEF Spec

(***************************************************************************)
(* A bucket's nodes are at its distance, no address is there twice, and    *)
(* there are fewer than bucketSize of them.                                *)
(***************************************************************************)
THEOREM BucketsAreWellFormed == Spec => []BucketsWellFormed
<1>1. TableInv => BucketsWellFormed
  <2> SUFFICES ASSUME TableInv, NEW d \in Buckets
               PROVE  /\ Len(buckets[d]) < bucketSize
                      /\ \A i \in DOMAIN buckets[d] :
                            /\ bit_distance(Self.nodeId, buckets[d][i].nodeId) = d
                            /\ \A j \in DOMAIN buckets[d] :
                                  SameNode(buckets[d][i], buckets[d][j]) => i = j
    BY DEF BucketsWellFormed
  <2>1. buckets[d] \in Seq(Nodes) /\ recency[d] \in Seq(Addrs) /\ BucketInv(d)
    BY DEF TableInv
  <2>2. DOMAIN buckets[d] = 1 .. Len(buckets[d])
    BY <2>1, LenProperties
  <2>3. Len(recency[d]) \in Nat /\ bucketSize \in Nat \ {0}
    BY <2>1, LenProperties, NodeTableAssumption
  <2>4. Len(buckets[d]) < bucketSize
    BY <2>1, <2>3 DEF BucketInv, Recent
  <2> QED
    BY <2>1, <2>2, <2>4 DEF BucketInv, Distinct
<1> QED
  BY <1>1, TableInvariant, PTL

\* The lesser of two naturals, as Min gives it.
LEMMA MinOfTwo ==
  ASSUME NEW a \in Nat, NEW b \in Nat
  PROVE  Min({a, b}) = IF a <= b THEN a ELSE b
<1>1. Min({a, b}) \in {a, b} /\ \A y \in {a, b} : Min({a, b}) <= y
  BY LeastNat
<1> QED
  BY <1>1

(***************************************************************************)
(* A bucket holds the most recent bucketSize - 1 of the addresses for      *)
(* which mark_seen was called, in the order of their last calls.           *)
(***************************************************************************)
THEOREM MostRecentAreKept == Spec => []MostRecentKept
<1>1. TableInv => MostRecentKept
  <2> SUFFICES ASSUME TableInv, NEW d \in Buckets
               PROVE  [i \in DOMAIN buckets[d] |-> buckets[d][i].addr] =
                         SubSeq(recency[d], 1,
                                Min({Len(recency[d]), bucketSize - 1}))
    BY DEF MostRecentKept
  <2> DEFINE list == buckets[d]
             rec  == recency[d]
             m    == Min({Len(rec), bucketSize - 1})
             front == SubSeq(rec, 1, m)
             addrs == [i \in DOMAIN list |-> list[i].addr]
  <2>1. list \in Seq(Nodes) /\ rec \in Seq(Addrs) /\ Recent(list, rec)
    BY DEF TableInv, BucketInv
  <2> HIDE DEF list, rec
  <2>2. /\ DOMAIN list = 1 .. Len(list) /\ Len(list) \in Nat
        /\ Len(rec) \in Nat /\ bucketSize \in Nat \ {0}
    BY <2>1, LenProperties, NodeTableAssumption
  <2>3. m = IF Len(rec) <= bucketSize - 1 THEN Len(rec) ELSE bucketSize - 1
    BY <2>2, MinOfTwo
  <2> HIDE DEF m
  <2>4. m = Len(list) /\ m \in Nat /\ m <= Len(rec)
    BY <2>1, <2>2, <2>3 DEF Recent
  <2>5. \A i \in 1 .. m : rec[i] \in Addrs
    BY <2>1, <2>2, <2>4, ElementOfSeq
  <2>6. /\ front \in Seq(Addrs)
        /\ Len(front) = m
        /\ \A i \in 1 .. m : front[i] = rec[i]
    BY <2>4, <2>5, SubSeqProperties
  <2>7. front = [i \in 1 .. m |-> front[i]]
    BY <2>6, LenProperties
  <2> HIDE DEF front
  <2>8. \A i \in 1 .. m : front[i] = list[i].addr
    BY <2>1, <2>4, <2>6 DEF Recent
  <2>9. addrs = front
    BY <2>2, <2>4, <2>7, <2>8
  <2> QED
    BY <2>9 DEF front, m, list, rec
<1> QED
  BY <1>1, TableInvariant, PTL

-----------------------------------------------------------------------------
\* Every address of a list is still in what Seen makes of it.
LEMMA SeenKeepsAddresses ==
  ASSUME NEW list \in Seq(Nodes), NEW n \in Nodes, NEW x \in 1 .. Len(list)
  PROVE  \E k \in 1 .. Len(Seen(list, n)) : SameNode(list[x], Seen(list, n)[k])
<1> DEFINE s == Seen(list, n)
<1>1. PICK p \in 1 .. Len(list) + 1 :
         /\ MovedToFront(s, list, n, p)
         /\ p \in DOMAIN list => SameNode(list[p], n)
  BY SeenMoves
<1>2. DOMAIN list = 1 .. Len(list) /\ Len(list) \in Nat
  BY LenProperties
<1> HIDE DEF s
<1>3. CASE x < p
  <2>1. x + 1 \in 1 .. Len(s) /\ s[x + 1] = list[x]
    BY <1>1, <1>2, <1>3 DEF MovedToFront
  <2> QED
    BY <2>1 DEF SameNode, s
<1>4. CASE x = p
  <2>1. 1 \in 1 .. Len(s) /\ s[1] = n
    BY <1>1, <1>2, <1>4 DEF MovedToFront
  <2> QED
    BY <1>1, <1>2, <1>4, <2>1 DEF s
<1>5. CASE x > p
  <2>1. x \in 1 .. Len(s) /\ s[x] = list[x]
    BY <1>1, <1>2, <1>5 DEF MovedToFront
  <2> QED
    BY <2>1 DEF SameNode, s
<1> QED
  BY <1>1, <1>2, <1>3, <1>4, <1>5

\* What Kept does not keep, Evicted returns.
LEMMA KeptOrEvicted ==
  ASSUME NEW s \in Seq(Nodes), NEW k \in 1 .. Len(s)
  PROVE  s[k] \in ToSet(Kept(s)) \cup Evicted(s)
<1> DEFINE new == Kept(s)
<1>1. /\ new \in Seq(Nodes)
      /\ Len(new) = IF Len(s) >= bucketSize THEN Len(s) - 1 ELSE Len(s)
      /\ \A i \in 1 .. Len(new) : new[i] = s[i]
  BY KeptProperties
<1>2. DOMAIN new = 1 .. Len(new) /\ Len(s) \in Nat /\ bucketSize \in Nat
  BY <1>1, LenProperties, NodeTableAssumption
<1> HIDE DEF new
<1>3. CASE k <= Len(new)
  <2>1. k \in DOMAIN new /\ new[k] = s[k]
    BY <1>1, <1>2, <1>3
  <2>2. s[k] \in ToSet(new)
    BY <2>1 DEF ToSet
  <2> QED
    BY <2>2 DEF new
<1>4. CASE k > Len(new)
  <2>1. k = Len(s) /\ Len(s) >= bucketSize
    BY <1>1, <1>2, <1>4
  <2> QED
    BY <2>1 DEF Evicted, Last
<1> QED
  BY <1>1, <1>2, <1>3, <1>4

(***************************************************************************)
(* An address leaves a bucket only in a step of mark_seen that pings it,   *)
(* unless it is this node's own.                                           *)
(***************************************************************************)
THEOREM EvictionPings == Spec => EvictedArePinged
<1> DEFINE Pinged(d, m) ==
              \/ \E n \in ToSet(buckets'[d]) \cup pinged' : SameNode(m, n)
              \/ SameNode(m, Self)
<1>1. ASSUME TableInv, [Next]_vars, NEW d \in Buckets, NEW m \in ToSet(buckets[d])
      PROVE  Pinged(d, m)
  <2> DEFINE list == buckets[d]
  <2>1. list \in Seq(Nodes)
    BY <1>1 DEF TableInv
  <2>2. PICK x \in 1 .. Len(list) : m = list[x]
    BY <1>1, <2>1, LenProperties DEF ToSet
  <2>3. CASE UNCHANGED <<buckets, recency>>
    BY <1>1, <2>3 DEF SameNode
  <2>4. ASSUME NEW t \in Threads, NEW n \in Nodes, mark_seen(t, n)
        PROVE  Pinged(d, m)
    <3> DEFINE d0 == bit_distance(Self.nodeId, n.nodeId)
               s  == Seen(list, n)
    <3>1. /\ d0 \in Buckets
          /\ buckets' = [buckets EXCEPT ![d0] = Kept(Seen(buckets[d0], n))]
          /\ pinged' = Others(Evicted(Seen(buckets[d0], n)))
      BY <2>4 DEF mark_seen
    <3> HIDE DEF d0
    <3>2. CASE d # d0
      <4>1. buckets'[d] = list
        BY <1>1, <3>1, <3>2 DEF TableInv
      <4> QED
        BY <1>1, <4>1 DEF SameNode
    <3>3. CASE d = d0
      <4>1. buckets'[d] = Kept(s) /\ pinged' = Others(Evicted(s))
        BY <1>1, <3>1, <3>3 DEF TableInv
      <4>2. s \in Seq(Nodes)
        BY <2>1, <2>4, SeenMoves
      <4>3. PICK k \in 1 .. Len(s) : SameNode(m, s[k])
        BY <2>1, <2>2, <2>4, SeenKeepsAddresses
      <4>4. s[k] \in ToSet(Kept(s)) \cup Evicted(s)
        BY <4>2, <4>3, KeptOrEvicted
      <4> HIDE DEF s, list
      <4>5. CASE s[k] \in ToSet(Kept(s))
        BY <4>1, <4>3, <4>5
      <4>6. CASE s[k] \in Evicted(s)
        BY <4>1, <4>3, <4>6 DEF Others, SameNode
      <4> QED
        BY <4>4, <4>5, <4>6
    <3> QED
      BY <3>2, <3>3
  <2> QED
    BY <1>1, <2>3, <2>4, OnlyMarkSeenWrites
<1>2. TableInv /\ [Next]_vars =>
         [\A d \in Buckets : \A m \in ToSet(buckets[d]) : Pinged(d, m)]_vars
  BY <1>1
<1> QED
  BY <1>2, TableInvariant, PTL DEF Spec, EvictedArePinged

-----------------------------------------------------------------------------
Entries == [d : Nat, node : Nodes]

(***************************************************************************)
(* What a scan that has done the buckets before i has found: allowed nodes *)
(* of these buckets, which is why the next one has none of them, and a     *)
(* first one that is as near as each of their allowed lasting nodes.       *)
(***************************************************************************)
Found(c) ==
    \A k \in DOMAIN c.pq :
        /\ c.pq[k].node \in Allowed(c)
        /\ bit_distance(Self.nodeId, c.pq[k].node.nodeId) < c.i

FoundNearest(c) ==
    \A n \in c.lasting \cap Allowed(c) :
        bit_distance(Self.nodeId, n.nodeId) < c.i =>
            c.pq # <<>> /\ c.pq[1].d <= bit_distance(n.nodeId, c.key)

ScanOK(c) ==
    /\ c \in Scan
    /\ InOrder(Entries, alpha, c.pq)
    /\ Found(c)
    /\ FoundNearest(c)

\* What ping_all has done: the lasting nodes of the buckets before i are pinged.
PingAllOK(c) ==
    /\ c \in PingAll
    /\ \A n \in c.lasting :
          bit_distance(Self.nodeId, n.nodeId) < c.i =>
             SameNode(n, Self) \/ n \in c.done

WalkOK(c) ==
    \/ c = Free
    \/ /\ c.lasting \subseteq Table(buckets)
       /\ ScanOK(c) \/ PingAllOK(c)

WalkInv ==
    /\ TableInv
    /\ calls = [t \in Threads |-> calls[t]]
    /\ \A t \in Threads : WalkOK(calls[t])

LEMMA DistanceIsSymmetric ==
  ASSUME NEW g, NEW h
  PROVE  bit_distance(g, h) = bit_distance(h, g)
<1>1. (g \ h) \cup (h \ g) = (h \ g) \cup (g \ h)
  OBVIOUS
<1> QED
  BY <1>1 DEF bit_distance

\* Which of the three a call is can be told by its op.
LEMMA KindsOfCalls ==
  ASSUME NEW c, WalkOK(c)
  PROVE  /\ c.op = "none" => c = Free
         /\ c.op = "scan" => c # Free /\ ScanOK(c) /\ c.lasting \subseteq Table(buckets)
         /\ c.op = "ping_all" => /\ c # Free /\ PingAllOK(c)
                                 /\ c.lasting \subseteq Table(buckets)
BY DEF WalkOK, ScanOK, PingAllOK, Scan, PingAll, Free

\* The nodes of the table, each in the bucket of its distance.
LEMMA TableByDistance ==
  ASSUME TableInv, NEW n \in Table(buckets)
  PROVE  LET d == bit_distance(Self.nodeId, n.nodeId)
         IN  n \in Nodes /\ d \in Buckets /\ n \in ToSet(buckets[d])
<1>1. PICK d \in Buckets : n \in ToSet(buckets[d])
  BY DEF Table
<1>2. buckets[d] \in Seq(Nodes) /\ BucketInv(d)
  BY DEF TableInv
<1>3. PICK x \in 1 .. Len(buckets[d]) : n = buckets[d][x]
  BY <1>1, <1>2, LenProperties DEF ToSet
<1>4. n \in Nodes
  BY <1>2, <1>3, ElementOfSeq
<1> QED
  BY <1>1, <1>2, <1>3, <1>4 DEF BucketInv

LEMMA MarkSeenKeepsWalks ==
  ASSUME WalkInv, NEW t \in Threads, NEW n \in Nodes, mark_seen(t, n)
  PROVE  WalkInv'
<1>1. TableInv'
  BY MarkSeenKeepsTable DEF WalkInv
<1>2. calls' = [u \in Threads |->
                   IF calls[u] = Free THEN Free
                   ELSE [calls[u] EXCEPT !.lasting = @ \cap Table(buckets')]]
  BY DEF mark_seen
<1>3. calls' = [u \in Threads |-> calls'[u]]
  BY <1>2
<1>4. ASSUME NEW u \in Threads
      PROVE  WalkOK(calls[u])'
  <2> DEFINE c == calls[u]
             T == Table(buckets')
             b == [c EXCEPT !.lasting = @ \cap T]
  <2>1. WalkOK(c)
    BY DEF WalkInv
  <2>2. calls'[u] = IF c = Free THEN Free ELSE b
    BY <1>2
  <2> HIDE DEF T, c
  <2>3. CASE c = Free
    BY <2>2, <2>3 DEF WalkOK
  <2>4. CASE c # Free /\ ScanOK(c)
    <3>1. /\ b \in Scan
          /\ b.lasting = c.lasting \cap T
          /\ b.i = c.i /\ b.key = c.key /\ b.pq = c.pq
          /\ b.allow_non_euclidian = c.allow_non_euclidian
      BY <2>4 DEF ScanOK, Scan
    <3>2. calls'[u] = b
      BY <2>2, <2>4
    <3> HIDE DEF b
    <3>3. Allowed(b) = Allowed(c)
      BY <3>1 DEF Allowed
    <3>4. ScanOK(b) /\ b.lasting \subseteq T
      BY <2>4, <3>1, <3>3 DEF ScanOK, Found, FoundNearest
    <3> QED
      BY <3>2, <3>4 DEF WalkOK, T, ScanOK, Found, FoundNearest, Allowed
  <2>5. CASE c # Free /\ PingAllOK(c)
    <3>2. /\ b \in PingAll
          /\ b.lasting = c.lasting \cap T
          /\ b.i = c.i /\ b.done = c.done
      BY <2>5 DEF PingAllOK, PingAll
    <3>3. calls'[u] = b
      BY <2>2, <2>5
    <3> HIDE DEF b
    <3> QED
      BY <2>5, <3>2, <3>3 DEF WalkOK, PingAllOK, T
  <2> QED
    BY <2>1, <2>3, <2>4, <2>5 DEF WalkOK
<1> QED
  BY <1>1, <1>3, <1>4 DEF WalkInv

\* A step of one thread that leaves the buckets alone.
LEMMA OneWalkMoves ==
  ASSUME WalkInv, NEW t \in Threads, NEW c, WalkOK(c),
         calls' = [calls EXCEPT ![t] = c], UNCHANGED <<buckets, recency>>
  PROVE  WalkInv'
<1>1. TableInv'
  BY DEF WalkInv, TableInv, BucketInv
<1>2. \A u \in Threads : calls'[u] = IF u = t THEN c ELSE calls[u]
  BY DEF WalkInv
<1>3. ASSUME NEW u \in Threads
      PROVE  WalkOK(calls[u])'
  <2> DEFINE e == IF u = t THEN c ELSE calls[u]
  <2>1. WalkOK(e) /\ calls'[u] = e
    BY <1>2 DEF WalkInv
  <2> HIDE DEF e
  <2>2. Table(buckets)' = Table(buckets)
    BY DEF Table
  <2> QED
    BY <2>1, <2>2 DEF WalkOK, ScanOK, Found, FoundNearest, Allowed, PingAllOK
<1>4. calls' = [u \in Threads |-> calls'[u]]
  BY DEF WalkInv
<1> QED
  BY <1>1, <1>3, <1>4 DEF WalkInv

\* The next bucket may be offered to what a scan has found so far.
LEMMA ScanMayOffer ==
  ASSUME TableInv, NEW c, ScanOK(c), c.i < HASH_BITS
  PROVE  Offerable(Nodes, c.key, alpha, c.pq, buckets[c.i])
<1> DEFINE nodes == buckets[c.i]
<1>1. c.i \in Buckets /\ c.key \in Keys
  BY HashBitsAssumption DEF ScanOK, Scan, Buckets
<1>2. nodes \in Seq(Nodes) /\ BucketInv(c.i) /\ DOMAIN nodes = 1 .. Len(nodes)
  BY <1>1, LenProperties DEF TableInv
<1>3. \A n \in Nodes : bit_distance(c.key, n.nodeId) \in Nat
  BY <1>1, NodeTableAssumption, DistanceIsSymmetric
<1>4. \A j, k \in DOMAIN nodes : nodes[j] = nodes[k] => j = k
  BY <1>2 DEF BucketInv, Distinct, SameNode
<1>5. \A k \in DOMAIN c.pq, j \in DOMAIN nodes : c.pq[k].node # nodes[j]
  <2> SUFFICES ASSUME NEW k \in DOMAIN c.pq, NEW j \in DOMAIN nodes, c.pq[k].node = nodes[j]
               PROVE  FALSE
    OBVIOUS
  <2>1. bit_distance(Self.nodeId, nodes[j].nodeId) = c.i
    BY <1>2 DEF BucketInv
  <2>2. bit_distance(Self.nodeId, nodes[j].nodeId) < c.i
    BY DEF ScanOK, Found
  <2> QED
    BY <1>1, <2>1, <2>2 DEF Buckets
<1> QED
  BY <1>2, <1>3, <1>4, <1>5 DEF Offerable, ScanOK, Entries

\* The first distance of a list in order.
LEMMA FirstDistance ==
  ASSUME NEW list, InOrder(Entries, alpha, list), list # <<>>
  PROVE  list[1].d \in Nat
<1>1. list[1] \in Entries
  BY FirstOf DEF InOrder
<1> QED
  BY <1>1 DEF Entries

LEMMA ScanBucketKeepsWalks ==
  ASSUME WalkInv, NEW t \in Threads, ScanBucket(t)
  PROVE  WalkInv'
<1> DEFINE w == calls[t]
           nodes == buckets[w.i]
           limit == bit_distance(Self.nodeId, w.key)
           pq == OfferAll(w.pq, nodes, w.key, limit, w.allow_non_euclidian, alpha)
           offers(n) == w.allow_non_euclidian \/ bit_distance(n.nodeId, w.key) < limit
           c  == [w EXCEPT !.i = @ + 1, !.pq = pq]
<1>1. /\ w.op = "scan" /\ w.i < HASH_BITS
      /\ calls' = [calls EXCEPT ![t] = c]
      /\ UNCHANGED <<buckets, recency>>
  BY DEF ScanBucket
<1>2. TableInv /\ ScanOK(w) /\ w.lasting \subseteq Table(buckets)
  BY <1>1, KindsOfCalls DEF WalkInv
<1> HIDE DEF w
<1>3. w.i \in Buckets /\ w.i + 1 \in 0 .. HASH_BITS /\ w.key \in Keys
  BY <1>1, <1>2, HashBitsAssumption DEF ScanOK, Scan, Buckets
<1>4. nodes \in Seq(Nodes) /\ BucketInv(w.i) /\ DOMAIN nodes = 1 .. Len(nodes)
  BY <1>2, <1>3, LenProperties DEF TableInv
<1>5. Offerable(Nodes, w.key, alpha, w.pq, nodes) /\ alpha \in Nat \ {0}
  BY <1>1, <1>2, ScanMayOffer, NodeTableAssumption
<1> HIDE DEF nodes, limit
<1>6. /\ InOrder(Entries, alpha, pq)
      /\ \A k \in DOMAIN pq :
            \/ \E j \in DOMAIN w.pq : pq[k] = w.pq[j]
            \/ \E j \in DOMAIN nodes : offers(nodes[j]) /\ pq[k] = Entry(w.key, nodes[j])
      /\ w.pq # <<>> => pq # <<>> /\ pq[1].d <= w.pq[1].d
      /\ \A j \in DOMAIN nodes : offers(nodes[j]) =>
            pq # <<>> /\ pq[1].d <= bit_distance(w.key, nodes[j].nodeId)
  BY <1>5, OfferAllFindsNearest DEF Entries
<1> HIDE DEF pq
<1>7. /\ c \in Scan
      /\ c.lasting = w.lasting /\ c.i = w.i + 1 /\ c.key = w.key /\ c.pq = pq
      /\ c.allow_non_euclidian = w.allow_non_euclidian
  BY <1>2, <1>3, <1>6 DEF ScanOK, Scan, InOrder, Entries
<1> HIDE DEF c
<1>8. Allowed(c) = Allowed(w) /\ \A n \in Nodes : n \in Allowed(w) <=> offers(n)
  BY <1>7 DEF Allowed, limit
<1> HIDE DEF offers
<1>9. \A j \in DOMAIN nodes : /\ nodes[j] \in Nodes
                             /\ bit_distance(Self.nodeId, nodes[j].nodeId) = w.i
  BY <1>4, ElementOfSeq DEF BucketInv, nodes
<1>10. Found(c)
  <2> SUFFICES ASSUME NEW k \in DOMAIN pq
               PROVE  /\ pq[k].node \in Allowed(c)
                      /\ bit_distance(Self.nodeId, pq[k].node.nodeId) < w.i + 1
    BY <1>7 DEF Found
  <2>1. CASE \E j \in DOMAIN w.pq : pq[k] = w.pq[j]
    <3>1. PICK j \in DOMAIN w.pq : pq[k] = w.pq[j]
      BY <2>1
    <3> DEFINE n == pq[k].node
    <3>2. n \in Allowed(w) /\ bit_distance(Self.nodeId, n.nodeId) < w.i
      BY <1>2, <3>1 DEF ScanOK, Found
    <3>3. bit_distance(Self.nodeId, n.nodeId) \in Nat /\ w.i \in Nat
      BY <1>3, <3>2, NodeTableAssumption DEF Allowed, Buckets
    <3> QED
      BY <1>8, <3>2, <3>3
  <2>2. CASE \E j \in DOMAIN nodes : offers(nodes[j]) /\ pq[k] = Entry(w.key, nodes[j])
    <3>1. PICK j \in DOMAIN nodes : offers(nodes[j]) /\ pq[k] = Entry(w.key, nodes[j])
      BY <2>2
    <3>2. pq[k].node = nodes[j]
      BY <3>1 DEF Entry
    <3> QED
      BY <1>3, <1>8, <1>9, <3>1, <3>2 DEF Buckets
  <2> QED
    BY <1>6, <2>1, <2>2
<1>11. FoundNearest(c)
  <2> SUFFICES ASSUME NEW n \in w.lasting \cap Allowed(w),
                      bit_distance(Self.nodeId, n.nodeId) < w.i + 1
               PROVE  pq # <<>> /\ pq[1].d <= bit_distance(n.nodeId, w.key)
    BY <1>7, <1>8 DEF FoundNearest
  <2> DEFINE d == bit_distance(Self.nodeId, n.nodeId)
  <2>1. n \in Nodes /\ d \in Buckets /\ n \in ToSet(buckets[d])
    BY <1>2, TableByDistance
  <2>2. bit_distance(n.nodeId, w.key) \in Nat
    BY <1>3, <2>1, NodeTableAssumption
  <2>3. pq # <<>> => pq[1].d \in Nat
    BY <1>6, FirstDistance
  <2>4. w.pq # <<>> => w.pq[1].d \in Nat
    BY <1>2, FirstDistance DEF ScanOK
  <2>5. CASE d < w.i
    <3>1. w.pq # <<>> /\ w.pq[1].d <= bit_distance(n.nodeId, w.key)
      BY <1>2, <2>5 DEF ScanOK, FoundNearest
    <3> QED
      BY <1>6, <2>2, <2>3, <2>4, <3>1
  <2>6. CASE d = w.i
    <3>1. PICK j \in DOMAIN nodes : n = nodes[j]
      BY <2>1, <2>6 DEF ToSet, nodes
    <3>2. offers(nodes[j])
      BY <1>8, <2>1, <3>1
    <3> QED
      BY <1>6, <3>1, <3>2, DistanceIsSymmetric
  <2> QED
    BY <1>3, <2>1, <2>5, <2>6 DEF Buckets
<1>12. WalkOK(c)
  BY <1>2, <1>6, <1>7, <1>10, <1>11 DEF WalkOK, ScanOK
<1> QED
  BY <1>1, <1>12, OneWalkMoves

LEMMA PingBucketKeepsWalks ==
  ASSUME WalkInv, NEW t \in Threads, PingBucket(t)
  PROVE  WalkInv'
<1> DEFINE w == calls[t]
           c == [w EXCEPT !.i = @ + 1, !.done = @ \cup pinged']
<1>1. WalkOK(w) /\ TableInv
  BY DEF WalkInv
<1>2. /\ w.op = "ping_all" /\ w.i < HASH_BITS
      /\ pinged' = Others(ToSet(buckets[w.i]))
      /\ calls' = [calls EXCEPT ![t] = c]
      /\ UNCHANGED <<buckets, recency>>
  BY DEF PingBucket
<1> HIDE DEF w
<1>3. /\ w \in PingAll
      /\ w.lasting \subseteq Table(buckets)
      /\ \A n \in w.lasting :
            bit_distance(Self.nodeId, n.nodeId) < w.i =>
               SameNode(n, Self) \/ n \in w.done
  BY <1>1, <1>2, KindsOfCalls DEF PingAllOK
<1>4. w.i \in Buckets /\ w.i + 1 \in 0 .. HASH_BITS
  BY <1>2, <1>3, HashBitsAssumption DEF PingAll, Buckets
<1>5. pinged' \subseteq Nodes
  <2>1. ToSet(buckets[w.i]) \subseteq Table(buckets)
    BY <1>4 DEF Table
  <2> QED
    BY <1>1, <1>2, <2>1, TableByDistance DEF Others
<1>6. /\ c \in PingAll
      /\ c.lasting = w.lasting /\ c.i = w.i + 1 /\ c.done = w.done \cup pinged'
  BY <1>3, <1>4, <1>5 DEF PingAll
<1> HIDE DEF c
<1>7. ASSUME NEW n \in c.lasting, bit_distance(Self.nodeId, n.nodeId) < c.i
      PROVE  SameNode(n, Self) \/ n \in c.done
  <2> DEFINE d == bit_distance(Self.nodeId, n.nodeId)
  <2>1. d \in Buckets /\ n \in ToSet(buckets[d])
    BY <1>1, <1>3, <1>6, <1>7, TableByDistance
  <2>2. CASE d < w.i
    BY <1>3, <1>6, <1>7, <2>2
  <2>3. CASE d = w.i
    BY <1>2, <1>6, <2>1, <2>3 DEF Others
  <2> QED
    BY <1>4, <1>6, <1>7, <2>1, <2>2, <2>3, HashBitsAssumption DEF Buckets
<1>8. WalkOK(c)
  BY <1>3, <1>6, <1>7 DEF WalkOK, PingAllOK
<1> QED
  BY <1>2, <1>8, OneWalkMoves

LEMMA InitWalks == Init => WalkInv
<1> SUFFICES ASSUME Init
             PROVE  WalkInv
  OBVIOUS
<1>1. calls = [t \in Threads |-> calls[t]] /\ \A t \in Threads : calls[t] = Free
  BY DEF Init
<1> QED
  BY <1>1, InitTable DEF WalkInv, WalkOK

LEMMA NextKeepsWalks == WalkInv /\ [Next]_vars => WalkInv'
<1> SUFFICES ASSUME WalkInv, [Next]_vars
             PROVE  WalkInv'
  OBVIOUS
<1>1. ASSUME NEW t \in Threads, NEW n \in Nodes, mark_seen(t, n)
      PROVE  WalkInv'
  BY <1>1, MarkSeenKeepsWalks
<1>2. ASSUME UNCHANGED <<buckets, calls, recency>>
      PROVE  WalkInv'
  BY <1>2 DEF WalkInv, TableInv, BucketInv, WalkOK, Table, ScanOK, PingAllOK, Found,
              FoundNearest, Allowed
<1>3. ASSUME NEW t \in Threads, NEW n \in Nodes, MarkOutOfRange(t, n)
      PROVE  WalkInv'
  BY <1>2, <1>3 DEF MarkOutOfRange
<1>4. ASSUME NEW t \in Threads, NEW key \in Keys, NEW allow \in BOOLEAN,
             BeginScan(t, key, allow)
      PROVE  WalkInv'
  <2> DEFINE T == Table(buckets)
             c == [op |-> "scan", i |-> 0, lasting |-> T,
                   key |-> key, allow_non_euclidian |-> allow, pq |-> <<>>]
  <2>1. calls' = [calls EXCEPT ![t] = c] /\ UNCHANGED <<buckets, recency>>
    BY <1>4 DEF BeginScan
  <2>2. T \subseteq Nodes
    BY TableByDistance DEF WalkInv
  <2>3. \A n \in T : bit_distance(Self.nodeId, n.nodeId) \in Nat
    BY <2>2, NodeTableAssumption
  <2>4. 0 \in 0 .. HASH_BITS /\ <<>> \in Seq(Entries) /\ Len(<<>>) = 0
    BY HashBitsAssumption
  <2>5. c \in Scan /\ c.lasting = T /\ c.i = 0 /\ c.pq = <<>>
    BY <2>2, <2>4 DEF Scan, Entries
  <2>6. InOrder(Entries, alpha, <<>>)
    BY <2>4, NodeTableAssumption DEF InOrder, ByDistance
  <2> HIDE DEF c
  <2>7. Found(c) /\ FoundNearest(c)
    BY <2>3, <2>5 DEF Found, FoundNearest
  <2>8. WalkOK(c)
    BY <2>5, <2>6, <2>7 DEF WalkOK, ScanOK, T
  <2> QED
    BY <2>1, <2>8, OneWalkMoves DEF c
<1>5. ASSUME NEW t \in Threads, ScanBucket(t)
      PROVE  WalkInv'
  BY <1>5, ScanBucketKeepsWalks
<1>6. ASSUME NEW t \in Threads, BeginPingAll(t)
      PROVE  WalkInv'
  <2> DEFINE T == Table(buckets)
             c == [op |-> "ping_all", i |-> 0, lasting |-> T, done |-> {}]
  <2>1. calls' = [calls EXCEPT ![t] = c] /\ UNCHANGED <<buckets, recency>>
    BY <1>6 DEF BeginPingAll
  <2>2. T \subseteq Nodes
    BY TableByDistance DEF WalkInv
  <2>3. \A n \in T : bit_distance(Self.nodeId, n.nodeId) \in Nat
    BY <2>2, NodeTableAssumption
  <2>4. 0 \in 0 .. HASH_BITS
    BY HashBitsAssumption
  <2>5. WalkOK(c)
    BY <2>2, <2>3, <2>4 DEF WalkOK, PingAllOK, PingAll
  <2> QED
    BY <2>1, <2>5, OneWalkMoves
<1>7. ASSUME NEW t \in Threads, PingBucket(t)
      PROVE  WalkInv'
  BY <1>7, PingBucketKeepsWalks
<1>8. ASSUME NEW t \in Threads, Return(t)
      PROVE  WalkInv'
  BY <1>8, OneWalkMoves DEF Return, WalkOK
<1> QED
  BY <1>1, <1>2, <1>3, <1>4, <1>5, <1>6, <1>7, <1>8 DEF Next, vars

THEOREM WalksInvariant == Spec => []WalkInv
  BY InitWalks, NextKeepsWalks, PTL DEF Spec

(***************************************************************************)
(* A node that is in the table during all of a ping_all is pinged by it,   *)
(* although ping_all locks one bucket at a time and nodes are moved, added *)
(* and evicted meanwhile.                                                  *)
(***************************************************************************)
THEOREM PingAllPingsEveryone == Spec => []EveryoneIsPinged
<1>1. WalkInv => EveryoneIsPinged
  <2> SUFFICES ASSUME WalkInv, NEW t \in Threads,
                      calls[t].op = "ping_all", calls[t].i = HASH_BITS,
                      NEW n \in calls[t].lasting
               PROVE  SameNode(n, Self) \/ n \in calls[t].done
    BY DEF EveryoneIsPinged
  <2>1. WalkOK(calls[t]) /\ TableInv
    BY DEF WalkInv
  <2>3. /\ n \in Table(buckets)
        /\ bit_distance(Self.nodeId, n.nodeId) < calls[t].i =>
              SameNode(n, Self) \/ n \in calls[t].done
    BY <2>1, KindsOfCalls DEF PingAllOK
  <2>4. bit_distance(Self.nodeId, n.nodeId) \in Buckets
    BY <2>1, <2>3, TableByDistance
  <2> QED
    BY <2>3, <2>4, HashBitsAssumption DEF Buckets
<1> QED
  BY <1>1, WalksInvariant, PTL

(***************************************************************************)
(* get_better_nodes, although it locks one bucket at a time and drops the  *)
(* last entry of a list that grows to alpha: the first node that it has is *)
(* as near to the key as every allowed node in the table during the call.  *)
(***************************************************************************)
THEOREM ScanReturnsNearest == Spec => []ScanFindsNearest
<1>1. WalkInv => ScanFindsNearest
  <2> SUFFICES ASSUME WalkInv, NEW t \in Threads,
                      calls[t].op = "scan", calls[t].i = HASH_BITS,
                      NEW n \in calls[t].lasting \cap Allowed(calls[t])
               PROVE  /\ calls[t].pq # <<>>
                      /\ calls[t].pq[1].d <= bit_distance(n.nodeId, calls[t].key)
    BY DEF ScanFindsNearest
  <2>1. TableInv /\ ScanOK(calls[t]) /\ n \in Table(buckets)
    BY KindsOfCalls DEF WalkInv
  <2>2. bit_distance(Self.nodeId, n.nodeId) \in Buckets
    BY <2>1, TableByDistance
  <2> QED
    BY <2>1, <2>2, HashBitsAssumption DEF Buckets, ScanOK, FoundNearest
<1> QED
  BY <1>1, WalksInvariant, PTL

(***************************************************************************)
(* What a scan has at any time is sorted, allowed, and has no record twice *)
(* although nodes move while it goes from bucket to bucket.                *)
(***************************************************************************)
THEOREM ScansAreWellFormed == Spec => []ScanWellFormed
<1>1. WalkInv => ScanWellFormed
  <2> SUFFICES ASSUME WalkInv, NEW t \in Threads, calls[t].op = "scan",
                      NEW i \in DOMAIN calls[t].pq
               PROVE  /\ calls[t].pq[i].node \in Allowed(calls[t])
                      /\ \A j \in DOMAIN calls[t].pq : i < j =>
                            /\ calls[t].pq[i].d <= calls[t].pq[j].d
                            /\ calls[t].pq[i].node # calls[t].pq[j].node
    BY DEF ScanWellFormed
  <2>1. ScanOK(calls[t])
    BY KindsOfCalls DEF WalkInv
  <2> QED
    BY <2>1 DEF ScanOK, Found, InOrder, ByDistance
<1> QED
  BY <1>1, WalksInvariant, PTL

\* What a step pings, or leaves unpinged.
PingedOK == out_of_range \in BOOLEAN /\ pinged \subseteq Nodes

LEMMA EvictedAreNodes ==
  ASSUME NEW list \in Seq(Nodes), NEW n \in Nodes
  PROVE  LET evicted == Evicted(Seen(list, n))
         IN  evicted = {} \/ \E m \in Nodes : evicted = {m}
<1> DEFINE s == Seen(list, n)
<1>1. s \in Seq(Nodes) /\ \E p \in 1 .. Len(list) + 1 : MovedToFront(s, list, n, p)
  BY SeenMoves
<1> HIDE DEF s
<1>2. Len(s) \in Nat /\ bucketSize \in Nat \ {0}
  BY <1>1, LenProperties, NodeTableAssumption
<1>3. Len(s) >= bucketSize => s[Len(s)] \in Nodes
  BY <1>1, <1>2, ElementOfSeq
<1> QED
  BY <1>3 DEF Evicted, Last, s

LEMMA NextKeepsPinged == WalkInv /\ PingedOK /\ [Next]_vars => PingedOK'
<1> SUFFICES ASSUME WalkInv, PingedOK, [Next]_vars
             PROVE  PingedOK'
  OBVIOUS
<1> USE DEF PingedOK
<1>1. ASSUME NEW t \in Threads, NEW n \in Nodes, mark_seen(t, n)
      PROVE  PingedOK'
  <2> DEFINE d == bit_distance(Self.nodeId, n.nodeId)
  <2>1. d \in Buckets /\ pinged' = Others(Evicted(Seen(buckets[d], n)))
        /\ out_of_range' = out_of_range
    BY <1>1 DEF mark_seen
  <2> QED
    BY <2>1, EvictedAreNodes DEF WalkInv, TableInv, Others
<1>2. ASSUME NEW t \in Threads, PingBucket(t)
      PROVE  PingedOK'
  <2> DEFINE i == calls[t].i
  <2>1. PingAllOK(calls[t]) /\ i < HASH_BITS
    BY <1>2, KindsOfCalls DEF PingBucket, WalkInv
  <2>2. i \in Buckets
    BY <2>1, HashBitsAssumption DEF PingAllOK, PingAll, Buckets
  <2>3. ToSet(buckets[i]) \subseteq Nodes
    BY <2>2, TableByDistance DEF WalkInv, Table
  <2> QED
    BY <1>2, <2>3 DEF PingBucket, Others
<1> QED
  BY <1>1, <1>2 DEF Next, MarkOutOfRange, BeginScan, ScanBucket, BeginPingAll, Return, vars

\* Every variable has its type, the lists of the scans with their bound.
THEOREM TypeCorrect == Spec => []TypeOK
<1>1. Init => PingedOK
  BY DEF Init, PingedOK
<1>2. WalkInv /\ PingedOK => TypeOK
  <2> SUFFICES ASSUME WalkInv, PingedOK
               PROVE  TypeOK
    OBVIOUS
  <2>1. \A t \in Threads : calls[t] \in {Free} \cup Scan \cup PingAll
    BY DEF WalkInv, WalkOK, ScanOK, PingAllOK
  <2>2. calls \in [Threads -> {Free} \cup Scan \cup PingAll]
    BY <2>1 DEF WalkInv
  <2>3. \A t \in Threads : calls[t].op = "scan" =>
           Len(calls[t].pq) < alpha \/ Len(calls[t].pq) = 1
    BY KindsOfCalls DEF WalkInv, ScanOK, InOrder
  <2> QED
    BY <2>2, <2>3 DEF TypeOK, WalkInv, TableInv, Addrs, PingedOK
<1> QED
  BY <1>1, <1>2, NextKeepsPinged, WalksInvariant, PTL DEF Spec

=============================================================================
