-------------------------- MODULE LifecycleProofs ---------------------------
(***************************************************************************)
(* Theorems about one node from start to exit, for any file, any sequence  *)
(* of starts, crashes and exits, and any size of hashes: what becomes of   *)
(* the parameters, what every process finds in memory, and that the table  *)
(* of init_util makes bit_distance count bits.                             *)
(*                                                                         *)
(* In this order: counting and powers of 2; the bits of a number; the      *)
(* table, Xor and the distance of two hashes; the file; a file without a   *)
(* port; types, and the distance in a process that runs.                   *)
(***************************************************************************)
EXTENDS Lifecycle, FiniteSetTheorems, NaturalsInduction, WellFoundedInduction, TLAPS

-----------------------------------------------------------------------------
\* Every non-empty set of naturals has a least element.
LEMMA LeastOf ==
  ASSUME NEW T \in SUBSET Nat, T # {}
  PROVE  \E x \in T : \A y \in T : x <= y
<1> DEFINE R == {p \in Nat \X Nat : p[1] < p[2]}
<1>1. R = OpToRel(<, Nat)
  BY DEF OpToRel
<1>2. IsWellFoundedOn(R, Nat)
  BY <1>1, NatLessThanWellFounded
<1>3. PICK x \in T : \A y \in T : ~(<<y, x>> \in R)
  <2> HIDE DEF R
  <2> QED
    BY <1>2, WFMin
<1>4. \A y \in T : /\ <<y, x>> \in Nat \X Nat
                   /\ <<y, x>>[1] = y
                   /\ <<y, x>>[2] = x
  OBVIOUS
<1>5. \A y \in T : ~(y < x)
  BY <1>3, <1>4
<1> QED
  BY <1>5

\* What holds of 0, and of n + 1 if of n, holds of every natural.
LEMMA Induction ==
  ASSUME NEW T \in SUBSET Nat, 0 \in T, \A n \in Nat : n \in T => n + 1 \in T
  PROVE  T = Nat
<1> SUFFICES ASSUME Nat \ T # {}
             PROVE  FALSE
  OBVIOUS
<1>1. PICK x \in Nat \ T : \A y \in Nat \ T : x <= y
  BY LeastOf
<1>2. x # 0 /\ x - 1 \in Nat /\ (x - 1) + 1 = x /\ ~(x <= x - 1)
  BY <1>1
<1>3. x - 1 \in T
  BY <1>1, <1>2
<1> QED
  BY <1>1, <1>2, <1>3

\* What a one-to-one function maps onto T is as large as T.
LEMMA SameSize ==
  ASSUME NEW S, NEW T, NEW F \in [S -> T], IsFiniteSet(S),
         \A x, y \in S : F[x] = F[y] => x = y,
         \A y \in T : \E x \in S : F[x] = y
  PROVE  IsFiniteSet(T) /\ Cardinality(T) = Cardinality(S)
<1>1. F \in Bijection(S, T)
  BY DEF Bijection, Injection, Surjection, IsInjective
<1>2. ExistsBijection(S, T)
  BY <1>1 DEF ExistsBijection
<1> QED
  BY <1>2, FS_Bijection

\* Sets with nothing in common add up.
LEMMA DisjointSum ==
  ASSUME NEW S, NEW T, IsFiniteSet(S), IsFiniteSet(T), S \cap T = {}
  PROVE  /\ IsFiniteSet(S \cup T)
         /\ Cardinality(S \cup T) = Cardinality(S) + Cardinality(T)
         /\ Cardinality(S) \in Nat /\ Cardinality(T) \in Nat
<1>1. /\ IsFiniteSet(S \cup T)
      /\ Cardinality(S \cup T) = Cardinality(S) + Cardinality(T) - Cardinality(S \cap T)
  BY FS_Union
<1>2. Cardinality(S) \in Nat /\ Cardinality(T) \in Nat /\ Cardinality(S \cap T) = 0
  BY FS_CardinalityType, FS_EmptySet
<1> QED
  BY <1>1, <1>2

-----------------------------------------------------------------------------
\* 2 ^ n is the number of subsets of 1 .. n, and so doubles with n + 1.
LEMMA PowerStep ==
  /\ 2 ^ 0 = 1
  /\ \A n \in Nat : 2 ^ n \in Nat /\ 2 ^ (n + 1) = 2 * 2 ^ n
<1>1. 2 ^ 0 = 1
  OBVIOUS
<1>2. ASSUME NEW n \in Nat
      PROVE  2 ^ n \in Nat /\ 2 ^ (n + 1) = 2 * 2 ^ n
  <2> DEFINE S == 1 .. n
             with == { T \cup {n + 1} : T \in SUBSET S }
             F == [T \in SUBSET S |-> T \cup {n + 1}]
  <2>1. /\ IsFiniteSet(S) /\ Cardinality(S) = n
        /\ IsFiniteSet(1 .. n + 1) /\ Cardinality(1 .. n + 1) = n + 1
    BY FS_Interval
  <2>2. /\ IsFiniteSet(SUBSET S) /\ Cardinality(SUBSET S) = 2 ^ n
        /\ Cardinality(SUBSET (1 .. n + 1)) = 2 ^ (n + 1)
    BY <2>1, FS_SUBSET
  <2>3. n + 1 \notin S /\ 1 .. n + 1 = S \cup {n + 1}
    OBVIOUS
  <2> HIDE DEF S
  <2>4. IsFiniteSet(with) /\ Cardinality(with) = Cardinality(SUBSET S)
    <3>1. F \in [SUBSET S -> with]
      OBVIOUS
    <3>2. \A T \in SUBSET S : F[T] = T \cup {n + 1} /\ F[T] \ {n + 1} = T
      BY <2>3
    <3>3. \A T, U \in SUBSET S : F[T] = F[U] => T = U
      BY <3>2
    <3>4. \A W \in with : \E T \in SUBSET S : F[T] = W
      OBVIOUS
    <3> HIDE DEF F, with
    <3> QED
      BY <2>2, <3>1, <3>3, <3>4, SameSize
  <2>5. SUBSET (1 .. n + 1) = (SUBSET S) \cup with
    <3>1. ASSUME NEW W \in SUBSET (S \cup {n + 1}), n + 1 \in W
          PROVE  W \in with
      <4>1. W \ {n + 1} \in SUBSET S /\ (W \ {n + 1}) \cup {n + 1} = W
        BY <3>1
      <4> QED
        BY <4>1
    <3>2. ASSUME NEW W \in with
          PROVE  W \in SUBSET (S \cup {n + 1})
      OBVIOUS
    <3> QED
      BY <2>3, <3>1, <3>2
  <2>6. (SUBSET S) \cap with = {}
    BY <2>3
  <2> HIDE DEF with
  <2>7. Cardinality((SUBSET S) \cup with) = Cardinality(SUBSET S) + Cardinality(with)
        /\ Cardinality(SUBSET S) \in Nat
    BY <2>2, <2>4, <2>6, DisjointSum
  <2>8. 2 ^ (n + 1) = 2 ^ n + 2 ^ n /\ 2 ^ n \in Nat
    BY <2>2, <2>4, <2>5, <2>7
  <2> QED
    BY <2>8
<1> QED
  BY <1>1, <1>2

\* The powers of 2 grow, and 2 ^ (m + n) = 2 ^ m * 2 ^ n.
LEMMA Powers ==
  ASSUME NEW m \in Nat, NEW n \in Nat
  PROVE  /\ 2 ^ m \in Nat \ {0}
         /\ 2 ^ (m + n) = 2 ^ m * 2 ^ n
<1>1. \A k \in Nat : 2 ^ k \in Nat \ {0}
  <2> DEFINE T == { k \in Nat : 2 ^ k \in Nat \ {0} }
  <2>1. 0 \in T
    BY PowerStep
  <2>2. ASSUME NEW k \in Nat, k \in T
        PROVE  k + 1 \in T
    <3>1. 2 ^ k \in Nat \ {0} /\ 2 ^ (k + 1) = 2 * 2 ^ k
      BY <2>2, PowerStep
    <3> QED
      BY <3>1
  <2> HIDE DEF T
  <2>3. T = Nat
    <3>1. T \in SUBSET Nat
      BY DEF T
    <3> QED
      BY <2>1, <2>2, <3>1, Induction
  <2> QED
    BY <2>3 DEF T
<1>2. \A k \in Nat : 2 ^ (m + k) = 2 ^ m * 2 ^ k
  <2> DEFINE T == { k \in Nat : 2 ^ (m + k) = 2 ^ m * 2 ^ k }
  <2>1. 0 \in T
    <3>1. m + 0 = m /\ 2 ^ m * 1 = 2 ^ m
      BY <1>1
    <3>2. 2 ^ 0 = 1
      BY PowerStep
    <3> QED
      BY <3>1, <3>2
  <2>2. ASSUME NEW k \in Nat, k \in T
        PROVE  k + 1 \in T
    <3>1. m + (k + 1) = (m + k) + 1 /\ m + k \in Nat
      OBVIOUS
    <3>2. 2 ^ ((m + k) + 1) = 2 * 2 ^ (m + k) /\ 2 ^ (k + 1) = 2 * 2 ^ k
      BY <3>1, PowerStep
    <3>3. 2 ^ (m + k) = 2 ^ m * 2 ^ k
      BY <2>2
    <3>4. 2 * (2 ^ m * 2 ^ k) = 2 ^ m * (2 * 2 ^ k)
      <4>1. \A x, y \in Nat : 2 * (x * y) = x * (2 * y)
        OBVIOUS
      <4> QED
        BY <1>1, <4>1
    <3> QED
      BY <3>1, <3>2, <3>3, <3>4
  <2> HIDE DEF T
  <2>3. T = Nat
    <3>1. T \in SUBSET Nat
      BY DEF T
    <3> QED
      BY <2>1, <2>2, <3>1, Induction
  <2> QED
    BY <2>3 DEF T
<1> QED
  BY <1>1, <1>2

-----------------------------------------------------------------------------
\* The sum of all f[i].
Total(f) == FoldFunction(+, 0, f)

\* The pairs of an index and a member of its set.
Pairs(D, U, Q) == { c \in D \X U : c[2] \in Q[c[1]] }

(***************************************************************************)
(* A sum of sizes is the size of the disjoint union: the addition of the   *)
(* terms of f, in whatever order FoldFunction takes them, counts the pairs *)
(* <<i, q>> with q in Q[i].                                                *)
(***************************************************************************)
LEMMA SumCountsPairs ==
  ASSUME NEW D, NEW U, NEW f, NEW Q \in [D -> SUBSET U], DOMAIN f = D, IsFiniteSet(D),
         \A i \in D : IsFiniteSet(Q[i]) /\ f[i] = Cardinality(Q[i])
  PROVE  /\ IsFiniteSet(Pairs(D, U, Q))
         /\ Total(f) = Cardinality(Pairs(D, U, Q))
<1> DEFINE P(s) == { c \in s \X U : c[2] \in Q[c[1]] }
<1>1. \A s \in SUBSET D : IsFiniteSet(s) /\ IsFiniteSet(P(s))
  <2> DEFINE V == UNION { Q[i] : i \in D }
  <2>1. IsFiniteSet(V)
    <3> DEFINE QQ == { Q[i] : i \in D }
    <3>1. IsFiniteSet(QQ)
      <4>1. [i \in D |-> Q[i]] \in Surjection(D, QQ)
        BY DEF Surjection
      <4> QED
        BY <4>1, FS_Surjection
    <3>2. \A T \in QQ : IsFiniteSet(T)
      OBVIOUS
    <3> HIDE DEF QQ
    <3>3. IsFiniteSet(UNION QQ)
      BY <3>1, <3>2, FS_UNION
    <3> QED
      BY <3>3 DEF QQ
  <2>2. IsFiniteSet(D \X V)
    BY <2>1, FS_Product
  <2>3. ASSUME NEW s \in SUBSET D
        PROVE  P(s) \in SUBSET (D \X V)
    OBVIOUS
  <2> HIDE DEF V, P
  <2> QED
    BY <2>2, <2>3, FS_Subset
<1>2. ASSUME NEW s \in SUBSET D, NEW x \in s
      PROVE  Cardinality(P(s)) = f[x] + Cardinality(P(s \ {x}))
  <2> DEFINE X == { c \in {x} \X U : c[2] \in Q[x] }
             F == [q \in Q[x] |-> <<x, q>>]
  <2>1. IsFiniteSet(X) /\ Cardinality(X) = Cardinality(Q[x])
    <3>1. IsFiniteSet(Q[x]) /\ Q[x] \subseteq U
      OBVIOUS
    <3>2. F \in [Q[x] -> X]
      BY <3>1
    <3>3. \A q, r \in Q[x] : F[q] = F[r] => q = r
      OBVIOUS
    <3>4. \A c \in X : \E q \in Q[x] : F[q] = c
      OBVIOUS
    <3> HIDE DEF F, X
    <3> QED
      BY <3>1, <3>2, <3>3, <3>4, SameSize
  <2>2. P(s) = X \cup P(s \ {x})
    OBVIOUS
  <2>3. X \cap P(s \ {x}) = {}
    OBVIOUS
  <2>4. IsFiniteSet(P(s \ {x})) /\ f[x] = Cardinality(Q[x])
    BY <1>1
  <2> HIDE DEF X, P
  <2>5. Cardinality(X \cup P(s \ {x})) = Cardinality(X) + Cardinality(P(s \ {x}))
    BY <2>1, <2>3, <2>4, DisjointSum
  <2> QED
    BY <2>1, <2>2, <2>4, <2>5
<1> DEFINE sum(g, s) == IF s = {} THEN 0
                        ELSE LET x == CHOOSE x \in s : TRUE
                             IN  f[x] + g[s \ {x}]
           counts == [s \in SUBSET D |-> Cardinality(P(s))]
           iter == CHOOSE g : g = [s \in SUBSET D |-> sum(g, s)]
<1>3. Total(f) = iter[D]
  BY DEF Total, FoldFunction, FoldFunctionOnSet, MapThenFoldSet
<1>4. counts = [s \in SUBSET D |-> sum(counts, s)]
  <2> SUFFICES ASSUME NEW s \in SUBSET D
               PROVE  Cardinality(P(s)) = sum(counts, s)
    OBVIOUS
  <2>1. CASE s = {}
    <3>1. P(s) = {}
      BY <2>1
    <3> HIDE DEF P
    <3> QED
      BY <2>1, <3>1, FS_EmptySet
  <2>2. CASE s # {}
    <3> DEFINE x == CHOOSE x \in s : TRUE
    <3>1. x \in s /\ s \ {x} \in SUBSET D
      BY <2>2
    <3>2. counts[s \ {x}] = Cardinality(P(s \ {x}))
      BY <3>1
    <3> HIDE DEF P, counts
    <3> QED
      BY <1>2, <2>2, <3>1, <3>2
  <2> QED
    BY <2>1, <2>2
<1> HIDE DEF counts, P
<1>5. iter = [s \in SUBSET D |-> sum(iter, s)]
  <2> HIDE DEF sum
  <2>1. \E g : g = [s \in SUBSET D |-> sum(g, s)]
    BY <1>4
  <2> QED
    BY <2>1
<1> HIDE DEF iter
<1>6. \A s \in SUBSET D : iter[s] = Cardinality(P(s))
  <2> DEFINE Bad == { n \in Nat : \E s \in SUBSET D : /\ Cardinality(s) = n
                                                     /\ iter[s] # Cardinality(P(s)) }
  <2>1. SUFFICES ASSUME Bad # {}
                 PROVE  FALSE
    BY <1>1, FS_CardinalityType
  <2>2. PICK n \in Bad : \A m \in Bad : n <= m
    <3>1. Bad \in SUBSET Nat
      OBVIOUS
    <3> HIDE DEF Bad
    <3> QED
      BY <2>1, <3>1, LeastOf
  <2>3. PICK s \in SUBSET D : Cardinality(s) = n /\ iter[s] # Cardinality(P(s))
    OBVIOUS
  <2>4. s # {}
    <3>1. P({}) = {}
      BY DEF P
    <3> QED
      BY <1>5, <2>3, <3>1, FS_EmptySet
  <2> DEFINE x == CHOOSE x \in s : TRUE
  <2>5. x \in s /\ s \ {x} \in SUBSET D
    BY <2>4
  <2>6. Cardinality(s \ {x}) = n - 1 /\ n \in Nat /\ Cardinality(s \ {x}) \in Nat
    BY <1>1, <2>3, <2>5, FS_RemoveElement, FS_CardinalityType
  <2>7. n - 1 \notin Bad
    <3>1. n - 1 \in Nat /\ ~(n <= n - 1)
      BY <2>6
    <3> HIDE DEF Bad
    <3> QED
      BY <2>2, <3>1
  <2>8. iter[s \ {x}] = Cardinality(P(s \ {x}))
    BY <2>5, <2>6, <2>7
  <2>9. iter[s] = f[x] + iter[s \ {x}]
    BY <1>5, <2>4
  <2> HIDE DEF x
  <2> QED
    BY <1>2, <2>3, <2>5, <2>8, <2>9
<1> QED
  BY <1>1, <1>3, <1>6 DEF P, Pairs

-----------------------------------------------------------------------------
(***************************************************************************)
(* The bits of a number, and those of its lower and its upper part.        *)
(***************************************************************************)

\* A multiple of 2 * q changes no bit below.
LEMMA QuotientOfSum ==
  ASSUME NEW v \in Nat, NEW q \in Nat \ {0}, NEW r \in Nat
  PROVE  ((v + q * (2 * r)) \div q) % 2 = (v \div q) % 2
<1> DEFINE s == 2 * r
<1>1. s \in Nat
  OBVIOUS
<1> HIDE DEF s
<1>2. (v + q * s) \div q = (v \div q) + s
  BY <1>1
<1>3. v \div q \in Nat
  OBVIOUS
<1>4. \A d \in Nat : (d + 2 * r) % 2 = d % 2
  OBVIOUS
<1> QED
  BY <1>2, <1>3, <1>4 DEF s

\* A bit is 0 or 1, and 0 above the number.
LEMMA BitsOf ==
  ASSUME NEW v \in Nat, NEW p \in Nat
  PROVE  Bit(v, p) \in {0, 1} /\ (v < 2 ^ p => Bit(v, p) = 0)
<1> DEFINE q == 2 ^ p
<1>1. q \in Nat \ {0}
  BY Powers
<1> HIDE DEF q
<1>2. v \div q \in Nat /\ (v < q => v \div q = 0)
  BY <1>1
<1>3. \A d \in Nat : d % 2 \in {0, 1}
  OBVIOUS
<1>4. 0 % 2 = 0
  OBVIOUS
<1> QED
  BY <1>2, <1>3, <1>4 DEF Bit, q

\* The bits from bit k on are those of v divided by 2 ^ k.
LEMMA HighBits ==
  ASSUME NEW v \in Nat, NEW k \in Nat, NEW p \in Nat
  PROVE  Bit(v, k + p) = Bit(v \div 2 ^ k, p)
<1> DEFINE a == 2 ^ k
           q == 2 ^ p
<1>1. a \in Nat \ {0} /\ q \in Nat \ {0} /\ 2 ^ (k + p) = a * q
  BY Powers
<1> HIDE DEF a, q
<1>2. v \div (a * q) = (v \div a) \div q
  BY <1>1
<1> QED
  BY <1>1, <1>2 DEF Bit, a, q

\* A multiple of 2 ^ k does not touch the bits below bit k.
LEMMA BitsBelow ==
  ASSUME NEW v \in Nat, NEW d \in Nat, NEW k \in Nat, NEW p \in 0 .. k - 1
  PROVE  Bit(v + 2 ^ k * d, p) = Bit(v, p)
<1> DEFINE q == 2 ^ p
           r == 2 ^ (k - (p + 1))
<1>1. k - (p + 1) \in Nat /\ p \in Nat /\ p + 1 \in Nat /\ k = (p + 1) + (k - (p + 1))
  OBVIOUS
<1>2. q \in Nat \ {0} /\ r \in Nat \ {0} /\ 2 ^ k = 2 ^ (p + 1) * r /\ 2 ^ (p + 1) = 2 * q
  BY <1>1, Powers, PowerStep
<1> HIDE DEF q, r
<1>3. 2 ^ k = (2 * q) * r
  BY <1>2
<1>4. ((2 * q) * r) * d = q * (2 * (r * d)) /\ r * d \in Nat
  BY <1>2
<1>5. 2 ^ k * d = q * (2 * (r * d))
  BY <1>3, <1>4
<1> DEFINE x == r * d
<1> HIDE DEF x
<1>6. ((v + q * (2 * x)) \div q) % 2 = (v \div q) % 2
  BY <1>2, <1>4, QuotientOfSum DEF x
<1> QED
  BY <1>5, <1>6 DEF Bit, q, x

\* The bits below bit k are those of the remainder.
LEMMA LowBits ==
  ASSUME NEW v \in Nat, NEW k \in Nat, NEW p \in 0 .. k - 1
  PROVE  Bit(v % 2 ^ k, p) = Bit(v, p)
<1> DEFINE m == 2 ^ k
           l == v % m
           d == v \div m
<1>1. m \in Nat \ {0}
  BY Powers
<1> HIDE DEF m
<1>2. l \in Nat /\ d \in Nat /\ l = v - m * d /\ m * d \in Int
  BY <1>1
<1>3. v = l + m * d
  <2> HIDE DEF l, d
  <2> QED
    BY <1>2
<1> HIDE DEF l, d
<1>4. Bit(l + 2 ^ k * d, p) = Bit(l, p)
  <2>1. l \in Nat /\ d \in Nat
    BY <1>2
  <2> QED
    BY <2>1, BitsBelow
<1> QED
  BY <1>3, <1>4 DEF l, m

\* The bits of v below bit n that are set.
BitsSet(v, n) == { p \in 0 .. n - 1 : Bit(v, p) = 1 }

\* There are finitely many of them.
LEMMA BitsAreFinite ==
  ASSUME NEW v, NEW n \in Nat
  PROVE  IsFiniteSet(BitsSet(v, n)) /\ Cardinality(BitsSet(v, n)) \in Nat
<1>1. IsFiniteSet(0 .. n - 1)
  BY FS_Interval
<1>2. BitsSet(v, n) \in SUBSET (0 .. n - 1)
  BY DEF BitsSet
<1> QED
  BY <1>1, <1>2, FS_Subset, FS_CardinalityType

\* The bits of a number are those of its lower k bits and of the rest.
LEMMA BitsSplit ==
  ASSUME NEW v \in Nat, NEW k \in Nat, NEW n \in Nat
  PROVE  Cardinality(BitsSet(v, k + n)) =
            Cardinality(BitsSet(v % 2 ^ k, k)) + Cardinality(BitsSet(v \div 2 ^ k, n))
<1> DEFINE low  == BitsSet(v % 2 ^ k, k)
           up   == BitsSet(v \div 2 ^ k, n)
           high == { p \in k .. k + n - 1 : Bit(v, p) = 1 }
           F == [p \in up |-> k + p]
<1>1. low = BitsSet(v, k)
  BY LowBits DEF BitsSet
<1>2. \A p \in Nat : Bit(v, k + p) = Bit(v \div 2 ^ k, p)
  BY HighBits
<1>3. IsFiniteSet(high) /\ Cardinality(high) = Cardinality(up)
  <2>1. \A p \in 0 .. n - 1 : p \in up <=> k + p \in high
    BY <1>2 DEF BitsSet
  <2>2. up \subseteq 0 .. n - 1
    BY DEF BitsSet
  <2>3. F \in [up -> high] /\ \A p, q \in up : F[p] = F[q] => p = q
    <3>1. \A p \in up : p \in Int /\ F[p] = k + p /\ F[p] \in high
      BY <2>1, <2>2
    <3> QED
      BY <3>1
  <2>4. \A p \in high : \E q \in up : F[q] = p
    <3> SUFFICES ASSUME NEW p \in high
                 PROVE  \E q \in up : F[q] = p
      OBVIOUS
    <3>1. p - k \in 0 .. n - 1 /\ k + (p - k) = p
      OBVIOUS
    <3>2. p - k \in up
      BY <2>1, <3>1
    <3> QED
      BY <3>1, <3>2
  <2> HIDE DEF high, up, F
  <2>5. IsFiniteSet(up)
    BY BitsAreFinite DEF up
  <2> QED
    BY <2>3, <2>4, <2>5, SameSize
<1>4. BitsSet(v, k + n) = BitsSet(v, k) \cup high
  <2>1. \A p : p \in 0 .. k + n - 1 <=> p \in 0 .. k - 1 \/ p \in k .. k + n - 1
    OBVIOUS
  <2> QED
    BY <2>1 DEF BitsSet
<1>5. BitsSet(v, k) \cap high = {}
  BY DEF BitsSet
<1> HIDE DEF high, up, low
<1>6. IsFiniteSet(BitsSet(v, k))
  BY BitsAreFinite
<1>7. Cardinality(BitsSet(v, k) \cup high) = Cardinality(BitsSet(v, k)) + Cardinality(high)
  BY <1>3, <1>5, <1>6, DisjointSum
<1> QED
  BY <1>1, <1>3, <1>4, <1>7 DEF low, up

-----------------------------------------------------------------------------
\* The size of the table and of a word are powers of 2.
LEMMA HalfWord ==
  /\ HALF_BITS \in Nat \ {0} /\ HALF_WORD \in Nat \ {0}
  /\ 2 ^ (2 * HALF_BITS) = HALF_WORD * HALF_WORD
  /\ \E n \in Nat : HALF_BITS = 1 + n /\ HALF_WORD = 2 * 2 ^ n /\ 2 ^ n \in Nat \ {0}
<1>1. HALF_BITS \in Nat \ {0} /\ 2 * HALF_BITS = HALF_BITS + HALF_BITS
  BY DistanceAssumption
<1>2. HALF_WORD \in Nat \ {0} /\ 2 ^ (2 * HALF_BITS) = HALF_WORD * HALF_WORD
  BY <1>1, Powers DEF HALF_WORD
<1>3. HALF_BITS - 1 \in Nat /\ HALF_BITS = (HALF_BITS - 1) + 1
  BY <1>1
<1>4. 2 ^ HALF_BITS = 2 * 2 ^ (HALF_BITS - 1) /\ 2 ^ (HALF_BITS - 1) \in Nat \ {0}
  BY <1>3, Powers, PowerStep
<1>5. HALF_BITS = 1 + (HALF_BITS - 1)
  BY <1>3
<1> QED
  BY <1>1, <1>2, <1>3, <1>4, <1>5 DEF HALF_WORD

(***************************************************************************)
(* The table has for every half word the number of its bits: the function  *)
(* that has is one that init_util's recursion describes, and the only one. *)
(***************************************************************************)
LEMMA TableCounts ==
  /\ BitCounts = [v \in 0 .. HALF_WORD - 1 |-> Cardinality(BitsSet(v, HALF_BITS))]
  /\ BitCounts \in [0 .. HALF_WORD - 1 -> Nat]
<1> DEFINE H == 0 .. HALF_WORD - 1
           c == [v \in H |-> Cardinality(BitsSet(v, HALF_BITS))]
           next(g, v) == IF v = 0 THEN 0 ELSE (v % 2) + g[v \div 2]
<1>1. ASSUME NEW v \in H
      PROVE  v \in Nat /\ v \div 2 \in H /\ (v # 0 => v \div 2 < v)
  BY <1>1, HalfWord
<1>2. ASSUME NEW v \in H
      PROVE  c[v] = next(c, v)
  <2>1. CASE v = 0
    <3>1. \A p \in Nat : Bit(0, p) = 0
      <4> SUFFICES ASSUME NEW p \in Nat
                   PROVE  Bit(0, p) = 0
        OBVIOUS
      <4>1. 2 ^ p \in Nat \ {0}
        BY Powers
      <4> QED
        BY <4>1, BitsOf
    <3>2. BitsSet(0, HALF_BITS) = {}
      BY <3>1 DEF BitsSet
    <3> QED
      BY <2>1, <3>2, FS_EmptySet
  <2>2. CASE v # 0
    <3>1. PICK n \in Nat : HALF_BITS = 1 + n /\ HALF_WORD = 2 * 2 ^ n /\ 2 ^ n \in Nat \ {0}
      BY HalfWord
    <3> DEFINE w == v \div 2
               u == v % 2
    <3>2. w \in H /\ w \in Nat /\ v \in Nat /\ u \in {0, 1}
      BY <1>1
    <3>3. 2 ^ 1 = 2
      OBVIOUS
    <3>4. Cardinality(BitsSet(v, HALF_BITS)) =
             Cardinality(BitsSet(u, 1)) + Cardinality(BitsSet(w, n))
      <4> SUFFICES ASSUME NEW k, k = 1
                   PROVE  Cardinality(BitsSet(v, k + n)) =
                             Cardinality(BitsSet(u, k)) + Cardinality(BitsSet(w, n))
        BY <3>1
      <4>1. k \in Nat
        OBVIOUS
      <4>2. Cardinality(BitsSet(v, k + n)) =
               Cardinality(BitsSet(v % 2 ^ k, k)) + Cardinality(BitsSet(v \div 2 ^ k, n))
        BY <3>2, <4>1, BitsSplit
      <4>3. 2 ^ k = 2
        BY <3>3
      <4> HIDE DEF u, w
      <4> QED
        BY <4>2, <4>3 DEF u, w
    <3>5. Cardinality(BitsSet(u, 1)) = u
      <4>1. u < 2 ^ 0 => Bit(u, 0) = 0
        BY <3>2, BitsOf
      <4>2. 2 ^ 0 = 1
        BY PowerStep
      <4>3. Bit(u, 0) = u
        BY <3>2, <4>2 DEF Bit
      <4>4. BitsSet(u, 1) = IF u = 1 THEN {0} ELSE {}
        BY <3>2, <4>3 DEF BitsSet
      <4> HIDE DEF u
      <4> QED
        BY <3>2, <4>4, FS_EmptySet, FS_Singleton
    <3>6. BitsSet(w, HALF_BITS) = BitsSet(w, n)
      <4>1. w < 2 ^ n
        BY <3>1, <3>2
      <4>2. Bit(w, n) = 0
        BY <3>2, <4>1, BitsOf
      <4>3. \A p : p \in 0 .. HALF_BITS - 1 <=> p \in 0 .. n - 1 \/ p = n
        BY <3>1
      <4> QED
        BY <4>2, <4>3 DEF BitsSet
    <3> QED
      BY <2>2, <3>2, <3>4, <3>5, <3>6
  <2> QED
    BY <2>1, <2>2
<1>3. c = [v \in H |-> next(c, v)]
  BY <1>2
<1>4. BitCounts = CHOOSE g : g = [v \in H |-> next(g, v)]
  BY DEF BitCounts
<1>5. BitCounts = [v \in H |-> next(BitCounts, v)]
  <2> HIDE DEF next, c, H
  <2>1. \E g : g = [v \in H |-> next(g, v)]
    BY <1>3
  <2> QED
    BY <1>4, <2>1
<1>6. \A v \in H : BitCounts[v] = c[v]
  <2> DEFINE Bad == { v \in H : BitCounts[v] # c[v] }
  <2>1. SUFFICES ASSUME Bad # {}
                 PROVE  FALSE
    OBVIOUS
  <2>2. PICK v \in Bad : \A u \in Bad : v <= u
    <3>1. Bad \in SUBSET Nat
      BY <1>1
    <3> HIDE DEF Bad
    <3> QED
      BY <2>1, <3>1, LeastOf
  <2>3. v \in H /\ BitCounts[v] # c[v]
    OBVIOUS
  <2> HIDE DEF Bad, c, H
  <2>4. BitCounts[v] = next(BitCounts, v) /\ c[v] = next(c, v)
    BY <1>2, <1>5, <2>3
  <2>5. v # 0
    BY <2>3, <2>4
  <2>6. v \div 2 \in H /\ v \div 2 < v /\ v \in Nat
    BY <1>1, <2>3, <2>5
  <2>7. v \div 2 \notin Bad
    BY <2>2, <2>6 DEF H
  <2> QED
    BY <2>3, <2>4, <2>5, <2>6, <2>7 DEF Bad
<1>7. \A v \in H : c[v] \in Nat
  BY BitsAreFinite, HalfWord
<1> HIDE DEF c
<1>8. DOMAIN BitCounts = H /\ BitCounts = [v \in H |-> BitCounts[v]]
  BY <1>5
<1> QED
  BY <1>6, <1>7, <1>8 DEF c

-----------------------------------------------------------------------------
\* Any term can be taken out of a sum.
LEMMA SumSplits ==
  ASSUME NEW D, NEW f \in [D -> Nat], IsFiniteSet(D)
  PROVE  /\ Total(f) \in Nat
         /\ D = {} => Total(f) = 0
         /\ \A x \in D : Total(f) =
               f[x] + Total([i \in D \ {x} |-> f[i]])
<1> DEFINE Q == [i \in D |-> 0 .. f[i] - 1]
           P(s) == { c \in s \X Nat : c[2] \in Q[c[1]] }
<1>1. \A i \in D : IsFiniteSet(Q[i]) /\ f[i] = Cardinality(Q[i])
  <2> SUFFICES ASSUME NEW i \in D
               PROVE  IsFiniteSet(Q[i]) /\ f[i] = Cardinality(Q[i])
    OBVIOUS
  <2> DEFINE n == f[i] - 1
  <2>1. f[i] \in Nat /\ n \in Int /\ Q[i] = 0 .. n
    OBVIOUS
  <2> HIDE DEF n, Q
  <2>2. IsFiniteSet(0 .. n) /\ Cardinality(0 .. n) = IF 0 > n THEN 0 ELSE n - 0 + 1
    BY <2>1, FS_Interval
  <2> QED
    BY <2>1, <2>2 DEF n
<1>2. ASSUME NEW s \in SUBSET D
      PROVE  /\ IsFiniteSet(P(s))
             /\ Total([i \in s |-> f[i]]) = Cardinality(P(s))
  <2> DEFINE R == [i \in s |-> Q[i]]
             g == [i \in s |-> f[i]]
  <2>1. /\ R \in [s -> SUBSET Nat] /\ DOMAIN g = s
        /\ \A i \in s : IsFiniteSet(R[i]) /\ g[i] = Cardinality(R[i])
    BY <1>1
  <2>2. IsFiniteSet(s)
    BY FS_Subset
  <2>3. Pairs(s, Nat, R) = P(s)
    BY DEF Pairs
  <2> HIDE DEF R, g, Q, P
  <2>4. /\ IsFiniteSet(Pairs(s, Nat, R))
        /\ Total(g) = Cardinality(Pairs(s, Nat, R))
    BY <2>1, <2>2, SumCountsPairs
  <2> QED
    BY <2>3, <2>4 DEF g
<1>3. f = [i \in D |-> f[i]]
  OBVIOUS
<1>4. Total(f) = Cardinality(P(D)) /\ IsFiniteSet(P(D))
  BY <1>2, <1>3
<1>5. D = {} => Cardinality(P(D)) = 0
  <2>1. D = {} => P(D) = {}
    OBVIOUS
  <2> HIDE DEF P
  <2> QED
    BY <2>1, FS_EmptySet
<1>6. ASSUME NEW x \in D
      PROVE  Cardinality(P(D)) = f[x] + Cardinality(P(D \ {x}))
  <2> DEFINE F == [q \in Q[x] |-> <<x, q>>]
  <2>1. IsFiniteSet(P({x})) /\ Cardinality(P({x})) = Cardinality(Q[x])
    <3>1. F \in [Q[x] -> P({x})]
      OBVIOUS
    <3>2. \A q, r \in Q[x] : F[q] = F[r] => q = r
      OBVIOUS
    <3>3. \A c \in P({x}) : \E q \in Q[x] : F[q] = c
      OBVIOUS
    <3> HIDE DEF F, P, Q
    <3> QED
      BY <1>1, <3>1, <3>2, <3>3, SameSize
  <2>2. P(D) = P({x}) \cup P(D \ {x})
    OBVIOUS
  <2>3. P({x}) \cap P(D \ {x}) = {}
    OBVIOUS
  <2> HIDE DEF P
  <2>4. IsFiniteSet(P(D \ {x}))
    BY <1>2
  <2>5. Cardinality(P({x}) \cup P(D \ {x})) = Cardinality(P({x})) + Cardinality(P(D \ {x}))
    BY <2>1, <2>3, <2>4, DisjointSum
  <2> QED
    BY <1>1, <2>1, <2>2, <2>5
<1>7. \A x \in D : Total([i \in D \ {x} |-> f[i]]) = Cardinality(P(D \ {x}))
  BY <1>2
<1> HIDE DEF P
<1>8. Cardinality(P(D)) \in Nat
  BY <1>4, FS_CardinalityType
<1> QED
  BY <1>4, <1>5, <1>6, <1>7, <1>8

\* The sum of powers of 2 has the bits that it is the sum of.
LEMMA SumOfPowers ==
  ASSUME NEW S, NEW n \in Nat
  PROVE  LET v == Total([p \in 0 .. n - 1 |-> IF p \in S THEN 2 ^ p ELSE 0])
         IN  v \in Nat /\ v < 2 ^ n /\ \A p \in 0 .. n - 1 : Bit(v, p) = 1 <=> p \in S
<1> DEFINE f(m) == [p \in 0 .. m - 1 |-> IF p \in S THEN 2 ^ p ELSE 0]
           v(m) == Total(f(m))
           Good(m) == /\ v(m) \in Nat /\ v(m) < 2 ^ m
                      /\ \A p \in 0 .. m - 1 : Bit(v(m), p) = 1 <=> p \in S
           T == { m \in Nat : Good(m) }
<1>1. \A m \in Nat : f(m) \in [0 .. m - 1 -> Nat] /\ IsFiniteSet(0 .. m - 1)
  BY Powers, FS_Interval
<1>2. \A m \in Nat : 2 ^ m \in Nat \ {0} /\ 2 ^ (m + 1) = 2 * 2 ^ m
  BY Powers, PowerStep
<1>3. Good(0)
  <2>1. 0 .. 0 - 1 = {}
    OBVIOUS
  <2> HIDE DEF f
  <2>2. v(0) = 0
    BY <1>1, <2>1, SumSplits
  <2> HIDE DEF v
  <2> QED
    BY <1>2, <2>1, <2>2
<1>4. ASSUME NEW m \in Nat, Good(m)
      PROVE  Good(m + 1)
  <2>1. v(m + 1) = v(m) + (IF m \in S THEN 2 ^ m ELSE 0)
    <3>1. f(m + 1)[m] = IF m \in S THEN 2 ^ m ELSE 0
      OBVIOUS
    <3>2. m \in 0 .. (m + 1) - 1 /\ (0 .. (m + 1) - 1) \ {m} = 0 .. m - 1
      OBVIOUS
    <3>3. [i \in (0 .. (m + 1) - 1) \ {m} |-> f(m + 1)[i]] = f(m)
      BY <3>2
    <3>4. f(m + 1) \in [0 .. (m + 1) - 1 -> Nat] /\ IsFiniteSet(0 .. (m + 1) - 1)
      <4>1. m + 1 \in Nat
        OBVIOUS
      <4> HIDE DEF f
      <4> QED
        BY <1>1, <4>1
    <3> HIDE DEF f
    <3>5. v(m + 1) = f(m + 1)[m]
             + Total([i \in (0 .. (m + 1) - 1) \ {m} |-> f(m + 1)[i]])
      <4> DEFINE N == 0 .. (m + 1) - 1
                 g == f(m + 1)
      <4>1. m \in N /\ g \in [N -> Nat] /\ IsFiniteSet(N)
        BY <3>2, <3>4
      <4> HIDE DEF N, g
      <4>2. \A x \in N : Total(g) = g[x] + Total([i \in N \ {x} |-> g[i]])
        BY <4>1, SumSplits, Zenon
      <4>3. Total(g) = g[m] + Total([i \in N \ {m} |-> g[i]])
        BY <4>1, <4>2, Zenon
      <4> QED
        BY <4>3 DEF N, g
    <3> DEFINE a == f(m + 1)[m]
    <3>6. v(m + 1) = a + v(m)
      BY <3>3, <3>5
    <3>7. v(m) \in Nat
      BY <1>4
    <3>8. a \in Nat
      BY <1>2, <3>1
    <3> HIDE DEF v, a
    <3>9. v(m + 1) = v(m) + a
      BY <3>6, <3>7, <3>8
    <3> QED
      BY <3>1, <3>9 DEF a
  <2> DEFINE w == v(m)
             u == v(m + 1)
  <2>2. w \in Nat /\ w < 2 ^ m /\ \A p \in 0 .. m - 1 : Bit(w, p) = 1 <=> p \in S
    BY <1>4
  <2>3. u = w + (IF m \in S THEN 2 ^ m ELSE 0)
    BY <2>1
  <2> HIDE DEF v, w, u
  <2>4. u \in Nat /\ u < 2 ^ (m + 1)
    BY <1>2, <2>2, <2>3
  <2>5. ASSUME NEW p \in 0 .. m - 1
        PROVE  Bit(u, p) = Bit(w, p)
    <3>1. Bit(w + 2 ^ m * 1, p) = Bit(w, p)
      BY <2>2, BitsBelow
    <3>2. 2 ^ m * 1 = 2 ^ m /\ w + 0 = w
      BY <1>2, <2>2
    <3> QED
      BY <2>3, <3>1, <3>2
  <2>6. Bit(u, m) = 1 <=> m \in S
    <3>1. CASE m \notin S
      <4>1. u = w
        BY <2>2, <2>3, <3>1
      <4> QED
        BY <2>2, <3>1, <4>1, BitsOf
    <3>2. CASE m \in S
      <4> DEFINE q == 2 ^ m
      <4>1. u = w + q /\ q \in Nat \ {0} /\ w < q
        BY <1>2, <2>2, <2>3, <3>2
      <4> HIDE DEF q
      <4>2. u \div q = 1
        BY <2>2, <4>1
      <4>3. 1 % 2 = 1
        OBVIOUS
      <4> QED
        BY <3>2, <4>2, <4>3 DEF Bit, q
    <3> QED
      BY <3>1, <3>2
  <2>7. \A p \in 0 .. (m + 1) - 1 : p \in 0 .. m - 1 \/ p = m
    OBVIOUS
  <2> QED
    BY <2>2, <2>4, <2>5, <2>6, <2>7 DEF u
<1> HIDE DEF Good
<1>5. T = Nat
  <2>1. T \in SUBSET Nat /\ 0 \in T /\ \A m \in Nat : m \in T => m + 1 \in T
    BY <1>3, <1>4
  <2> HIDE DEF T
  <2> QED
    BY <2>1, Induction
<1>6. Good(n)
  BY <1>5
<1> QED
  BY <1>6 DEF Good

-----------------------------------------------------------------------------
\* Where two words differ.
Differing(a, b) == { p \in 0 .. 2 * HALF_BITS - 1 : Bit(a, p) # Bit(b, p) }

\* Xor has the bits in which the words differ.
LEMMA XorBits ==
  ASSUME NEW a \in Word, NEW b \in Word
  PROVE  Xor(a, b) \in Word /\ BitsSet(Xor(a, b), 2 * HALF_BITS) = Differing(a, b)
<1> DEFINE n == 2 * HALF_BITS
           S == Differing(a, b)
           f == [p \in 0 .. n - 1 |-> IF p \in S THEN 2 ^ p ELSE 0]
<1>1. n \in Nat /\ 2 ^ n = HALF_WORD * HALF_WORD /\ HALF_WORD \in Nat \ {0}
  BY HalfWord
<1>2. Xor(a, b) = Total(f)
  <2>1. [p \in 0 .. n - 1 |-> IF Bit(a, p) = Bit(b, p) THEN 0 ELSE 2 ^ p] = f
    BY DEF Differing
  <2> QED
    BY <2>1 DEF Xor, Total
<1> HIDE DEF S, n
<1>3. /\ Total(f) \in Nat /\ Total(f) < 2 ^ n
      /\ \A p \in 0 .. n - 1 : Bit(Total(f), p) = 1 <=> p \in S
  BY <1>1, SumOfPowers
<1>4. S \subseteq 0 .. n - 1
  BY DEF S, n, Differing
<1> DEFINE v == Total(f)
<1> HIDE DEF f
<1>5. v \in 0 .. HALF_WORD * HALF_WORD - 1
  <2> DEFINE q == HALF_WORD * HALF_WORD
  <2>1. v < q /\ v \in Nat /\ q \in Nat
    BY <1>1, <1>3
  <2> HIDE DEF q, v
  <2> QED
    BY <2>1 DEF q
<1>6. BitsSet(v, n) = S
  BY <1>3, <1>4 DEF BitsSet
<1> QED
  BY <1>2, <1>5, <1>6 DEF S, n, Word

\* Two look-ups count the bits in which two words differ.
LEMMA WordDistanceCounts ==
  ASSUME NEW a \in Word, NEW b \in Word
  PROVE  /\ IsFiniteSet(Differing(a, b))
         /\ WordDistance(BitCounts, Xor(a, b)) = Cardinality(Differing(a, b))
<1> DEFINE v == Xor(a, b)
           k == HALF_BITS
           low == v % HALF_WORD
           high == v \div HALF_WORD
<1>1. /\ v \in Word /\ BitsSet(v, 2 * k) = Differing(a, b)
      /\ k \in Nat /\ HALF_WORD \in Nat \ {0} /\ 2 * k = k + k
  BY XorBits, HalfWord
<1>2. v \in Nat /\ v < HALF_WORD * HALF_WORD
  <2> DEFINE q == HALF_WORD * HALF_WORD
  <2>1. q \in Nat
    BY <1>1
  <2> HIDE DEF q, v
  <2>2. v \in 0 .. q - 1
    BY <1>1 DEF Word, q
  <2> QED
    BY <2>1, <2>2 DEF q
<1> HIDE DEF v
<1>3. low \in 0 .. HALF_WORD - 1 /\ high \in 0 .. HALF_WORD - 1
  BY <1>1, <1>2
<1>4. Cardinality(BitsSet(v, k + k)) = Cardinality(BitsSet(low, k)) + Cardinality(BitsSet(high, k))
  BY <1>1, <1>2, BitsSplit DEF HALF_WORD
<1>5. WordDistance(BitCounts, v) = Cardinality(BitsSet(low, k)) + Cardinality(BitsSet(high, k))
  <2> HIDE DEF low, high
  <2>1. /\ BitCounts[low] = Cardinality(BitsSet(low, k))
        /\ BitCounts[high] = Cardinality(BitsSet(high, k))
    BY <1>3, TableCounts
  <2> QED
    BY <2>1 DEF WordDistance, low, high
<1>6. IsFiniteSet(BitsSet(v, 2 * k))
  BY <1>1, BitsAreFinite
<1> QED
  BY <1>1, <1>4, <1>5, <1>6 DEF v

(***************************************************************************)
(* The table, the words and the half words count every bit in which two    *)
(* hashes differ once, for every size of hashes and words.                 *)
(***************************************************************************)
LEMMA WordsCountBits ==
  ASSUME NEW h1 \in Bytes, NEW h2 \in Bytes
  PROVE  bit_distance_by_words(BitCounts, h1, h2) = bit_distance(Ones(h1), Ones(h2))
<1> DEFINE n == 2 * HALF_BITS
           D == 0 .. WORDS - 1
           B == 0 .. n - 1
           Q == [i \in D |-> Differing(h1[i], h2[i])]
           f == [i \in D |-> WordDistance(BitCounts, Xor(h1[i], h2[i]))]
           differ == { p \in 0 .. HASH_BITS - 1 :
                          Bit(h1[p \div n], p % n) # Bit(h2[p \div n], p % n) }
<1>1. n \in Nat \ {0} /\ WORDS \in Nat \ {0} /\ HASH_BITS = WORDS * n
  <2>1. /\ HALF_BITS \in Nat \ {0} /\ WORDS \in Nat \ {0}
        /\ HASH_BITS = WORDS * 2 * HALF_BITS
    BY DistanceAssumption
  <2>2. WORDS * 2 * HALF_BITS = WORDS * (2 * HALF_BITS)
    BY <2>1
  <2> QED
    BY <2>1, <2>2
<1>2. \A i \in D : h1[i] \in Word /\ h2[i] \in Word
  BY DEF Bytes
<1>3. /\ Q \in [D -> SUBSET B] /\ DOMAIN f = D /\ IsFiniteSet(D)
      /\ \A i \in D : IsFiniteSet(Q[i]) /\ f[i] = Cardinality(Q[i])
  <2>1. WORDS - 1 \in Int /\ 0 \in Int
    BY <1>1
  <2>2. IsFiniteSet(D)
    BY <2>1, FS_Interval
  <2>3. \A i \in D : Differing(h1[i], h2[i]) \in SUBSET B
    BY DEF Differing
  <2>4. Q \in [D -> SUBSET B]
    BY <2>3
  <2>5. \A i \in D : IsFiniteSet(Differing(h1[i], h2[i]))
                  /\ WordDistance(BitCounts, Xor(h1[i], h2[i]))
                       = Cardinality(Differing(h1[i], h2[i]))
    BY <1>2, WordDistanceCounts
  <2>6. \A i \in D : IsFiniteSet(Q[i]) /\ f[i] = Cardinality(Q[i])
    BY <2>5
  <2>7. DOMAIN f = D
    OBVIOUS
  <2> QED
    BY <2>2, <2>4, <2>6, <2>7
<1>4. Total(f) = Cardinality(Pairs(D, B, Q)) /\ IsFiniteSet(Pairs(D, B, Q))
  <2> HIDE DEF D, B, Q, f
  <2> QED
    BY <1>3, SumCountsPairs
<1>5. bit_distance_by_words(BitCounts, h1, h2) = Total(f)
  BY DEF bit_distance_by_words, Total
<1> HIDE DEF n, f
<1>6. \A p \in 0 .. HASH_BITS - 1 : p \div n \in D /\ p % n \in B
                                    /\ p = (p \div n) * n + (p % n)
  <2> SUFFICES ASSUME NEW p \in 0 .. HASH_BITS - 1
               PROVE  p \div n \in D /\ p % n \in B /\ p = (p \div n) * n + (p % n)
    OBVIOUS
  <2> DEFINE d == p \div n
             r == p % n
  <2>1. p \in Nat /\ p < WORDS * n
    BY <1>1
  <2>2. d \in Nat /\ r \in 0 .. n - 1 /\ r = p - n * d /\ d * n = n * d
    BY <1>1, <2>1
  <2>3. d < WORDS
    BY <1>1, <2>1
  <2> HIDE DEF d, r
  <2>4. d \in D /\ r \in B
    BY <1>1, <2>2, <2>3 DEF D, B
  <2>5. p = d * n + r
    <3> DEFINE x == n * d
    <3>1. x \in Int /\ r = p - x /\ d * n = x /\ p \in Int
      BY <1>1, <2>1, <2>2
    <3> HIDE DEF x
    <3>2. p = x + r
      BY <3>1
    <3> QED
      BY <3>1, <3>2
  <2> QED
    BY <2>4, <2>5 DEF d, r
<1>7. \A i \in D, q \in B : /\ i * n + q \in 0 .. HASH_BITS - 1
                            /\ (i * n + q) \div n = i /\ (i * n + q) % n = q
  <2> SUFFICES ASSUME NEW i \in D, NEW q \in B
               PROVE  /\ i * n + q \in 0 .. HASH_BITS - 1
                      /\ (i * n + q) \div n = i /\ (i * n + q) % n = q
    OBVIOUS
  <2>1. i * n + n <= WORDS * n
    BY <1>1
  <2>2. i * n \in Nat /\ q \in Nat /\ q < n
    BY <1>1
  <2>3. (i * n + q) \div n = i /\ (i * n + q) % n = q
    BY <1>1, <2>2
  <2> QED
    BY <1>1, <2>1, <2>2, <2>3
<1>8. Cardinality(differ) = Cardinality(Pairs(D, B, Q))
  <2> DEFINE F == [p \in differ |-> <<p \div n, p % n>>]
             R == Pairs(D, B, Q)
  <2>1. \A i \in D, q \in B : <<i, q>> \in R <=> Bit(h1[i], q) # Bit(h2[i], q)
    BY DEF Pairs, Differing, n
  <2>2. F \in [differ -> R]
    BY <1>6, <2>1
  <2>3. \A p, q \in differ : F[p] = F[q] => p = q
    <3> SUFFICES ASSUME NEW p \in differ, NEW q \in differ, F[p] = F[q]
                 PROVE  p = q
      OBVIOUS
    <3>1. p \div n = q \div n /\ p % n = q % n
      BY Zenon
    <3>2. p = (p \div n) * n + (p % n) /\ q = (q \div n) * n + (q % n)
      BY <1>6
    <3> QED
      BY <3>1, <3>2
  <2>4. \A c \in R : \E p \in differ : F[p] = c
    <3> SUFFICES ASSUME NEW c \in R
                 PROVE  \E p \in differ : F[p] = c
      OBVIOUS
    <3>1. PICK i \in D, q \in B : c = <<i, q>>
      BY DEF Pairs
    <3>2. i * n + q \in differ
      BY <1>7, <2>1, <3>1
    <3>3. F[i * n + q] = c
      BY <1>7, <3>1, <3>2
    <3> QED
      BY <3>2, <3>3
  <2>5. IsFiniteSet(differ)
    <3>1. IsFiniteSet(0 .. HASH_BITS - 1)
      BY FS_Interval, HashBitsAssumption
    <3> QED
      BY <3>1, FS_Subset
  <2> HIDE DEF F, R, differ
  <2>6. Cardinality(R) = Cardinality(differ)
    BY <2>2, <2>3, <2>4, <2>5, SameSize
  <2> QED
    BY <2>6 DEF R
<1>9. (Ones(h1) \ Ones(h2)) \cup (Ones(h2) \ Ones(h1)) = differ
  <2>1. \A i \in D, q \in B : Bit(h1[i], q) \in {0, 1} /\ Bit(h2[i], q) \in {0, 1}
    <3>1. Word \subseteq Nat /\ B \subseteq Nat
      BY <1>1 DEF Word
    <3> QED
      BY <1>2, <3>1, BitsOf
  <2> HIDE DEF D, B
  <2> QED
    BY <1>6, <2>1 DEF Ones, n
<1> QED
  BY <1>4, <1>5, <1>8, <1>9 DEF bit_distance

-----------------------------------------------------------------------------
\* p has the user's parameters, and otherwise empty ones that main asks for.
Keeps(p) ==
    /\ \A k \in DOMAIN users_file.params :
          k \in DOMAIN p /\ p[k] = users_file.params[k]
    /\ \A k \in DOMAIN p \ DOMAIN users_file.params : k \in ReadKeys /\ p[k] = ""

Loaded == main \notin {"off", "init_util", "load_config"}

\* Every line is in the file or still to be written.
WrittenInv ==
    /\ unwritten \subseteq DOMAIN props
    /\ DOMAIN file.params = DOMAIN props \ unwritten
    /\ \A k \in DOMAIN file.params : file.params[k] = props[k]

(***************************************************************************)
(* ParametersSurvive needs to know of the memory, too, for it is what      *)
(* save_config writes; and of a half written file, for it will be whole.   *)
(***************************************************************************)
FileInv ==
    /\ main \in {"off", "init_util", "load_config", "make_dht", "load_friends_list",
                 "start_console", "read_pool_size", "create", "ping_all",
                 "join_console", "interrupt", "save_config", "write", "return"}
    /\ DOMAIN file = {"params", "odd", "long"} /\ file = [f \in DOMAIN file |-> file[f]]
    /\ ~cut /\ ~Saving => Keeps(file.params)
    /\ ~cut /\ Loaded => Keeps(props)
    /\ ~cut /\ Saving => WrittenInv

\* main's steps before it saves, once it has loaded the parameters.
Steady ==
    \/ LoadFriends \/ StartConsole \/ ReadPoolSize \/ CreateProtocol \/ PingAll
    \/ JoinConsole \/ InterruptPool \/ MakeDht

LEMMA InitFile == Init => FileInv
<1> SUFFICES ASSUME Init
             PROVE  FileInv
  OBVIOUS
<1>1. file \in File
  BY LifecycleAssumption DEF Init
<1>2. DOMAIN file = {"params", "odd", "long"} /\ file = [f \in DOMAIN file |-> file[f]]
  BY <1>1 DEF File
<1> QED
  BY <1>2 DEF Init, FileInv, Saving, Loaded, Keeps

\* Whatever ends the process, the file stays as it is.
LEMMA EndsStep ==
  ASSUME FileInv, NEW how, Ends(how)
  PROVE  FileInv'
BY DEF FileInv, Ends, Saving, Loaded, Keeps

\* Asking for parameters adds empty ones to the memory.
LEMMA ReadKeeps ==
  ASSUME NEW keys \in SUBSET ReadKeys, Keeps(props)
  PROVE  Keeps(WithRead(keys))
BY DEF Keeps, WithRead

LEMMA SteadyStep ==
  ASSUME FileInv, Steady
  PROVE  FileInv'
<1>1. CASE \E how : Ends(how)
  BY <1>1, EndsStep
<1>2. CASE ~\E how : Ends(how)
  <2>1. /\ UNCHANGED disk
        /\ main \notin {"write", "save_config"} /\ main' # "write"
        /\ Loaded' <=> Loaded
        /\ main' \in {main, "load_friends_list", "start_console", "read_pool_size",
                      "create", "ping_all", "join_console", "interrupt", "save_config"}
        /\ \/ props' = props
           \/ \E keys \in SUBSET ReadKeys : Loaded /\ props' = WithRead(keys)
    <3>1. CASE LoadFriends \/ MakeDht \/ ReadPoolSize
      <4>1. {"network.ip", "network.port"} \in SUBSET ReadKeys
            /\ {"dht.friendlist"} \in SUBSET ReadKeys
            /\ {"network.thread_pool_size"} \in SUBSET ReadKeys
        BY DEF ReadKeys
      <4> QED
        BY <1>2, <3>1, <4>1 DEF LoadFriends, MakeDht, ReadPoolSize, Loaded
    <3>2. CASE StartConsole \/ CreateProtocol \/ PingAll \/ JoinConsole \/ InterruptPool
      BY <1>2, <3>2
         DEF StartConsole, CreateProtocol, PingAll, JoinConsole, InterruptPool, Loaded, memory
    <3> QED
      BY <3>1, <3>2 DEF Steady
  <2>2. ~cut /\ Loaded => Keeps(props')
    BY <2>1, ReadKeeps DEF FileInv
  <2>3. ~cut' /\ Loaded' => Keeps(props)'
    BY <2>1, <2>2 DEF Keeps, disk
  <2>4. ~cut' /\ ~Saving' => Keeps(file.params)'
    BY <2>1 DEF FileInv, Saving, Keeps, disk
  <2> QED
    BY <2>1, <2>3, <2>4 DEF FileInv, Saving, disk
<1> QED
  BY <1>1, <1>2

\* Nothing that the parameters are about.
LEMMA AsideStep ==
  ASSUME FileInv, UNCHANGED <<main, props, unwritten, disk>>
  PROVE  FileInv'
BY DEF FileInv, Saving, Loaded, Keeps, WrittenInv, disk

LEMMA LoadStep ==
  ASSUME FileInv, Start \/ init_util \/ load_config
  PROVE  FileInv'
<1>1. CASE \E how : Ends(how)
  BY <1>1, EndsStep
<1>2. CASE ~\E how : Ends(how)
  <2>1. /\ UNCHANGED disk /\ main' \in {"init_util", "load_config", "make_dht"}
        /\ main \in {"off", "init_util", "load_config"}
        /\ main' = "make_dht" => props' = file.params
    BY <1>2 DEF Start, init_util, load_config
  <2> QED
    BY <2>1 DEF FileInv, Saving, Loaded, Keeps, disk
<1> QED
  BY <1>1, <1>2

LEMMA SaveStep ==
  ASSUME FileInv, OpenConfig \/ (\E k \in Keys : WriteLine(k)) \/ CloseConfig \/ Return
  PROVE  FileInv'
<1>1. CASE OpenConfig
  <2>1. /\ main' = "write" /\ Loaded /\ UNCHANGED <<props, users_file, cut>>
        /\ file' = [params |-> NoParams, odd |-> FALSE, long |-> FALSE]
        /\ unwritten' = DOMAIN props
    BY <1>1 DEF OpenConfig, memory, Loaded
  <2>2. DOMAIN file' = {"params", "odd", "long"} /\ file' = [f \in DOMAIN file' |-> file'[f]]
        /\ file'.params = NoParams
    BY <2>1
  <2>3. WrittenInv'
    BY <2>1, <2>2 DEF WrittenInv, NoParams
  <2>4. ~cut' => Keeps(props)'
    BY <2>1 DEF FileInv, Keeps
  <2> QED
    BY <2>1, <2>2, <2>3, <2>4 DEF FileInv, Saving
<1>2. ASSUME NEW k \in Keys, WriteLine(k)
      PROVE  FileInv'
  <2> DEFINE p == [j \in DOMAIN file.params \cup {k} |->
                     IF j = k THEN props[k] ELSE file.params[j]]
  <2>1. /\ main = "write" /\ main' = "write" /\ Loaded
        /\ k \in unwritten /\ unwritten' = unwritten \ {k}
        /\ \E long \in {file.long, TRUE} :
              file' = [file EXCEPT !.long = long, !.params = p]
        /\ UNCHANGED <<props, users_file, cut>>
    BY <1>2 DEF WriteLine, memory, Loaded
  <2>2. DOMAIN file' = {"params", "odd", "long"} /\ file' = [f \in DOMAIN file' |-> file'[f]]
        /\ file'.params = p
    BY <2>1 DEF FileInv
  <2> HIDE DEF p
  <2>3. ~cut => WrittenInv'
    <3>1. ASSUME ~cut
          PROVE  /\ unwritten' \subseteq DOMAIN props
                 /\ DOMAIN p = DOMAIN props \ unwritten'
                 /\ \A j \in DOMAIN p : p[j] = props[j]
      BY <2>1, <3>1 DEF FileInv, Saving, WrittenInv, p
    <3> QED
      BY <2>1, <2>2, <3>1 DEF WrittenInv
  <2>4. ~cut' => Keeps(props)'
    BY <2>1 DEF FileInv, Keeps
  <2> QED
    BY <2>1, <2>2, <2>3, <2>4 DEF FileInv, Saving
<1>3. CASE CloseConfig
  <2>1. main = "write" /\ main' = "return" /\ unwritten = {} /\ UNCHANGED <<props, disk>>
    BY <1>3 DEF CloseConfig, memory
  <2>2. ~cut => Keeps(props) /\ Keeps(file.params)
    BY <2>1 DEF FileInv, Saving, Loaded, WrittenInv, Keeps
  <2>3. ~cut' => Keeps(props)' /\ Keeps(file.params)'
    BY <2>1, <2>2 DEF Keeps, disk
  <2> QED
    BY <2>1, <2>3 DEF FileInv, Saving, disk
<1>4. CASE Return
  BY <1>4, EndsStep DEF Return
<1> QED
  BY <1>1, <1>2, <1>3, <1>4

LEMMA StepFile == FileInv /\ [Next]_vars => FileInv'
<1> SUFFICES ASSUME FileInv, [Next]_vars
             PROVE  FileInv'
  OBVIOUS
<1>1. CASE Start \/ init_util \/ load_config
  BY <1>1, LoadStep
<1>2. CASE Steady
  BY <1>2, SteadyStep
<1>3. CASE OpenConfig \/ (\E k \in Keys : WriteLine(k)) \/ CloseConfig \/ Return
  BY <1>3, SaveStep
<1>4. CASE ConsoleCommand \/ Kill
  BY <1>4, EndsStep DEF ConsoleCommand, Kill
<1>5. CASE ConsoleQuit \/ ConsoleEndOfInput \/ HearFromNode \/ UNCHANGED vars
  BY <1>5, AsideStep DEF ConsoleQuit, ConsoleEndOfInput, HearFromNode, vars, memory
<1> QED
  BY <1>1, <1>2, <1>3, <1>4, <1>5 DEF Next, Main, Console, Steady

(***************************************************************************)
(* A process that does not end while it saves leaves a file with the       *)
(* user's parameters (Config.cpp:67-93, main.cpp:39-80).                   *)
(***************************************************************************)
THEOREM FileKeepsParameters == Spec => []ParametersSurvive
<1>1. Init => FileInv
  BY InitFile
<1>2. FileInv /\ [Next]_vars => FileInv'
  BY StepFile
<1>3. FileInv => ParametersSurvive
  BY DEF FileInv, Keeps, ParametersSurvive
<1> QED
  BY <1>1, <1>2, <1>3, PTL DEF Spec

-----------------------------------------------------------------------------
\* The process is off, or about to fail for want of a port.
Doomed ==
    /\ ~Startable(file)
    /\ console = "off"
    /\ main \in {"off", "init_util", "load_config", "make_dht"}
    /\ main = "make_dht" => props = file.params /\ ~file.odd

LEMMA StepDoomed == Doomed /\ [Next]_vars => Doomed'
<1> SUFFICES ASSUME Doomed, [Next]_vars
             PROVE  Doomed'
  OBVIOUS
<1>1. CASE \E how : Ends(how)
  BY <1>1 DEF Doomed, Ends, Startable
<1>2. CASE Start \/ init_util \/ load_config
  BY <1>1, <1>2 DEF Start, init_util, load_config, Doomed, Startable, memory, disk
<1>3. CASE MakeDht
  <2>1. main = "make_dht" /\ Read("network.port") # "usable"
    BY <1>3 DEF MakeDht, Doomed, Startable, Read, WithRead
  <2> QED
    BY <1>1, <1>3, <2>1 DEF MakeDht
<1>4. CASE HearFromNode \/ UNCHANGED vars
  BY <1>4 DEF HearFromNode, Doomed, Startable, vars, memory, disk
<1>5. CASE Kill
  BY <1>1, <1>5 DEF Kill
<1> QED
  BY <1>1, <1>2, <1>3, <1>4, <1>5
     DEF Next, Main, Doomed, Console, ConsoleCommand, ConsoleQuit, ConsoleEndOfInput,
         LoadFriends, StartConsole, ReadPoolSize, CreateProtocol, PingAll, JoinConsole,
         InterruptPool, OpenConfig, WriteLine, CloseConfig, Return

\* A process that is off has no console.
LEMMA OffHasNoConsole == Spec => [](main = "off" => console = "off")
<1> DEFINE Off == main \in {"off", "init_util"} => console = "off"
<1>1. Init => Off
  BY DEF Init, Fresh
<1>2. Off /\ [Next]_vars => Off'
  <2> SUFFICES ASSUME Off, [Next]_vars
               PROVE  Off'
    OBVIOUS
  <2>1. CASE \E how : Ends(how)
    BY <2>1 DEF Ends
  <2>2. CASE ~\E how : Ends(how)
    BY <2>2
       DEF Next, Main, Console, ConsoleCommand, ConsoleQuit, ConsoleEndOfInput, Start, init_util,
           load_config, MakeDht, LoadFriends, StartConsole, ReadPoolSize, CreateProtocol, PingAll,
           JoinConsole, InterruptPool, OpenConfig, WriteLine, CloseConfig, Return, HearFromNode,
           Kill, vars, memory
  <2> QED
    BY <2>1, <2>2
<1>3. Off => (main = "off" => console = "off")
  OBVIOUS
<1> QED
  BY <1>1, <1>2, <1>3, PTL DEF Spec

(***************************************************************************)
(* Without a usable port in the file there never is a console again, nor a *)
(* file with one (Config.cpp:83, main.cpp:41).                             *)
(***************************************************************************)
THEOREM DamageLasts == Spec => DamageIsPermanent
<1>1. (main = "off" => console = "off") /\ main = "off" /\ ~Startable(file) => Doomed
  BY DEF Doomed
<1>2. Doomed /\ [Next]_vars => Doomed'
  BY StepDoomed
<1>3. Doomed => console = "off" /\ ~Startable(file)
  BY DEF Doomed
<1> QED
  BY <1>1, <1>2, <1>3, OffHasNoConsole, PTL DEF Spec, DamageIsPermanent

-----------------------------------------------------------------------------
\* A set of parameters, in memory or in the file.
Params == UNION { ParamsOn(keys) : keys \in SUBSET Keys }

(***************************************************************************)
(* With the types: the table is filled as soon as init_util is over, and   *)
(* only a process that saves has something to write, so that loading the   *)
(* parameters cannot take away a value that save_config has still to write.*)
(***************************************************************************)
StateInv ==
    /\ TypeOK
    /\ main # "write" => unwritten = {}
    /\ main \notin {"off", "init_util"} => bits_in_16bits = BitCounts

LEMMA ParamsAre ==
  ASSUME NEW p
  PROVE  p \in Params <=> /\ p = [k \in DOMAIN p |-> p[k]] /\ DOMAIN p \subseteq Keys
                          /\ \A k \in DOMAIN p : p[k] \in Values
<1>1. ASSUME p \in Params
      PROVE  /\ p = [k \in DOMAIN p |-> p[k]] /\ DOMAIN p \subseteq Keys
             /\ \A k \in DOMAIN p : p[k] \in Values
  <2>1. PICK keys \in SUBSET Keys : p \in [keys -> Values]
    BY <1>1 DEF Params, ParamsOn
  <2> QED
    BY <2>1
<1>2. ASSUME p = [k \in DOMAIN p |-> p[k]], DOMAIN p \subseteq Keys,
             \A k \in DOMAIN p : p[k] \in Values
      PROVE  p \in Params
  <2>1. p \in [DOMAIN p -> Values]
    BY <1>2
  <2> QED
    BY <1>2, <2>1 DEF Params, ParamsOn
<1> QED
  BY <1>1, <1>2

\* A file is its parameters and the two kinds of lines that break it.
LEMMA FilesAre ==
  /\ \A f \in File : f.params \in Params /\ f.odd \in BOOLEAN /\ f.long \in BOOLEAN
  /\ \A p \in Params, o, l \in BOOLEAN : [params |-> p, odd |-> o, long |-> l] \in File
  /\ \A p \in Params, f \in File : [f EXCEPT !.params = p] \in File
BY DEF File, Params

LEMMA NoParamsAre == NoParams \in Params
<1>1. DOMAIN NoParams = {} /\ NoParams = [k \in DOMAIN NoParams |-> NoParams[k]]
  BY DEF NoParams
<1> QED
  BY <1>1, ParamsAre

\* The table of zeros and the filled one are both tables.
LEMMA TablesAre ==
  NoBitCounts \in [0 .. HALF_WORD - 1 -> Nat] /\ BitCounts \in [0 .. HALF_WORD - 1 -> Nat]
BY TableCounts DEF NoBitCounts

\* What is in memory at the end of a process.
LEMMA EndsState ==
  ASSUME StateInv, NEW how \in {"clean", "exception", "undefined", "killed"}, Ends(how)
  PROVE  StateInv'
<1>1. DOMAIN NoParams = {}
  BY DEF NoParams
<1> QED
  BY <1>1, TablesAre DEF StateInv, TypeOK, Ends, Saving

\* Reading a parameter keeps the others.
LEMMA ReadState ==
  ASSUME StateInv, NEW keys \in SUBSET ReadKeys
  PROVE  /\ DOMAIN props \subseteq DOMAIN WithRead(keys) /\ DOMAIN WithRead(keys) \subseteq Keys
         /\ \A k \in DOMAIN WithRead(keys) : WithRead(keys)[k] \in Values
BY DEF StateInv, TypeOK, WithRead, Keys, Values

\* The steps that neither end the process nor touch the file.
Quiet ==
    \/ Start \/ init_util \/ load_config \/ MakeDht \/ LoadFriends \/ StartConsole
    \/ ReadPoolSize \/ CreateProtocol \/ PingAll \/ JoinConsole \/ InterruptPool \/ CloseConfig
    \/ ConsoleQuit \/ ConsoleEndOfInput \/ HearFromNode \/ Return \/ ConsoleCommand \/ Kill

LEMMA QuietState ==
  ASSUME StateInv, Quiet
  PROVE  StateInv'
<1>1. CASE \E how \in {"clean", "exception", "undefined", "killed"} : Ends(how)
  BY <1>1, EndsState
<1>2. CASE ~\E how \in {"clean", "exception", "undefined", "killed"} : Ends(how)
  <2>1. CASE Start \/ StartConsole \/ CreateProtocol \/ PingAll \/ JoinConsole
             \/ InterruptPool \/ CloseConfig
    BY <1>2, <2>1
       DEF Start, StartConsole, CreateProtocol, PingAll, JoinConsole, InterruptPool, CloseConfig,
           StateInv, TypeOK, memory, disk
  <2>2. CASE ConsoleQuit \/ ConsoleEndOfInput \/ HearFromNode
    BY <2>2 DEF ConsoleQuit, ConsoleEndOfInput, HearFromNode, StateInv, TypeOK, disk
  <2>3. CASE init_util
    BY <2>3, TablesAre DEF init_util, StateInv, TypeOK, disk
  <2>4. CASE load_config
    <3>1. /\ main = "load_config" /\ main' = "make_dht" /\ props' = file.params
          /\ UNCHANGED <<ended, bits_in_16bits, console, protocol, pool, known, unwritten, disk>>
      BY <1>2, <2>4 DEF load_config
    <3>2. /\ DOMAIN file.params \subseteq Keys
          /\ \A k \in DOMAIN file.params : file.params[k] \in Values
      BY FilesAre, ParamsAre DEF StateInv, TypeOK
    <3> QED
      BY <3>1, <3>2 DEF StateInv, TypeOK, disk
  <2>5. CASE MakeDht \/ LoadFriends \/ ReadPoolSize
    <3>1. PICK keys \in SUBSET ReadKeys : props' = WithRead(keys)
      <4>1. {"network.ip", "network.port"} \in SUBSET ReadKeys
            /\ {"dht.friendlist"} \in SUBSET ReadKeys
            /\ {"network.thread_pool_size"} \in SUBSET ReadKeys
        BY DEF ReadKeys
      <4> QED
        BY <1>2, <2>5, <4>1 DEF MakeDht, LoadFriends, ReadPoolSize
    <3>2. /\ main \in {"make_dht", "load_friends_list", "read_pool_size"}
          /\ main' \in {"load_friends_list", "start_console", "create"}
          /\ known' \in BOOLEAN
          /\ UNCHANGED <<ended, bits_in_16bits, console, protocol, pool, unwritten, disk>>
      BY <1>2, <2>5 DEF MakeDht, LoadFriends, ReadPoolSize, StateInv, TypeOK
    <3>3. /\ DOMAIN props' \subseteq Keys /\ \A k \in DOMAIN props' : props'[k] \in Values
      BY <3>1, ReadState
    <3> QED
      BY <3>2, <3>3 DEF StateInv, TypeOK, disk
  <2>6. ~(Return \/ ConsoleCommand \/ Kill)
    BY <1>2 DEF Return, ConsoleCommand, Kill
  <2> QED
    BY <2>1, <2>2, <2>3, <2>4, <2>5, <2>6 DEF Quiet
<1> QED
  BY <1>1, <1>2

\* Every line that is written is a key of the memory with its value.
LEMMA SaveState ==
  ASSUME StateInv, OpenConfig \/ \E k \in Keys : WriteLine(k)
  PROVE  StateInv'
<1>1. CASE OpenConfig
  <2>1. /\ main = "save_config" /\ main' = "write" /\ unwritten' = DOMAIN props
        /\ file' = [params |-> NoParams, odd |-> FALSE, long |-> FALSE]
        /\ UNCHANGED <<ended, memory, users_file, cut>>
    BY <1>1 DEF OpenConfig
  <2>2. file' \in File
    BY <2>1, NoParamsAre, FilesAre
  <2> QED
    BY <2>1, <2>2 DEF StateInv, TypeOK, memory
<1>2. ASSUME NEW k \in Keys, WriteLine(k)
      PROVE  StateInv'
  <2> DEFINE p == [j \in DOMAIN file.params \cup {k} |->
                     IF j = k THEN props[k] ELSE file.params[j]]
  <2>1. /\ main = "write" /\ main' = "write" /\ k \in unwritten
        /\ unwritten' = unwritten \ {k}
        /\ \E long \in {file.long, TRUE} :
              file' = [file EXCEPT !.long = long, !.params = p]
        /\ UNCHANGED <<ended, memory, users_file, cut>>
    BY <1>2 DEF WriteLine
  <2>2. /\ DOMAIN file.params \subseteq Keys
        /\ \A j \in DOMAIN file.params : file.params[j] \in Values
    BY FilesAre, ParamsAre DEF StateInv, TypeOK
  <2>3. props[k] \in Values
    BY <2>1 DEF StateInv, TypeOK
  <2>4. p \in Params
    <3>1. p = [j \in DOMAIN p |-> p[j]] /\ DOMAIN p \subseteq Keys
          /\ \A j \in DOMAIN p : p[j] \in Values
      BY <2>2, <2>3
    <3> HIDE DEF p
    <3> QED
      BY <3>1, ParamsAre
  <2> HIDE DEF p
  <2>5. file' \in File
    <3>1. /\ file = [params |-> file.params, odd |-> file.odd,
                     long |-> file.long]
          /\ file.odd \in BOOLEAN /\ file.long \in BOOLEAN
      BY DEF StateInv, TypeOK, File
    <3>2. PICK long \in {file.long, TRUE} :
            file' = [file EXCEPT !.long = long, !.params = p]
      BY <2>1
    <3>3. /\ file' = [params |-> p, odd |-> file.odd, long |-> long]
          /\ long \in BOOLEAN
      BY <3>1, <3>2
    <3> QED
      BY <2>4, <3>1, <3>3, FilesAre
  <2> QED
    BY <2>1, <2>5 DEF StateInv, TypeOK, memory
<1> QED
  BY <1>1, <1>2

LEMMA InitState == Init => StateInv
<1> SUFFICES ASSUME Init
             PROVE  StateInv
  OBVIOUS
<1>1. file \in File /\ users_file \in File
  BY LifecycleAssumption DEF Init
<1>2. DOMAIN NoParams = {}
  BY DEF NoParams
<1> QED
  BY <1>1, <1>2, TablesAre DEF Init, Fresh, StateInv, TypeOK

LEMMA StepState == StateInv /\ [Next]_vars => StateInv'
<1> SUFFICES ASSUME StateInv, [Next]_vars
             PROVE  StateInv'
  OBVIOUS
<1>1. CASE Quiet
  BY <1>1, QuietState
<1>2. CASE OpenConfig \/ \E k \in Keys : WriteLine(k)
  BY <1>2, SaveState
<1>3. CASE UNCHANGED vars
  BY <1>3 DEF vars, memory, disk, StateInv, TypeOK
<1> QED
  BY <1>1, <1>2, <1>3 DEF Next, Main, Console, Quiet

LEMMA StateIsSound == Spec => []StateInv
BY InitState, StepState, PTL DEF Spec

(***************************************************************************)
(* Whatever the user wrote and wherever a process ends, save_config finds  *)
(* in memory the value of every line it has still to write, and the table  *)
(* and the file have their types (Config.cpp:85-90, util.cpp:56-65).       *)
(***************************************************************************)
THEOREM StateIsTyped == Spec => []TypeOK
<1>1. StateInv => TypeOK
  BY DEF StateInv
<1> QED
  BY <1>1, StateIsSound, PTL

(***************************************************************************)
(* For every size of hashes and words: when the friends are loaded, the    *)
(* table that init_util has filled makes bit_distance count every bit in   *)
(* which two hashes differ, and none twice (util.cpp:56-99).               *)
(***************************************************************************)
THEOREM DistanceIsHamming == Spec => []DistanceCountsBits
<1>1. ASSUME StateInv
      PROVE  DistanceCountsBits
  <2>1. main = "load_friends_list" => bits_in_16bits = BitCounts
    BY <1>1 DEF StateInv
  <2>2. NodeIds \subseteq Bytes
    BY LifecycleAssumption
  <2> QED
    BY <2>1, <2>2, WordsCountBits DEF DistanceCountsBits
<1> QED
  BY <1>1, StateIsSound, PTL

=============================================================================
