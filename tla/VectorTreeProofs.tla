-------------------------- MODULE VectorTreeProofs --------------------------
(***************************************************************************)
(* How vectors are built, for every branching factor 2^B and vectors of    *)
(* any length: what the recursive functions of PersistentVector compute,   *)
(* and that make_relaxed, pack_children, concat_trees, push, from_array,   *)
(* the builder and concat yield the representation of the sequence they    *)
(* should (VecIs).                                                         *)
(***************************************************************************)
EXTENDS PersistentVector, TLAPS, FiniteSetTheorems, SequenceTheorems

-----------------------------------------------------------------------------
(***************************************************************************)
(* Numbers: powers of two, and division.                                   *)
(***************************************************************************)
NatRank(s) == s
NoBody(g, s) == s
OnNat == INSTANCE RecursiveFunctions WITH D <- Nat, Rank <- NatRank, Body <- NoBody

LEMMA PowerOf ==
    ASSUME NEW n \in Nat
    PROVE  /\ IsFiniteSet(SUBSET (1 .. n))
           /\ Cardinality(SUBSET (1 .. n)) = 2^n
           /\ 2^n \in Nat /\ 2^n > 0
<1> DEFINE S == 1 .. n
<1>1. IsFiniteSet(S) /\ Cardinality(S) = n
  <2>1. 1 \in Int /\ n \in Int
    OBVIOUS
  <2>2. IsFiniteSet(S) /\ Cardinality(S) = IF 1 > n THEN 0 ELSE n - 1 + 1
    BY <2>1, FS_Interval, Zenon
  <2> QED
    BY <2>2
<1> HIDE DEF S
<1>2. IsFiniteSet(SUBSET S) /\ Cardinality(SUBSET S) = 2^n
  BY <1>1, FS_SUBSET
<1>3. Cardinality(SUBSET S) # 0
  BY <1>2, FS_EmptySet, Zenon
<1>4. Cardinality(SUBSET S) \in Nat
  BY <1>2, FS_CardinalityType
<1> QED
  BY <1>2, <1>3, <1>4 DEF S

LEMMA PowerZero == 2^0 = 1
<1>1. 1 .. 0 = {}
  OBVIOUS
<1>2. SUBSET {} = {{}}
  OBVIOUS
<1>3. Cardinality({{}}) = 1
  BY FS_Singleton, Zenon
<1>4. Cardinality(SUBSET (1 .. 0)) = 2^0
  BY PowerOf
<1> QED
  BY <1>1, <1>2, <1>3, <1>4, Zenon

LEMMA PowerStep ==
    ASSUME NEW n \in Nat
    PROVE  2^(n + 1) = 2 * 2^n
<1> DEFINE P == SUBSET (1 .. n)
           Q == {A \cup {n + 1} : A \in P}
           f == [A \in P |-> A \cup {n + 1}]
<1>1. IsFiniteSet(P) /\ Cardinality(P) = 2^n /\ 2^n \in Nat
  BY PowerOf
<1>2. n + 1 \notin 1 .. n /\ 1 .. (n + 1) = (1 .. n) \cup {n + 1}
  OBVIOUS
<1>3. SUBSET (1 .. (n + 1)) = P \cup Q
  <2>1. ASSUME NEW A \in SUBSET (1 .. (n + 1)) PROVE A \in P \cup Q
    <3>1. CASE n + 1 \in A
      <4>1. A \ {n + 1} \in P
        BY <1>2
      <4>2. A = (A \ {n + 1}) \cup {n + 1}
        BY <3>1
      <4> QED
        BY <4>1, <4>2
    <3>2. CASE n + 1 \notin A
      BY <1>2, <3>2
    <3> QED
      BY <3>1, <3>2
  <2>2. P \cup Q \subseteq SUBSET (1 .. (n + 1))
    BY <1>2
  <2> QED
    BY <2>1, <2>2
<1>4. P \cap Q = {}
  BY <1>2
<1>5. f \in Bijection(P, Q)
  <2>1. f \in [P -> Q]
    OBVIOUS
  <2>2. \A A, C \in P : f[A] = f[C] => A = C
    <3> SUFFICES ASSUME NEW A \in P, NEW C \in P, A \cup {n + 1} = C \cup {n + 1} PROVE A = C
      OBVIOUS
    <3>1. n + 1 \notin A /\ n + 1 \notin C
      BY <1>2
    <3> QED
      BY <3>1
  <2>3. \A y \in Q : \E A \in P : f[A] = y
    OBVIOUS
  <2> QED
    BY <2>1, <2>2, <2>3, Zenon DEF Bijection, Injection, Surjection, IsInjective
<1> HIDE DEF P, Q, f
<1>6. IsFiniteSet(Q) /\ Cardinality(Q) = Cardinality(P)
  BY <1>1, <1>5, FS_Bijection, Zenon DEF ExistsBijection
<1>7. Cardinality(P \cup Q) = Cardinality(P) + Cardinality(Q) - Cardinality(P \cap Q)
  BY <1>1, <1>6, FS_Union
<1>8. Cardinality(P \cap Q) = 0
  BY <1>4, FS_EmptySet, Zenon
<1>9. Cardinality(SUBSET (1 .. (n + 1))) = 2^(n + 1)
  <2>1. n + 1 \in Nat
    OBVIOUS
  <2> QED
    BY <2>1, PowerOf, Zenon
<1>10. Cardinality(SUBSET (1 .. (n + 1))) = Cardinality(P \cup Q)
  BY <1>3, Zenon
<1> QED
  BY <1>1, <1>6, <1>7, <1>8, <1>9, <1>10

LEMMA PowerAdd ==
    ASSUME NEW m \in Nat
    PROVE  \A n \in Nat : 2^(m + n) = 2^m * 2^n
<1> DEFINE S == {n \in Nat : 2^(m + n) = 2^m * 2^n}
<1>1. 0 \in S
  <2>1. m + 0 = m
    OBVIOUS
  <2>2. 2^m \in Nat
    BY PowerOf
  <2>3. 2^m * 2^0 = 2^m
    BY <2>2, PowerZero
  <2> QED
    BY <2>1, <2>3, Zenon
<1>2. ASSUME NEW n \in Nat, n \in S PROVE n + 1 \in S
  <2> DEFINE p == 2^m   q == 2^n
  <2>1. p \in Nat /\ q \in Nat
    BY PowerOf
  <2>2. 2^((m + n) + 1) = 2 * 2^(m + n)
    <3>1. m + n \in Nat
      OBVIOUS
    <3> QED
      BY <3>1, PowerStep, Zenon
  <2>3. 2^(n + 1) = 2 * q
    BY PowerStep
  <2>4. 2^(m + n) = p * q
    BY <1>2, Zenon
  <2>5. m + (n + 1) = (m + n) + 1
    OBVIOUS
  <2>6. 2^(m + (n + 1)) = 2 * (p * q)
    BY <2>2, <2>4, <2>5, Zenon
  <2> HIDE DEF p, q
  <2>7. 2 * (p * q) = p * (2 * q)
    BY <2>1
  <2>8. 2^(m + (n + 1)) = p * 2^(n + 1)
    BY <2>3, <2>6, <2>7, Zenon
  <2>9. n + 1 \in Nat
    OBVIOUS
  <2> QED
    BY <2>8, <2>9, Zenon DEF p
<1> HIDE DEF S
<1>3. \A n \in Nat : n \in S
  BY <1>1, <1>2, OnNat!NatInduct
<1> QED
  BY <1>3, Zenon DEF S

LEMMA BType == B \in Nat /\ B > 0 /\ BF \in Nat /\ BF >= 2
<1>1. B \in Nat /\ B > 0
  BY BoundsAssumption
<1>2. B - 1 \in Nat /\ (B - 1) + 1 = B
  BY <1>1
<1>3. 2^((B - 1) + 1) = 2 * 2^(B - 1)
  BY <1>2, PowerStep, Zenon
<1>4. 2^(B - 1) \in Nat /\ 2^(B - 1) > 0
  BY <1>2, PowerOf
<1>5. BF = 2 * 2^(B - 1)
  BY <1>2, <1>3, Zenon DEF BF
<1> QED
  BY <1>1, <1>4, <1>5

LEMMA ProductMonotone ==
    ASSUME NEW a \in Nat, NEW b \in Nat, NEW d \in Nat, a <= b
    PROVE  a * d \in Nat /\ b * d \in Nat /\ a * d <= b * d
<1>1. b - a \in Nat
  OBVIOUS
<1>2. (b - a) * d \in Nat
  BY <1>1
<1>3. b * d = a * d + (b - a) * d
  OBVIOUS
<1> QED
  BY <1>2, <1>3

LEMMA DivideUnique ==
    ASSUME NEW n \in Nat, NEW d \in Nat, d > 0, NEW q \in Nat, NEW r \in Nat, n = q * d + r, r < d
    PROVE  n \div d = q /\ n % d = r
<1> DEFINE p == n \div d
           e == n % d
<1>1. p \in Nat /\ e \in Nat /\ e < d /\ n = p * d + e
  OBVIOUS
<1> HIDE DEF p, e
<1>2. CASE p < q
  <2>1. (p + 1) * d <= q * d
    BY <1>1, <1>2, ProductMonotone
  <2>2. (p + 1) * d = p * d + d /\ p * d \in Nat /\ q * d \in Nat
    BY <1>1
  <2> QED
    BY <1>1, <2>1, <2>2
<1>3. CASE q < p
  <2>1. (q + 1) * d <= p * d
    BY <1>1, <1>3, ProductMonotone
  <2>2. (q + 1) * d = q * d + d /\ p * d \in Nat /\ q * d \in Nat
    BY <1>1
  <2> QED
    BY <1>1, <2>1, <2>2
<1>4. CASE p = q
  <2>1. q * d \in Nat
    OBVIOUS
  <2>2. e = r
    BY <1>1, <1>4, <2>1
  <2> QED
    BY <1>4, <2>2 DEF p, e
<1> QED
  BY <1>1, <1>2, <1>3, <1>4

LEMMA Divide ==
    ASSUME NEW n \in Nat, NEW d \in Nat, d > 0
    PROVE  n \div d \in Nat /\ n % d \in Nat /\ n % d < d /\ n = (n \div d) * d + (n % d)
<1> DEFINE p == n \div d
           e == n % d
<1>1. p \in Nat /\ e \in Nat /\ e < d /\ n = p * d + e
  OBVIOUS
<1> QED
  BY <1>1

\* The fragment of an index at one level, of the index or of what is left of it.
LEMMA DivideTwice ==
    ASSUME NEW n \in Nat, NEW p \in Nat, p > 0, NEW f \in Nat, f > 0
    PROVE  /\ (n \div p) % f = (n % (p * f)) \div p
           /\ n % p = (n % (p * f)) % p
           /\ p * f \in Nat /\ p * f > 0
<1> DEFINE m == p * f
<1>1. m \in Nat /\ m > 0
  OBVIOUS
<1> DEFINE a == n \div m
           i == n % m
<1>2. a \in Nat /\ i \in Nat /\ i < m /\ n = a * m + i
  <2> HIDE DEF m
  <2> QED
    BY <1>1, Divide
<1> HIDE DEF a, i
<1> DEFINE c == i \div p
           r == i % p
<1>3. c \in Nat /\ r \in Nat /\ r < p /\ i = c * p + r
  BY <1>2, Divide
<1> HIDE DEF c, r
<1>4. c < f
  <2> SUFFICES ASSUME ~(c < f) PROVE FALSE
    OBVIOUS
  <2>1. f * p <= c * p
    BY <1>3, ProductMonotone
  <2>2. f * p = m
    OBVIOUS
  <2>3. c * p \in Nat
    BY <1>3
  <2> HIDE DEF m
  <2> QED
    BY <1>1, <1>2, <1>3, <2>1, <2>2, <2>3
<1>5. n = (a * f + c) * p + r /\ a * f + c \in Nat
  <2>1. a * (p * f) = (a * f) * p
    BY <1>2
  <2>2. (a * f + c) * p = (a * f) * p + c * p
    BY <1>2, <1>3
  <2>3. a * f \in Nat /\ (a * f) * p \in Nat /\ c * p \in Nat
    BY <1>2, <1>3
  <2> QED
    BY <1>2, <1>3, <2>1, <2>2, <2>3
<1>6. n \div p = a * f + c /\ n % p = r
  <2> DEFINE q == a * f + c
  <2>1. q \in Nat /\ n = q * p + r
    BY <1>5
  <2> HIDE DEF q
  <2>2. n \div p = q /\ n % p = r
    BY <1>3, <2>1, DivideUnique
  <2> QED
    BY <2>2 DEF q
<1>7. (a * f + c) % f = c
  <2> DEFINE z == a * f + c
  <2>1. z \in Nat /\ z = a * f + c
    BY <1>5
  <2> HIDE DEF z
  <2>2. z % f = c
    BY <1>2, <1>3, <1>4, <2>1, DivideUnique
  <2> QED
    BY <2>2 DEF z
<1>8. (n \div p) % f = c
  BY <1>6, <1>7, Zenon
<1>9. (n \div p) % f = (n % (p * f)) \div p
  BY <1>8, Zenon DEF c, i, m
<1>10. n % p = (n % (p * f)) % p
  BY <1>6, Zenon DEF r, i, m
<1> QED
  BY <1>1, <1>9, <1>10

\* A shift is a number of levels times B.
LEMMA ShiftIs ==
    ASSUME NEW s \in Shifts
    PROVE  s \in Nat /\ \E k \in Nat : s = k * B
<1>1. s \in Nat /\ s % B = 0
  BY DEF Shifts
<1> DEFINE k == s \div B
           r == s % B
<1>2. k \in Nat /\ s = k * B + r
  BY <1>1, BType, Divide
<1>3. r = 0
  BY <1>1
<1> HIDE DEF k, r
<1>4. s = k * B
  BY <1>2, <1>3, BType
<1> QED
  BY <1>1, <1>2, <1>4

LEMMA IsShift ==
    ASSUME NEW k \in Nat
    PROVE  k * B \in Shifts
<1> DEFINE s == k * B
<1>1. s \in Nat /\ s = k * B + 0 /\ B \in Nat /\ B > 0
  BY BType
<1> HIDE DEF s
<1>2. s % B = 0
  BY <1>1, DivideUnique
<1> QED
  BY <1>1, <1>2 DEF Shifts, s

LEMMA InnerType ==
    ASSUME NEW s \in Inner
    PROVE  /\ s \in Shifts /\ s \in Nat /\ s >= B /\ s - B \in Shifts /\ s - B \in Nat /\ s - B < s
           /\ s # B => s - B \in Inner
           /\ s = B => s - B = 0
           /\ s # 0
<1>1. s \in Shifts /\ s # 0 /\ s \in Nat
  BY ShiftIs DEF Inner
<1>2. PICK k \in Nat : s = k * B
  BY <1>1, ShiftIs
<1>3. k # 0
  BY <1>1, <1>2, BType
<1>4. k - 1 \in Nat /\ (k - 1) * B = k * B - B
  BY <1>3, BType
<1>5. (k - 1) * B \in Shifts
  BY <1>4, IsShift, Zenon
<1>6. s - B = (k - 1) * B
  BY <1>2, <1>4
<1>7. s - B \in Shifts
  BY <1>5, <1>6, Zenon
<1>8. s - B \in Nat
  BY <1>7, ShiftIs
<1> QED
  BY <1>1, <1>7, <1>8, BType DEF Inner

LEMMA ShiftUp ==
    ASSUME NEW s \in Shifts
    PROVE  s + B \in Inner /\ (s + B) - B = s
<1>1. PICK k \in Nat : s = k * B
  BY ShiftIs
<1>2. k + 1 \in Nat /\ (k + 1) * B = k * B + B
  BY BType
<1>3. s + B \in Shifts
  BY <1>1, <1>2, IsShift
<1> QED
  BY <1>3, ShiftIs, BType DEF Inner

LEMMA ShiftGap ==
    ASSUME NEW s \in Shifts, NEW t \in Shifts, s < t
    PROVE  s <= t - B
<1>1. PICK k \in Nat : s = k * B
  BY ShiftIs
<1>2. PICK m \in Nat : t = m * B
  BY ShiftIs
<1>3. k < m
  <2> SUFFICES ASSUME m <= k PROVE FALSE
    OBVIOUS
  <2>1. m * B <= k * B
    BY BType, ProductMonotone
  <2> QED
    BY <1>1, <1>2, <2>1, ShiftIs
<1>4. (k + 1) * B <= m * B
  BY <1>3, BType, ProductMonotone
<1>5. (k + 1) * B = k * B + B
  BY BType
<1> QED
  BY <1>1, <1>2, <1>4, <1>5, ShiftIs, BType

LEMMA BInner == B \in Inner /\ 0 \in Shifts /\ 0 \notin Inner
<1>1. 0 \in Shifts
  <2>1. 0 * B = 0
    BY BType
  <2> QED
    BY <2>1, IsShift
<1>2. 0 + B \in Inner
  BY <1>1, ShiftUp
<1> QED
  BY <1>1, <1>2, BType DEF Inner

\* The capacity of a child of a node at shift s, and of the node.
LEMMA Capacity ==
    ASSUME NEW s \in Shifts
    PROVE  2^s \in Nat /\ 2^s > 0 /\ 2^(s + B) = 2^s * BF
<1>1. s \in Nat /\ B \in Nat
  BY ShiftIs, BType
<1>2. 2^s \in Nat /\ 2^s > 0
  BY <1>1, PowerOf
<1> QED
  BY <1>1, <1>2, PowerAdd, Zenon DEF BF

LEMMA ShiftInduct ==
    ASSUME NEW P, 0 \in P, \A s \in Inner : s - B \in P => s \in P
    PROVE  \A s \in Shifts : s \in P
<1> DEFINE S == {k \in Nat : k * B \in P}
<1>1. 0 \in S
  BY BType
<1>2. ASSUME NEW k \in Nat, k \in S PROVE k + 1 \in S
  <2>1. k * B \in Shifts
    BY IsShift
  <2>2. k * B + B \in Inner /\ (k * B + B) - B = k * B
    BY <2>1, ShiftUp
  <2>3. k * B + B \in P
    BY <1>2, <2>2
  <2>4. (k + 1) * B = k * B + B
    BY BType
  <2> QED
    BY <2>3, <2>4
<1> HIDE DEF S
<1>3. \A k \in Nat : k \in S
  BY <1>1, <1>2, OnNat!NatInduct
<1> QED
  BY <1>3, ShiftIs, Zenon DEF S

LEMMA InnerInduct ==
    ASSUME NEW P, B \in P, \A s \in Inner : s # B /\ s - B \in P => s \in P
    PROVE  \A s \in Inner : s \in P
<1> DEFINE Q == P \cup {0}
<1>1. 0 \in Q
  OBVIOUS
<1>2. ASSUME NEW s \in Inner, s - B \in Q PROVE s \in Q
  <2>1. CASE s = B
    BY <2>1
  <2>2. CASE s # B
    <3>1. s - B # 0
      BY <2>2, InnerType DEF Inner
    <3> QED
      BY <1>2, <2>2, <3>1
  <2> QED
    BY <2>1, <2>2
<1> HIDE DEF Q
<1>3. \A s \in Shifts : s \in Q
  BY <1>1, <1>2, ShiftInduct
<1> QED
  BY <1>3 DEF Inner, Q

-----------------------------------------------------------------------------
(***************************************************************************)
(* Sequences.                                                              *)
(***************************************************************************)
LEMMA FrontLast ==
    ASSUME NEW S, NEW s \in Seq(S), s # <<>>
    PROVE  /\ Len(s) \in Nat /\ Len(s) > 0
           /\ Front(s) \in Seq(S) /\ Len(Front(s)) = Len(s) - 1
           /\ \A i \in 1 .. Len(s) - 1 : Front(s)[i] = s[i]
           /\ Last(s) \in S
           /\ s = Front(s) \o <<Last(s)>>
<1>1. Len(s) \in Nat /\ Len(s) > 0
  BY EmptySeq
<1>2. /\ Front(s) \in Seq(S) /\ Len(Front(s)) = Len(s) - 1
      /\ \A i \in 1 .. Len(s) - 1 : Front(s)[i] = s[i]
  <2> DEFINE k == Len(s) - 1
  <2>1. k \in Int /\ 1 \in Int /\ k \in Nat /\ \A i \in 1 .. k : s[i] \in S
    BY <1>1
  <2> HIDE DEF k
  <2>2. /\ SubSeq(s, 1, k) \in Seq(S)
        /\ Len(SubSeq(s, 1, k)) = IF 1 <= k THEN k - 1 + 1 ELSE 0
        /\ \A i \in 1 .. k - 1 + 1 : SubSeq(s, 1, k)[i] = s[1 + i - 1]
    BY <2>1
  <2>3. Len(SubSeq(s, 1, k)) = k
    BY <2>1, <2>2
  <2>4. \A i \in 1 .. k : SubSeq(s, 1, k)[i] = s[i]
    BY <2>1, <2>2
  <2> QED
    BY <2>2, <2>3, <2>4 DEF k, Front
<1>3. \A i \in 1 .. Len(s) - 1 : Front(s)[i] = s[i]
  BY <1>2
<1>4. Last(s) \in S
  BY <1>1 DEF Last
<1>5. s = Front(s) \o <<Last(s)>>
  <2>1. <<Last(s)>> \in Seq(S) /\ Len(<<Last(s)>>) = 1 /\ <<Last(s)>>[1] = Last(s)
    BY <1>4
  <2> DEFINE t == Front(s) \o <<Last(s)>>
  <2>2. t \in Seq(S) /\ Len(t) = Len(s)
    BY <1>1, <1>2, <2>1, ConcatProperties
  <2>3. ASSUME NEW i \in 1 .. Len(s) PROVE t[i] = s[i]
    <3>1. t[i] = IF i <= Len(s) - 1 THEN Front(s)[i] ELSE <<Last(s)>>[i - (Len(s) - 1)]
      BY <1>1, <1>2, <2>1, ConcatProperties
    <3>2. CASE i <= Len(s) - 1
      <4>1. t[i] = Front(s)[i]
        BY <3>1, <3>2, Zenon
      <4>2. i \in 1 .. Len(s) - 1
        BY <1>1, <3>2
      <4> QED
        BY <1>3, <4>1, <4>2, Zenon
    <3>3. CASE ~(i <= Len(s) - 1)
      <4>1. i = Len(s) /\ i - (Len(s) - 1) = 1
        BY <1>1, <3>3
      <4> QED
        BY <2>1, <3>1, <3>3, <4>1 DEF Last
    <3> QED
      BY <3>2, <3>3
  <2> HIDE DEF t
  <2>4. t = s
    BY <2>2, <2>3, SeqEqual, Zenon
  <2> QED
    BY <2>4 DEF t
<1> QED
  BY <1>1, <1>2, <1>3, <1>4, <1>5

LEMMA FrontOfConcat ==
    ASSUME NEW S, NEW s \in Seq(S), NEW x \in S
    PROVE  LET t == s \o <<x>>
           IN t \in Seq(S) /\ t # <<>> /\ Len(t) = Len(s) + 1 /\ Front(t) = s /\ Last(t) = x
<1> DEFINE t == s \o <<x>>
<1>1. t \in Seq(S) /\ Len(t) = Len(s) + 1 /\ Len(s) \in Nat
  OBVIOUS
<1>2. \A i \in 1 .. Len(s) : t[i] = s[i]
  OBVIOUS
<1>3. t[Len(s) + 1] = x
  BY <1>1
<1> HIDE DEF t
<1>4. t # <<>>
  BY <1>1
<1>5. Front(t) = s
  <2>1. /\ Front(t) \in Seq(S) /\ Len(Front(t)) = Len(t) - 1
        /\ \A i \in 1 .. Len(t) - 1 : Front(t)[i] = t[i]
    BY <1>1, <1>4, FrontLast, Zenon
  <2>2. Len(t) - 1 = Len(s)
    BY <1>1
  <2>3. Len(Front(t)) = Len(s) /\ \A i \in 1 .. Len(s) : Front(t)[i] = s[i]
    BY <1>2, <2>1, <2>2, Zenon
  <2> QED
    BY <2>1, <2>3, SeqEqual, Zenon
<1>6. Last(t) = x
  BY <1>1, <1>3 DEF Last
<1> QED
  BY <1>1, <1>4, <1>5, <1>6 DEF t

\* Induction over the sequences over S.
LEMMA SeqInduct ==
    ASSUME NEW S, NEW P, <<>> \in P,
           \A s \in Seq(S) : \A x \in S : s \in P => s \o <<x>> \in P
    PROVE  \A s \in Seq(S) : s \in P
<1> DEFINE N == {n \in Nat : \A s \in Seq(S) : Len(s) = n => s \in P}
<1>1. 0 \in N
  <2>1. \A s \in Seq(S) : Len(s) = 0 => s = <<>>
    BY EmptySeq
  <2> QED
    BY <2>1
<1>2. ASSUME NEW n \in Nat, n \in N PROVE n + 1 \in N
  <2> SUFFICES ASSUME NEW s \in Seq(S), Len(s) = n + 1 PROVE s \in P
    OBVIOUS
  <2>1. s # <<>>
    BY EmptySeq
  <2>2. /\ Front(s) \in Seq(S) /\ Len(Front(s)) = Len(s) - 1
        /\ Last(s) \in S /\ s = Front(s) \o <<Last(s)>>
    BY <2>1, FrontLast, Zenon
  <2>4. Len(Front(s)) = n
    BY <2>2
  <2>3. Front(s) \in P
    BY <1>2, <2>2, <2>4
  <2> QED
    BY <2>2, <2>3
<1> HIDE DEF N
<1>3. \A n \in Nat : n \in N
  BY <1>1, <1>2, OnNat!NatInduct
<1>4. \A s \in Seq(S) : Len(s) \in Nat
  OBVIOUS
<1> QED
  BY <1>3, <1>4 DEF N

-----------------------------------------------------------------------------
(***************************************************************************)
(* The recursive functions are what their definitions say.                 *)
(***************************************************************************)
LenRank(s) == Len(s)

LEMMA FrontRank ==
    ASSUME NEW S, NEW s \in Seq(S), s # <<>>
    PROVE  Front(s) \in Seq(S) /\ LenRank(Front(s)) < LenRank(s)
<1>1. Len(s) \in Nat /\ Front(s) \in Seq(S) /\ Len(Front(s)) = Len(s) - 1
  BY FrontLast, Zenon
<1>2. Len(Front(s)) < Len(s)
  BY <1>1
<1> QED
  BY <1>1, <1>2 DEF LenRank

JoinedBody(g, ss) == IF ss = <<>> THEN <<>> ELSE g[Front(ss)] \o Last(ss)
Joining == INSTANCE RecursiveFunctions WITH D <- Seq(Seq(Int)), Rank <- LenRank, Body <- JoinedBody

LEMMA JoinedIs == \A ss \in Seq(Seq(Int)) : joined[ss] = JoinedBody(joined, ss)
<1>1. joined = CHOOSE g : g = [ss \in Seq(Seq(Int)) |-> JoinedBody(g, ss)]
  BY Zenon DEF joined, JoinedBody
<1>2. Joining!Ranked
  BY DEF Joining!Ranked, LenRank
<1>3. Joining!Local
  <2> SUFFICES ASSUME NEW g, NEW h, NEW ss \in Seq(Seq(Int)),
                      \A t \in Seq(Seq(Int)) : LenRank(t) < LenRank(ss) => g[t] = h[t]
               PROVE  JoinedBody(g, ss) = JoinedBody(h, ss)
    BY Zenon DEF Joining!Local
  <2>1. CASE ss = <<>>
    BY <2>1, Zenon DEF JoinedBody
  <2>2. CASE ss # <<>>
    <3>1. Front(ss) \in Seq(Seq(Int)) /\ LenRank(Front(ss)) < LenRank(ss)
      BY <2>2, FrontRank, Zenon
    <3>2. g[Front(ss)] = h[Front(ss)]
      BY <3>1, Zenon
    <3> QED
      BY <3>2, Zenon DEF JoinedBody
  <2> QED
    BY <2>1, <2>2
<1> QED
  BY <1>1, <1>2, <1>3, Joining!RecursiveFunction, Zenon

TotalBody(g, ns) == IF ns = <<>> THEN 0 ELSE g[Front(ns)] + Last(ns)
Totalling == INSTANCE RecursiveFunctions WITH D <- Seq(Nat), Rank <- LenRank, Body <- TotalBody

LEMMA TotalIs == \A ns \in Seq(Nat) : total[ns] = TotalBody(total, ns)
<1>1. total = CHOOSE g : g = [ns \in Seq(Nat) |-> TotalBody(g, ns)]
  BY Zenon DEF total, TotalBody
<1>2. Totalling!Ranked
  BY DEF Totalling!Ranked, LenRank
<1>3. Totalling!Local
  <2> SUFFICES ASSUME NEW g, NEW h, NEW ns \in Seq(Nat),
                      \A t \in Seq(Nat) : LenRank(t) < LenRank(ns) => g[t] = h[t]
               PROVE  TotalBody(g, ns) = TotalBody(h, ns)
    BY Zenon DEF Totalling!Local
  <2>1. CASE ns = <<>>
    BY <2>1, Zenon DEF TotalBody
  <2>2. CASE ns # <<>>
    <3>1. Front(ns) \in Seq(Nat) /\ LenRank(Front(ns)) < LenRank(ns)
      BY <2>2, FrontRank, Zenon
    <3>2. g[Front(ns)] = h[Front(ns)]
      BY <3>1, Zenon
    <3> QED
      BY <3>2, Zenon DEF TotalBody
  <2> QED
    BY <2>1, <2>2
<1> QED
  BY <1>1, <1>2, <1>3, Totalling!RecursiveFunction, Zenon

\* Functions by the shift, whose value at s is made from the one at s - B.
NodesBody(g, s) == IF s = 0 THEN Seq(Int) ELSE [children : Seq(g[s - B]), sizes : Seq(Nat)]
Noding == INSTANCE RecursiveFunctions WITH D <- Shifts, Rank <- NatRank, Body <- NodesBody

LEMMA ShiftBelow ==
    ASSUME NEW g, NEW h, NEW s \in Shifts, \A t \in Shifts : NatRank(t) < NatRank(s) => g[t] = h[t], s # 0
    PROVE  g[s - B] = h[s - B]
BY InnerType DEF NatRank, Inner

LEMMA InnerBelow ==
    ASSUME NEW g, NEW h, NEW s \in Inner, \A t \in Inner : NatRank(t) < NatRank(s) => g[t] = h[t], s # B
    PROVE  g[s - B] = h[s - B]
BY InnerType DEF NatRank

LEMMA ShiftsRanked == \A s \in Shifts : NatRank(s) \in Nat
BY ShiftIs DEF NatRank

LEMMA InnerRanked == \A s \in Inner : NatRank(s) \in Nat
BY InnerType DEF NatRank

LEMMA NodesIs == \A s \in Shifts : Nodes[s] = NodesBody(Nodes, s)
<1>1. Nodes = CHOOSE g : g = [s \in Shifts |-> NodesBody(g, s)]
  BY Zenon DEF Nodes, NodesBody
<1>2. Noding!Ranked
  BY ShiftsRanked, Zenon DEF Noding!Ranked
<1>3. Noding!Local
  <2> SUFFICES ASSUME NEW g, NEW h, NEW s \in Shifts, \A t \in Shifts : NatRank(t) < NatRank(s) => g[t] = h[t]
               PROVE  NodesBody(g, s) = NodesBody(h, s)
    BY Zenon DEF Noding!Local
  <2>1. s # 0 => g[s - B] = h[s - B]
    BY ShiftBelow, Zenon
  <2> QED
    BY <2>1, Zenon DEF NodesBody
<1> QED
  BY <1>1, <1>2, <1>3, Noding!RecursiveFunction, Zenon

CopyBody(g, s) ==
  [n \in Nodes[s] |->
     joined[[i \in 1 .. child_count(n) |->
               IF s = B THEN n.children[i] ELSE g[s - B][n.children[i]]]]]
Copying == INSTANCE RecursiveFunctions WITH D <- Inner, Rank <- NatRank, Body <- CopyBody

LEMMA CopyIs == \A s \in Inner : copy_leaves[s] = CopyBody(copy_leaves, s)
<1>1. copy_leaves = CHOOSE g : g = [s \in Inner |-> CopyBody(g, s)]
  BY Zenon DEF copy_leaves, CopyBody
<1>2. Copying!Ranked
  BY InnerRanked, Zenon DEF Copying!Ranked
<1>3. Copying!Local
  <2> SUFFICES ASSUME NEW g, NEW h, NEW s \in Inner, \A t \in Inner : NatRank(t) < NatRank(s) => g[t] = h[t]
               PROVE  CopyBody(g, s) = CopyBody(h, s)
    BY Zenon DEF Copying!Local
  <2>1. CASE s = B
    BY <2>1, Zenon DEF CopyBody
  <2>2. CASE s # B
    <3>1. g[s - B] = h[s - B]
      BY <2>2, InnerBelow, Zenon
    <3> QED
      BY <3>1, Zenon DEF CopyBody
  <2> QED
    BY <2>1, <2>2
<1> QED
  BY <1>1, <1>2, <1>3, Copying!RecursiveFunction, Zenon

SizeBody(g, s) ==
  [n \in Nodes[s] |->
     IF s = 0 THEN Len(n)
     ELSE IF n.sizes = Dense
          THEN (child_count(n) - 1) * 2^s + g[s - B][Child(n, child_count(n) - 1)]
          ELSE Last(n.sizes)]
Sizing == INSTANCE RecursiveFunctions WITH D <- Shifts, Rank <- NatRank, Body <- SizeBody

LEMMA SizeIs == \A s \in Shifts : node_total_size[s] = SizeBody(node_total_size, s)
<1>1. node_total_size = CHOOSE g : g = [s \in Shifts |-> SizeBody(g, s)]
  BY Zenon DEF node_total_size, SizeBody
<1>2. Sizing!Ranked
  BY ShiftsRanked, Zenon DEF Sizing!Ranked
<1>3. Sizing!Local
  <2> SUFFICES ASSUME NEW g, NEW h, NEW s \in Shifts, \A t \in Shifts : NatRank(t) < NatRank(s) => g[t] = h[t]
               PROVE  SizeBody(g, s) = SizeBody(h, s)
    BY Zenon DEF Sizing!Local
  <2>1. CASE s = 0
    BY <2>1, Zenon DEF SizeBody
  <2>2. CASE s # 0
    <3>1. g[s - B] = h[s - B]
      BY <2>2, ShiftBelow, Zenon
    <3> QED
      BY <3>1, Zenon DEF SizeBody
  <2> QED
    BY <2>1, <2>2
<1> QED
  BY <1>1, <1>2, <1>3, Sizing!RecursiveFunction, Zenon

FormBody(g, s) ==
  IF s = 0 THEN {n \in Seq(Int) : Len(n) \in 1 .. BF}
  ELSE {n \in [children : Seq(g[s - B]), sizes : Seq(Nat)] :
          /\ Len(n.children) \in 1 .. BF
          /\ IF n.sizes = Dense
             THEN \A i \in 1 .. (Len(n.children) - 1) : Len(elems(n.children[i], s - B)) = 2^s
             ELSE n.sizes = [i \in 1 .. Len(n.children) |-> Len(all(SubSeq(n.children, 1, i), s - B))]}
Forming == INSTANCE RecursiveFunctions WITH D <- Shifts, Rank <- NatRank, Body <- FormBody

LEMMA FormIs == \A s \in Shifts : WellFormed[s] = FormBody(WellFormed, s)
<1>1. WellFormed = CHOOSE g : g = [s \in Shifts |-> FormBody(g, s)]
  BY Zenon DEF WellFormed, FormBody
<1>2. Forming!Ranked
  BY ShiftsRanked, Zenon DEF Forming!Ranked
<1>3. Forming!Local
  <2> SUFFICES ASSUME NEW g, NEW h, NEW s \in Shifts, \A t \in Shifts : NatRank(t) < NatRank(s) => g[t] = h[t]
               PROVE  FormBody(g, s) = FormBody(h, s)
    BY Zenon DEF Forming!Local
  <2>1. s # 0 => g[s - B] = h[s - B]
    BY ShiftBelow, Zenon
  <2> QED
    BY <2>1, Zenon DEF FormBody
<1> QED
  BY <1>1, <1>2, <1>3, Forming!RecursiveFunction, Zenon

-----------------------------------------------------------------------------
(***************************************************************************)
(* Joining sequences and adding up numbers.                                *)
(***************************************************************************)
LEMMA Associative ==
    ASSUME NEW S, NEW a \in Seq(S), NEW b \in Seq(S), NEW c \in Seq(S)
    PROVE  /\ (a \o b) \o c = a \o (b \o c) /\ a \o (b \o c) = (a \o b) \o c
           /\ a \o b \in Seq(S) /\ b \o c \in Seq(S)
BY ConcatAssociative

LEMMA Assoc ==
    ASSUME NEW a \in Seq(Int), NEW b \in Seq(Int), NEW c \in Seq(Int)
    PROVE  /\ (a \o b) \o c = a \o (b \o c)
           /\ a \o b \in Seq(Int) /\ b \o c \in Seq(Int)
BY ConcatAssociative, SMTT(40)

LEMMA JoinedEmpty == joined[<<>>] = <<>>
<1>1. <<>> \in Seq(Seq(Int))
  OBVIOUS
<1> QED
  BY <1>1, JoinedIs, Zenon DEF JoinedBody

LEMMA JoinedSnoc ==
    ASSUME NEW ss \in Seq(Seq(Int)), NEW x \in Seq(Int)
    PROVE  joined[ss \o <<x>>] = joined[ss] \o x
<1> DEFINE t == ss \o <<x>>
<1>1. t \in Seq(Seq(Int)) /\ t # <<>> /\ Front(t) = ss /\ Last(t) = x
  BY FrontOfConcat, Zenon
<1> HIDE DEF t
<1>2. joined[t] = joined[ss] \o x
  BY <1>1, JoinedIs, Zenon DEF JoinedBody
<1> QED
  BY <1>2 DEF t

LEMMA JoinedType == \A ss \in Seq(Seq(Int)) : joined[ss] \in Seq(Int)
<1> DEFINE P == {ss \in Seq(Seq(Int)) : joined[ss] \in Seq(Int)}
<1>1. <<>> \in P
  BY JoinedEmpty, EmptySeq
<1>2. ASSUME NEW ss \in Seq(Seq(Int)), NEW x \in Seq(Int), ss \in P PROVE ss \o <<x>> \in P
  <2>1. joined[ss \o <<x>>] = joined[ss] \o x
    BY JoinedSnoc
  <2>2. joined[ss] \o x \in Seq(Int)
    BY <1>2
  <2>3. ss \o <<x>> \in Seq(Seq(Int))
    OBVIOUS
  <2> QED
    BY <2>1, <2>2, <2>3
<1> HIDE DEF P
<1>3. \A ss \in Seq(Seq(Int)) : ss \in P
  BY <1>1, <1>2, SeqInduct
<1> QED
  BY <1>3 DEF P

LEMMA JoinedConcat ==
    ASSUME NEW k \in Seq(Seq(Int))
    PROVE  \A l \in Seq(Seq(Int)) : joined[k \o l] = joined[k] \o joined[l]
<1> DEFINE P == {l \in Seq(Seq(Int)) : joined[k \o l] = joined[k] \o joined[l]}
<1>1. <<>> \in P
  <2>1. k \o <<>> = k
    BY ConcatEmptySeq
  <2>2. joined[k] \o <<>> = joined[k]
    BY JoinedType, ConcatEmptySeq
  <2> QED
    BY <2>1, <2>2, JoinedEmpty, EmptySeq
<1>2. ASSUME NEW l \in Seq(Seq(Int)), NEW x \in Seq(Int), l \in P PROVE l \o <<x>> \in P
  <2>1. k \o (l \o <<x>>) = (k \o l) \o <<x>>
    <3>1. <<x>> \in Seq(Seq(Int))
      OBVIOUS
    <3> QED
      BY <3>1, Associative
  <2>2. k \o l \in Seq(Seq(Int)) /\ l \o <<x>> \in Seq(Seq(Int))
    OBVIOUS
  <2>3. joined[(k \o l) \o <<x>>] = joined[k \o l] \o x
    BY <2>2, JoinedSnoc, Zenon
  <2>4. joined[l \o <<x>>] = joined[l] \o x
    BY JoinedSnoc
  <2>5. joined[k \o l] = joined[k] \o joined[l]
    BY <1>2
  <2>6. (joined[k] \o joined[l]) \o x = joined[k] \o (joined[l] \o x)
    <3>1. joined[k] \in Seq(Int) /\ joined[l] \in Seq(Int)
      BY JoinedType
    <3> QED
      BY <3>1, Assoc, ZenonT(60)
  <2> QED
    BY <2>1, <2>2, <2>3, <2>4, <2>5, <2>6, Zenon
<1> HIDE DEF P
<1>3. \A l \in Seq(Seq(Int)) : l \in P
  BY <1>1, <1>2, SeqInduct
<1> QED
  BY <1>3 DEF P

LEMMA TotalEmpty == total[<<>>] = 0
<1>1. <<>> \in Seq(Nat)
  OBVIOUS
<1> QED
  BY <1>1, TotalIs, Zenon DEF TotalBody

LEMMA TotalSnoc ==
    ASSUME NEW ns \in Seq(Nat), NEW x \in Nat
    PROVE  total[ns \o <<x>>] = total[ns] + x
<1> DEFINE t == ns \o <<x>>
<1>1. t \in Seq(Nat) /\ t # <<>> /\ Front(t) = ns /\ Last(t) = x
  BY FrontOfConcat, Zenon
<1> HIDE DEF t
<1>2. total[t] = total[ns] + x
  BY <1>1, TotalIs, Zenon DEF TotalBody
<1> QED
  BY <1>2 DEF t

-----------------------------------------------------------------------------
(***************************************************************************)
(* The elements of lists of nodes.  Clear(s) is what a set of nodes of one *)
(* depth must have for them to make sense.                                 *)
(***************************************************************************)
Clear(T, s) == \A n \in T : elems(n, s) \in Seq(Int)
Elems(ns, s) == [i \in 1 .. Len(ns) |-> elems(ns[i], s)]

LEMMA ElemsSeq ==
    ASSUME NEW T, NEW s, Clear(T, s), NEW ns \in Seq(T)
    PROVE  Elems(ns, s) \in Seq(Seq(Int)) /\ Len(Elems(ns, s)) = Len(ns)
<1>1. Len(ns) \in Nat /\ \A i \in 1 .. Len(ns) : elems(ns[i], s) \in Seq(Int)
  BY DEF Clear
<1> QED
  BY <1>1 DEF Elems

LEMMA AllIs == \A ns, s : all(ns, s) = joined[Elems(ns, s)]
BY Zenon DEF all, Elems

LEMMA AllType ==
    ASSUME NEW T, NEW s, Clear(T, s), NEW ns \in Seq(T)
    PROVE  all(ns, s) \in Seq(Int)
BY ElemsSeq, AllIs, JoinedType, Zenon

LEMMA AllEmpty == \A s : all(<<>>, s) = <<>>
<1> SUFFICES ASSUME NEW s PROVE all(<<>>, s) = <<>>
  OBVIOUS
<1>1. Elems(<<>>, s) = <<>>
  BY DEF Elems
<1> QED
  BY <1>1, AllIs, JoinedEmpty, Zenon

LEMMA AllOne ==
    ASSUME NEW s, NEW n, elems(n, s) \in Seq(Int)
    PROVE  all(<<n>>, s) = elems(n, s)
<1> DEFINE x == elems(n, s)
<1>1. Elems(<<n>>, s) = <<x>>
  BY DEF Elems
<1> HIDE DEF x
<1>2. <<>> \o <<x>> = <<x>> /\ <<>> \in Seq(Seq(Int)) /\ x \in Seq(Int) /\ <<>> \o x = x
  BY DEF x
<1>3. joined[<<>> \o <<x>>] = joined[<<>>] \o x
  BY <1>2, JoinedSnoc, Zenon
<1> QED
  BY <1>1, <1>2, <1>3, AllIs, JoinedEmpty, Zenon DEF x

LEMMA AllConcat ==
    ASSUME NEW T, NEW s, Clear(T, s), NEW a \in Seq(T), NEW b \in Seq(T)
    PROVE  /\ all(a \o b, s) = all(a, s) \o all(b, s)
           /\ Len(all(a \o b, s)) = Len(all(a, s)) + Len(all(b, s))
<1>1. Elems(a, s) \in Seq(Seq(Int)) /\ Len(Elems(a, s)) = Len(a)
  BY ElemsSeq
<1>2. Elems(b, s) \in Seq(Seq(Int)) /\ Len(Elems(b, s)) = Len(b)
  BY ElemsSeq
<1>3. a \o b \in Seq(T) /\ Len(a \o b) = Len(a) + Len(b)
  OBVIOUS
<1>4. Elems(a \o b, s) \in Seq(Seq(Int)) /\ Len(Elems(a \o b, s)) = Len(a) + Len(b)
  BY <1>3, ElemsSeq
<1>5. Elems(a \o b, s) = Elems(a, s) \o Elems(b, s)
  <2> DEFINE x == Elems(a, s)
             y == Elems(b, s)
             z == Elems(a \o b, s)
  <2>1. Len(a) \in Nat /\ Len(b) \in Nat
    OBVIOUS
  <2>2. \A i \in 1 .. Len(a) : x[i] = elems(a[i], s)
    BY DEF Elems
  <2>3. \A i \in 1 .. Len(b) : y[i] = elems(b[i], s)
    BY DEF Elems
  <2>4. \A i \in 1 .. Len(a) + Len(b) : z[i] = elems((a \o b)[i], s)
    BY <1>3 DEF Elems
  <2>8. /\ x \in Seq(Seq(Int)) /\ Len(x) = Len(a)
        /\ y \in Seq(Seq(Int)) /\ Len(y) = Len(b)
    BY <1>1, <1>2
  <2> HIDE DEF x, y, z
  <2>5. x \o y \in Seq(Seq(Int)) /\ Len(x \o y) = Len(a) + Len(b)
    <3> DEFINE L == Seq(Int)
    <3>1. x \in Seq(L) /\ y \in Seq(L)
      BY <2>8
    <3> HIDE DEF L
    <3>2. x \o y \in Seq(L) /\ Len(x \o y) = Len(x) + Len(y)
      BY <3>1
    <3> QED
      BY <2>8, <3>2, Zenon DEF L
  <2>6. ASSUME NEW i \in 1 .. Len(z) PROVE z[i] = (x \o y)[i]
    <3>1. i \in 1 .. Len(a) + Len(b)
      BY <1>4 DEF z
    <3>2. CASE i <= Len(a)
      <4>1. (a \o b)[i] = a[i] /\ (x \o y)[i] = x[i]
        BY <2>1, <2>8, <3>1, <3>2
      <4> QED
        BY <2>1, <2>2, <2>4, <3>1, <3>2, <4>1
    <3>3. CASE ~(i <= Len(a))
      <4>1. (a \o b)[i] = b[i - Len(a)] /\ (x \o y)[i] = y[i - Len(a)]
        BY <2>1, <2>8, <3>1, <3>3
      <4>2. i - Len(a) \in 1 .. Len(b)
        BY <2>1, <3>1, <3>3
      <4> QED
        BY <2>3, <2>4, <3>1, <4>1, <4>2, Zenon
    <3> QED
      BY <3>2, <3>3
  <2>7. z \in Seq(Seq(Int)) /\ Len(z) = Len(x \o y)
    BY <1>4, <2>5 DEF z
  <2> QED
    BY <2>5, <2>6, <2>7, SeqEqual, Zenon DEF x, y, z
<1>6. joined[Elems(a, s) \o Elems(b, s)] = joined[Elems(a, s)] \o joined[Elems(b, s)]
  BY <1>1, <1>2, JoinedConcat, Zenon
<1>7. all(a \o b, s) = all(a, s) \o all(b, s)
  BY <1>5, <1>6, AllIs, Zenon
<1>8. all(a, s) \in Seq(Int) /\ all(b, s) \in Seq(Int)
  BY AllType
<1> QED
  BY <1>7, <1>8

-----------------------------------------------------------------------------
(***************************************************************************)
(* Well-formed nodes.                                                      *)
(***************************************************************************)
LEMMA LeafForm == WellFormed[0] = {n \in Seq(Int) : Len(n) \in 1 .. BF} /\ Nodes[0] = Seq(Int)
BY FormIs, NodesIs, BInner, Zenon DEF FormBody, NodesBody

\* What the sizes of a node are.
SizesFit(ch, sz, s) ==
  IF sz = Dense
  THEN \A i \in 1 .. (Len(ch) - 1) : Len(elems(ch[i], s - B)) = 2^s
  ELSE sz = [i \in 1 .. Len(ch) |-> Len(all(SubSeq(ch, 1, i), s - B))]

LEMMA InnerForm ==
    ASSUME NEW s \in Inner
    PROVE  /\ WellFormed[s] = {n \in [children : Seq(WellFormed[s - B]), sizes : Seq(Nat)] :
                                 Len(n.children) \in 1 .. BF /\ SizesFit(n.children, n.sizes, s)}
           /\ Nodes[s] = [children : Seq(Nodes[s - B]), sizes : Seq(Nat)]
<1>1. s \in Shifts /\ s # 0
  BY InnerType
<1>2. WellFormed[s] = FormBody(WellFormed, s) /\ Nodes[s] = NodesBody(Nodes, s)
  BY <1>1, FormIs, NodesIs, Zenon
<1> QED
  BY <1>1, <1>2, Zenon DEF FormBody, NodesBody, SizesFit

LEMMA FormFields ==
    ASSUME NEW s \in Inner, NEW n \in WellFormed[s]
    PROVE  /\ n = [children |-> n.children, sizes |-> n.sizes]
           /\ n.children \in Seq(WellFormed[s - B]) /\ n.sizes \in Seq(Nat)
           /\ Len(n.children) \in 1 .. BF /\ n.children # <<>>
           /\ SizesFit(n.children, n.sizes, s)
           /\ n # Null
<1> DEFINE C == Seq(WellFormed[s - B])
           Z == Seq(Nat)
<1>1. /\ n \in [children : C, sizes : Z]
      /\ Len(n.children) \in 1 .. BF /\ SizesFit(n.children, n.sizes, s)
  BY InnerForm, Zenon
<1> HIDE DEF C, Z
<1>2. n = [children |-> n.children, sizes |-> n.sizes] /\ n.children \in C /\ n.sizes \in Z
  BY <1>1
<1>3. n.children # <<>>
  <2> SUFFICES ASSUME n.children = <<>> PROVE FALSE
    OBVIOUS
  <2>1. Len(n.children) = 0
    OBVIOUS
  <2> QED
    BY <1>1, <2>1, BType
<1>4. n # Null
  <2>1. Null.children = <<>>
    BY DEF Null
  <2> QED
    BY <1>3, <2>1, Zenon
<1> QED
  BY <1>1, <1>2, <1>3, <1>4, Zenon DEF C, Z

LEMMA FormOf ==
    ASSUME NEW s \in Inner, NEW ch \in Seq(WellFormed[s - B]), NEW sz \in Seq(Nat),
           Len(ch) \in 1 .. BF, SizesFit(ch, sz, s)
    PROVE  [children |-> ch, sizes |-> sz] \in WellFormed[s]
<1> DEFINE C == Seq(WellFormed[s - B])
           Z == Seq(Nat)
           n == [children |-> ch, sizes |-> sz]
<1>1. ch \in C /\ sz \in Z
  OBVIOUS
<1> HIDE DEF C, Z
<1>2. n \in [children : C, sizes : Z] /\ n.children = ch /\ n.sizes = sz
  BY <1>1
<1> HIDE DEF n
<1>3. Len(n.children) \in 1 .. BF /\ SizesFit(n.children, n.sizes, s)
  BY <1>2, Zenon
<1>4. n \in WellFormed[s]
  BY <1>2, <1>3, InnerForm, Zenon DEF C, Z
<1> QED
  BY <1>4 DEF n

LEMMA SizesLen ==
    ASSUME NEW s \in Inner, NEW ch, NEW sz \in Seq(Nat), Len(ch) \in 1 .. BF, SizesFit(ch, sz, s), sz # Dense
    PROVE  /\ Len(sz) = Len(ch)
           /\ \A i \in 1 .. Len(ch) : sz[i] = Len(all(SubSeq(ch, 1, i), s - B))
<1> DEFINE F(i) == Len(all(SubSeq(ch, 1, i), s - B))
           k == Len(ch)
<1>1. sz = [i \in 1 .. k |-> F(i)]
  BY Zenon DEF SizesFit
<1>2. k \in Nat
  BY BType
<1> HIDE DEF F, k
<1>3. DOMAIN sz = 1 .. k /\ \A i \in 1 .. k : sz[i] = F(i)
  BY <1>1
<1>4. DOMAIN sz = 1 .. Len(sz) /\ Len(sz) \in Nat
  OBVIOUS
<1>5. Len(sz) = k
  BY <1>2, <1>3, <1>4
<1> QED
  BY <1>3, <1>5 DEF F, k

LEMMA FormCount ==
    ASSUME NEW s \in Inner, NEW n \in WellFormed[s]
    PROVE  child_count(n) = Len(n.children)
<1>1. /\ n.sizes \in Seq(Nat) /\ Len(n.children) \in 1 .. BF /\ SizesFit(n.children, n.sizes, s)
  BY FormFields
<1>2. CASE n.sizes = Dense
  BY <1>2 DEF child_count
<1>3. CASE n.sizes # Dense
  <2>1. Len(n.sizes) = Len(n.children)
    BY <1>1, <1>3, SizesLen, Zenon
  <2> QED
    BY <1>3, <2>1 DEF child_count
<1> QED
  BY <1>2, <1>3

LEMMA FormNodes == \A s \in Shifts : WellFormed[s] \subseteq Nodes[s]
<1> DEFINE P == {s \in Shifts : WellFormed[s] \subseteq Nodes[s]}
<1>1. 0 \in P
  BY LeafForm, BInner
<1>2. ASSUME NEW s \in Inner, s - B \in P PROVE s \in P
  <2> SUFFICES ASSUME NEW n \in WellFormed[s] PROVE n \in Nodes[s]
    BY InnerType
  <2> DEFINE W == WellFormed[s - B]
             N == Nodes[s - B]
             Z == Seq(Nat)
  <2>1. W \subseteq N
    BY <1>2
  <2>2. n = [children |-> n.children, sizes |-> n.sizes] /\ n.children \in Seq(W) /\ n.sizes \in Z
    BY FormFields
  <2> HIDE DEF W, N, Z
  <2>3. n.children \in Seq(N)
    BY <2>1, <2>2, SeqMonotonic
  <2> DEFINE C == Seq(N)
  <2>4. n.children \in C
    BY <2>3
  <2> HIDE DEF C
  <2>5. n \in [children : C, sizes : Z]
    BY <2>2, <2>4
  <2> QED
    BY <2>5, InnerForm, Zenon DEF C, N, Z
<1> HIDE DEF P
<1>3. \A s \in Shifts : s \in P
  BY <1>1, <1>2, ShiftInduct
<1> QED
  BY <1>3 DEF P

LEMMA ElemsLeaf == \A n : elems(n, 0) = n
BY DEF elems

LEMMA ElemsInner ==
    ASSUME NEW s \in Inner, NEW n \in WellFormed[s]
    PROVE  elems(n, s) = all(n.children, s - B)
<1>1. n \in Nodes[s] /\ s # 0
  BY FormNodes, InnerType
<1>2. elems(n, s) = copy_leaves[s][n]
  BY <1>1 DEF elems
<1>3. copy_leaves[s][n] = joined[[i \in 1 .. child_count(n) |->
                                   IF s = B THEN n.children[i] ELSE copy_leaves[s - B][n.children[i]]]]
  <2>1. copy_leaves[s] = CopyBody(copy_leaves, s)
    BY CopyIs
  <2> QED
    BY <1>1, <2>1, Zenon DEF CopyBody
<1>4. child_count(n) = Len(n.children)
  BY FormCount
<1>5. [i \in 1 .. Len(n.children) |-> IF s = B THEN n.children[i] ELSE copy_leaves[s - B][n.children[i]]]
        = [i \in 1 .. Len(n.children) |-> elems(n.children[i], s - B)]
  <2>1. (s = B) <=> (s - B = 0)
    BY InnerType, BType
  <2>2. CASE s = B
    BY <2>1, <2>2, Zenon DEF elems
  <2>3. CASE s # B
    BY <2>1, <2>3, Zenon DEF elems
  <2> QED
    BY <2>2, <2>3
<1> QED
  BY <1>2, <1>3, <1>4, <1>5, Zenon DEF all

LEMMA AllSnoc ==
    ASSUME NEW T, NEW s, Clear(T, s), NEW ns \in Seq(T), NEW n \in T
    PROVE  /\ ns \o <<n>> \in Seq(T) /\ Len(ns \o <<n>>) = Len(ns) + 1
           /\ all(ns \o <<n>>, s) = all(ns, s) \o elems(n, s)
           /\ all(ns, s) \in Seq(Int) /\ elems(n, s) \in Seq(Int)
           /\ Len(all(ns \o <<n>>, s)) = Len(all(ns, s)) + Len(elems(n, s))
<1>1. <<n>> \in Seq(T)
  OBVIOUS
<1>2. elems(n, s) \in Seq(Int)
  BY DEF Clear
<1>3. all(<<n>>, s) = elems(n, s)
  BY <1>2, AllOne
<1>4. /\ all(ns \o <<n>>, s) = all(ns, s) \o all(<<n>>, s)
      /\ Len(all(ns \o <<n>>, s)) = Len(all(ns, s)) + Len(all(<<n>>, s))
  BY <1>1, AllConcat
<1>5. ns \o <<n>> \in Seq(T) /\ Len(ns \o <<n>>) = Len(ns) + 1
  OBVIOUS
<1>6. all(ns, s) \in Seq(Int)
  BY AllType
<1> QED
  BY <1>2, <1>3, <1>4, <1>5, <1>6, Zenon

LEMMA AllBounds ==
    ASSUME NEW T, NEW s, Clear(T, s), NEW lo \in Nat, NEW hi \in Nat,
           \A n \in T : lo <= Len(elems(n, s)) /\ Len(elems(n, s)) <= hi
    PROVE  \A ns \in Seq(T) : Len(ns) * lo <= Len(all(ns, s)) /\ Len(all(ns, s)) <= Len(ns) * hi
<1> DEFINE P == {ns \in Seq(T) : Len(ns) * lo <= Len(all(ns, s)) /\ Len(all(ns, s)) <= Len(ns) * hi}
<1>1. <<>> \in P
  <2>1. all(<<>>, s) = <<>> /\ <<>> \in Seq(T)
    BY AllEmpty, EmptySeq
  <2>2. Len(<<>>) = 0 /\ 0 * lo = 0 /\ 0 * hi = 0
    OBVIOUS
  <2> QED
    BY <2>1, <2>2
<1>2. ASSUME NEW ns \in Seq(T), NEW n \in T, ns \in P PROVE ns \o <<n>> \in P
  <2> DEFINE a == Len(all(ns, s))
             e == Len(elems(n, s))
             k == Len(ns)
  <2>1. /\ ns \o <<n>> \in Seq(T) /\ Len(ns \o <<n>>) = k + 1
        /\ all(ns, s) \in Seq(Int) /\ elems(n, s) \in Seq(Int)
        /\ Len(all(ns \o <<n>>, s)) = a + e
    BY AllSnoc
  <2>2. a \in Nat /\ e \in Nat /\ k \in Nat
    BY <2>1
  <2>3. k * lo <= a /\ a <= k * hi
    BY <1>2
  <2>4. lo <= e /\ e <= hi
    OBVIOUS
  <2> HIDE DEF a, e, k
  <2>5. (k + 1) * lo = k * lo + lo /\ (k + 1) * hi = k * hi + hi
    BY <2>2
  <2>6. k * lo \in Nat /\ k * hi \in Nat
    BY <2>2
  <2>7. (k + 1) * lo <= a + e /\ a + e <= (k + 1) * hi
    BY <2>2, <2>3, <2>4, <2>5, <2>6
  <2> QED
    BY <2>1, <2>7, Zenon
<1> HIDE DEF P
<1>3. \A ns \in Seq(T) : ns \in P
  BY <1>1, <1>2, SeqInduct
<1> QED
  BY <1>3 DEF P

\* A node at shift s has between 1 and 2^(s + B) elements.
Sound(s) == /\ Clear(WellFormed[s], s)
            /\ \A n \in WellFormed[s] : 1 <= Len(elems(n, s)) /\ Len(elems(n, s)) <= 2^(s + B)

LEMMA SoundLeaf == Sound(0)
<1> SUFFICES ASSUME NEW n \in WellFormed[0]
             PROVE  elems(n, 0) \in Seq(Int) /\ 1 <= Len(elems(n, 0)) /\ Len(elems(n, 0)) <= 2^(0 + B)
  BY DEF Sound, Clear
<1>1. n \in Seq(Int) /\ Len(n) \in 1 .. BF /\ elems(n, 0) = n
  BY LeafForm, ElemsLeaf
<1>2. 2^(0 + B) = BF
  BY BType DEF BF
<1> QED
  BY <1>1, <1>2, BType

LEMMA SoundInner ==
    ASSUME NEW s \in Inner, Sound(s - B)
    PROVE  Sound(s)
<1> SUFFICES ASSUME NEW n \in WellFormed[s]
             PROVE  elems(n, s) \in Seq(Int) /\ 1 <= Len(elems(n, s)) /\ Len(elems(n, s)) <= 2^(s + B)
  BY DEF Sound, Clear
<1> DEFINE T == WellFormed[s - B]
           ch == n.children
           c == 2^s
           k == Len(ch)
           a == Len(all(ch, s - B))
<1>1. ch \in Seq(T) /\ k \in 1 .. BF
  BY FormFields
<1>2. elems(n, s) = all(ch, s - B)
  BY ElemsInner
<1>3. Clear(T, s - B)
  BY DEF Sound
<1>4. all(ch, s - B) \in Seq(Int)
  BY <1>1, <1>3, AllType
<1>5. s \in Shifts /\ (s - B) + B = s
  BY InnerType, BType
<1>6. \A x \in T : 1 <= Len(elems(x, s - B)) /\ Len(elems(x, s - B)) <= c
  BY <1>5 DEF Sound
<1>7. c \in Nat /\ c > 0 /\ 2^(s + B) = c * BF
  BY <1>5, Capacity
<1>8. a \in Nat
  BY <1>4
<1> HIDE DEF T, ch, c, a, k
<1>9. Len(ch) * 1 <= a /\ a <= Len(ch) * c
  <2>1. 1 \in Nat
    OBVIOUS
  <2> QED
    BY <1>1, <1>3, <1>6, <1>7, <2>1, AllBounds DEF a
<1>10. k * c <= BF * c
  BY <1>1, <1>7, BType, ProductMonotone
<1>11. BF * c = c * BF /\ BF * c \in Nat /\ k * c \in Nat /\ k * 1 = k
  BY <1>1, <1>7, BType
<1>12. 1 <= a /\ a <= 2^(s + B)
  BY <1>1, <1>7, <1>8, <1>9, <1>10, <1>11, BType DEF k
<1> QED
  BY <1>2, <1>4, <1>12 DEF a, ch

LEMMA FormSound == \A s \in Shifts : Sound(s)
<1> DEFINE P == {s \in Shifts : Sound(s)}
<1>1. 0 \in P
  BY SoundLeaf, BInner
<1>2. ASSUME NEW s \in Inner, s - B \in P PROVE s \in P
  BY <1>2, SoundInner, InnerType
<1> HIDE DEF P
<1>3. \A s \in Shifts : s \in P
  BY <1>1, <1>2, ShiftInduct
<1> QED
  BY <1>3 DEF P

LEMMA FormElems ==
    ASSUME NEW s \in Shifts, NEW n \in WellFormed[s]
    PROVE  /\ elems(n, s) \in Seq(Int) /\ Len(elems(n, s)) \in Nat
           /\ 1 <= Len(elems(n, s)) /\ Len(elems(n, s)) <= 2^(s + B)
BY FormSound DEF Sound, Clear

\* Lists of well-formed nodes.
LEMMA ListType ==
    ASSUME NEW s \in Shifts, NEW ns \in Seq(WellFormed[s])
    PROVE  all(ns, s) \in Seq(Int) /\ Len(all(ns, s)) \in Nat
<1>1. Clear(WellFormed[s], s)
  BY FormSound DEF Sound
<1>2. all(ns, s) \in Seq(Int)
  BY <1>1, AllType
<1> QED
  BY <1>2

LEMMA ListConcat ==
    ASSUME NEW s \in Shifts, NEW a \in Seq(WellFormed[s]), NEW b \in Seq(WellFormed[s])
    PROVE  /\ a \o b \in Seq(WellFormed[s]) /\ Len(a \o b) = Len(a) + Len(b)
           /\ all(a \o b, s) = all(a, s) \o all(b, s)
           /\ Len(all(a \o b, s)) = Len(all(a, s)) + Len(all(b, s))
<1>1. Clear(WellFormed[s], s)
  BY FormSound DEF Sound
<1>2. a \o b \in Seq(WellFormed[s]) /\ Len(a \o b) = Len(a) + Len(b)
  BY ConcatProperties
<1> QED
  BY <1>1, <1>2, AllConcat

LEMMA ListOne ==
    ASSUME NEW s \in Shifts, NEW n \in WellFormed[s]
    PROVE  <<n>> \in Seq(WellFormed[s]) /\ Len(<<n>>) = 1 /\ all(<<n>>, s) = elems(n, s)
<1>1. elems(n, s) \in Seq(Int)
  BY FormElems
<1>2. all(<<n>>, s) = elems(n, s)
  BY <1>1, AllOne, Zenon
<1> DEFINE W == WellFormed[s]
<1>3. n \in W
  OBVIOUS
<1> HIDE DEF W
<1>4. <<n>> \in Seq(W) /\ Len(<<n>>) = 1
  BY <1>3
<1> QED
  BY <1>2, <1>4, Zenon DEF W

LEMMA ListSnoc ==
    ASSUME NEW s \in Shifts, NEW ns \in Seq(WellFormed[s]), NEW n \in WellFormed[s]
    PROVE  /\ ns \o <<n>> \in Seq(WellFormed[s]) /\ Len(ns \o <<n>>) = Len(ns) + 1
           /\ all(ns \o <<n>>, s) = all(ns, s) \o elems(n, s)
           /\ Len(all(ns \o <<n>>, s)) = Len(all(ns, s)) + Len(elems(n, s))
<1> DEFINE W == WellFormed[s]
<1>1. Clear(W, s) /\ ns \in Seq(W) /\ n \in W
  BY FormSound DEF Sound
<1> HIDE DEF W
<1>2. /\ ns \o <<n>> \in Seq(W) /\ Len(ns \o <<n>>) = Len(ns) + 1
      /\ all(ns \o <<n>>, s) = all(ns, s) \o elems(n, s)
      /\ Len(all(ns \o <<n>>, s)) = Len(all(ns, s)) + Len(elems(n, s))
  <2>1. ns \o <<n>> \in Seq(W) /\ Len(ns \o <<n>>) = Len(ns) + 1
    BY <1>1, AllSnoc
  <2>2. all(ns \o <<n>>, s) = all(ns, s) \o elems(n, s)
    BY <1>1, AllSnoc, Zenon
  <2>3. Len(all(ns \o <<n>>, s)) = Len(all(ns, s)) + Len(elems(n, s))
    BY <1>1, AllSnoc
  <2> QED
    BY <2>1, <2>2, <2>3, Zenon
<1> QED
  BY <1>2, Zenon DEF W

LEMMA ListBounds ==
    ASSUME NEW s \in Shifts, NEW ns \in Seq(WellFormed[s])
    PROVE  Len(ns) <= Len(all(ns, s)) /\ Len(all(ns, s)) <= Len(ns) * 2^(s + B)
<1> DEFINE c == 2^(s + B)
<1>1. Clear(WellFormed[s], s) /\ \A n \in WellFormed[s] : 1 <= Len(elems(n, s)) /\ Len(elems(n, s)) <= c
  BY FormSound DEF Sound
<1>2. s + B \in Nat
  BY ShiftIs, BType
<1>3. c \in Nat /\ 1 \in Nat
  BY <1>2, PowerOf
<1> HIDE DEF c
<1>4. Len(ns) * 1 <= Len(all(ns, s)) /\ Len(all(ns, s)) <= Len(ns) * c
  BY <1>1, <1>3, AllBounds
<1>5. Len(ns) * 1 = Len(ns)
  OBVIOUS
<1> QED
  BY <1>4, <1>5 DEF c

\* Lists of full nodes.
LEMMA ListFull ==
    ASSUME NEW s \in Shifts, NEW ns \in Seq(WellFormed[s]), NEW c \in Nat,
           \A i \in 1 .. Len(ns) : Len(elems(ns[i], s)) = c
    PROVE  Len(all(ns, s)) = Len(ns) * c
<1> DEFINE T == {n \in WellFormed[s] : Len(elems(n, s)) = c}
<1>1. Clear(T, s) /\ \A n \in T : c <= Len(elems(n, s)) /\ Len(elems(n, s)) <= c
  <2>1. Clear(WellFormed[s], s)
    BY FormSound DEF Sound
  <2> QED
    BY <2>1 DEF Clear
<1>2. ns \in Seq(T)
  <2>1. Len(ns) \in Nat /\ DOMAIN ns = 1 .. Len(ns) /\ \A i \in 1 .. Len(ns) : ns[i] \in WellFormed[s]
    OBVIOUS
  <2>2. \A i \in 1 .. Len(ns) : ns[i] \in T
    BY <2>1
  <2> HIDE DEF T
  <2>3. ns = [i \in 1 .. Len(ns) |-> ns[i]]
    OBVIOUS
  <2>4. [i \in 1 .. Len(ns) |-> ns[i]] \in Seq(T)
    BY <2>1, <2>2
  <2> QED
    BY <2>3, <2>4, Zenon
<1> HIDE DEF T
<1>3. Len(ns) * c <= Len(all(ns, s)) /\ Len(all(ns, s)) <= Len(ns) * c
  BY <1>1, <1>2, AllBounds
<1>4. Len(ns) * c \in Nat /\ Len(all(ns, s)) \in Nat
  BY ListType
<1> QED
  BY <1>3, <1>4

-----------------------------------------------------------------------------
(***************************************************************************)
(* Parts of sequences.                                                     *)
(***************************************************************************)
LEMMA PartType ==
    ASSUME NEW S, NEW s \in Seq(S), NEW i \in Nat, NEW j \in Nat, i <= j, j <= Len(s)
    PROVE  /\ SubSeq(s, i + 1, j) \in Seq(S) /\ Len(SubSeq(s, i + 1, j)) = j - i
           /\ \A k \in 1 .. j - i : SubSeq(s, i + 1, j)[k] = s[i + k]
<1>1. Len(s) \in Nat /\ \A k \in 1 .. Len(s) : s[k] \in S
  OBVIOUS
<1>2. \A k \in (i + 1) .. j : s[k] \in S
  BY <1>1
<1>3. i + 1 \in Int /\ j \in Int
  OBVIOUS
<1> DEFINE m == i + 1
<1>4. m \in Int /\ m = i + 1
  OBVIOUS
<1> HIDE DEF m
<1>5. SubSeq(s, m, j) \in Seq(S)
  BY <1>1, <1>2, <1>4
<1>6. Len(SubSeq(s, m, j)) = j - i
  BY <1>1, <1>2, <1>4
<1>7. \A k \in 1 .. j - i : SubSeq(s, m, j)[k] = s[i + k]
  BY <1>1, <1>2, <1>4
<1> QED
  BY <1>5, <1>6, <1>7 DEF m

LEMMA PrefixType ==
    ASSUME NEW S, NEW s \in Seq(S), NEW j \in Nat, j <= Len(s)
    PROVE  /\ SubSeq(s, 1, j) \in Seq(S) /\ Len(SubSeq(s, 1, j)) = j
           /\ \A k \in 1 .. j : SubSeq(s, 1, j)[k] = s[k]
<1>1. 0 \in Nat /\ 0 <= j /\ 0 + 1 = 1 /\ j - 0 = j
  OBVIOUS
<1>2. /\ SubSeq(s, 0 + 1, j) \in Seq(S) /\ Len(SubSeq(s, 0 + 1, j)) = j - 0
      /\ \A k \in 1 .. j - 0 : SubSeq(s, 0 + 1, j)[k] = s[0 + k]
  BY <1>1, PartType
<1>3. \A k \in 1 .. j : 0 + k = k
  OBVIOUS
<1> QED
  BY <1>1, <1>2, <1>3

LEMMA PartWhole ==
    ASSUME NEW S, NEW s \in Seq(S)
    PROVE  SubSeq(s, 1, Len(s)) = s
<1>1. Len(s) \in Nat /\ Len(s) <= Len(s)
  OBVIOUS
<1>2. /\ SubSeq(s, 1, Len(s)) \in Seq(S) /\ Len(SubSeq(s, 1, Len(s))) = Len(s)
      /\ \A k \in 1 .. Len(s) : SubSeq(s, 1, Len(s))[k] = s[k]
  BY <1>1, PrefixType
<1> DEFINE t == SubSeq(s, 1, Len(s))
<1>3. t \in Seq(S) /\ Len(t) = Len(s) /\ \A k \in 1 .. Len(t) : t[k] = s[k]
  BY <1>2
<1> HIDE DEF t
<1>4. t = s
  BY <1>3, SeqEqual
<1> QED
  BY <1>4 DEF t

LEMMA PartsJoin ==
    ASSUME NEW S, NEW s \in Seq(S), NEW h \in Nat, NEW i \in Nat, NEW j \in Nat, h <= i, i <= j, j <= Len(s)
    PROVE  SubSeq(s, h + 1, i) \o SubSeq(s, i + 1, j) = SubSeq(s, h + 1, j)
<1> DEFINE a == SubSeq(s, h + 1, i)
           b == SubSeq(s, i + 1, j)
           c == SubSeq(s, h + 1, j)
<1>1. h <= j /\ i <= Len(s) /\ Len(s) \in Nat
  OBVIOUS
<1>2. a \in Seq(S) /\ Len(a) = i - h /\ \A k \in 1 .. i - h : a[k] = s[h + k]
  BY <1>1, PartType
<1>3. b \in Seq(S) /\ Len(b) = j - i /\ \A k \in 1 .. j - i : b[k] = s[i + k]
  BY PartType
<1>4. c \in Seq(S) /\ Len(c) = j - h /\ \A k \in 1 .. j - h : c[k] = s[h + k]
  BY <1>1, PartType
<1> HIDE DEF a, b, c
<1>5. a \o b \in Seq(S) /\ Len(a \o b) = Len(c)
  BY <1>2, <1>3, <1>4
<1>6. ASSUME NEW k \in 1 .. Len(c) PROVE (a \o b)[k] = c[k]
  <2>1. CASE k <= i - h
    BY <1>2, <1>3, <1>4, <2>1
  <2>2. CASE ~(k <= i - h)
    <3>3. k \in 1 .. Len(a) + Len(b) /\ ~(k <= Len(a)) /\ Len(a) = i - h
      BY <1>2, <1>3, <1>4, <2>2
    <3>1. (a \o b)[k] = b[k - (i - h)]
      <4>1. (a \o b)[k] = b[k - Len(a)]
        BY <1>2, <1>3, <3>3, ConcatProperties
      <4> QED
        BY <3>3, <4>1
    <3>2. k - (i - h) \in 1 .. j - i /\ i + (k - (i - h)) = h + k
      BY <1>4, <2>2
    <3> QED
      BY <1>3, <1>4, <3>1, <3>2
  <2> QED
    BY <2>1, <2>2
<1>7. a \o b = c
  <2> DEFINE d == a \o b
  <2>1. d \in Seq(S) /\ Len(d) = Len(c) /\ \A k \in 1 .. Len(d) : d[k] = c[k]
    BY <1>5, <1>6
  <2> HIDE DEF d
  <2> QED
    BY <1>4, <2>1, SeqEqual DEF d
<1> QED
  BY <1>7 DEF a, b, c

LEMMA PartOne ==
    ASSUME NEW S, NEW s \in Seq(S), NEW i \in Nat, i < Len(s)
    PROVE  s[i + 1] \in S /\ SubSeq(s, i + 1, i + 1) = <<s[i + 1]>>
<1>1. i + 1 \in 1 .. Len(s) /\ i + 1 \in Nat /\ i <= i + 1 /\ i + 1 <= Len(s)
  OBVIOUS
<1>2. s[i + 1] \in S
  BY <1>1
<1> DEFINE t == SubSeq(s, i + 1, i + 1)
           x == s[i + 1]
<1>3. /\ t \in Seq(S) /\ Len(t) = (i + 1) - i
      /\ \A k \in 1 .. (i + 1) - i : t[k] = s[i + k]
  BY <1>1, PartType
<1>6. (i + 1) - i = 1 /\ 1 \in 1 .. (i + 1) - i
  OBVIOUS
<1>4. Len(t) = 1 /\ t[1] = x
  BY <1>3, <1>6, Zenon
<1> HIDE DEF t, x
<1>5. t = <<x>>
  BY <1>3, <1>4
<1> QED
  BY <1>2, <1>5 DEF t, x

LEMMA SplitAt ==
    ASSUME NEW S, NEW s \in Seq(S), NEW i \in Nat, i <= Len(s)
    PROVE  /\ SubSeq(s, 1, i) \in Seq(S) /\ Len(SubSeq(s, 1, i)) = i
           /\ SubSeq(s, i + 1, Len(s)) \in Seq(S) /\ Len(SubSeq(s, i + 1, Len(s))) = Len(s) - i
           /\ s = SubSeq(s, 1, i) \o SubSeq(s, i + 1, Len(s))
<1>1. Len(s) \in Nat /\ Len(s) <= Len(s) /\ 0 \in Nat /\ 0 <= i /\ 0 + 1 = 1
  OBVIOUS
<1>2. SubSeq(s, 0 + 1, i) \o SubSeq(s, i + 1, Len(s)) = SubSeq(s, 0 + 1, Len(s))
  BY <1>1, PartsJoin
<1>3. SubSeq(s, 1, Len(s)) = s
  BY PartWhole
<1>4. SubSeq(s, 1, i) \in Seq(S) /\ Len(SubSeq(s, 1, i)) = i
  BY PrefixType
<1>5. SubSeq(s, i + 1, Len(s)) \in Seq(S) /\ Len(SubSeq(s, i + 1, Len(s))) = Len(s) - i
  BY <1>1, PartType
<1> QED
  BY <1>1, <1>2, <1>3, <1>4, <1>5, Zenon

LEMMA PrefixStep ==
    ASSUME NEW S, NEW s \in Seq(S), NEW i \in Nat, i < Len(s)
    PROVE  /\ SubSeq(s, 1, i) \in Seq(S) /\ Len(SubSeq(s, 1, i)) = i
           /\ s[i + 1] \in S
           /\ SubSeq(s, 1, i + 1) = SubSeq(s, 1, i) \o <<s[i + 1]>>
<1>1. Len(s) \in Nat /\ i + 1 \in Nat /\ 0 \in Nat /\ 0 <= i /\ 0 + 1 = 1 /\ i <= i + 1 /\ i + 1 <= Len(s) /\ i <= Len(s)
  OBVIOUS
<1>2. SubSeq(s, 0 + 1, i) \o SubSeq(s, i + 1, i + 1) = SubSeq(s, 0 + 1, i + 1)
  BY <1>1, PartsJoin
<1>3. s[i + 1] \in S /\ SubSeq(s, i + 1, i + 1) = <<s[i + 1]>>
  BY PartOne
<1>4. SubSeq(s, 1, i) \in Seq(S) /\ Len(SubSeq(s, 1, i)) = i
  BY <1>1, PrefixType
<1> QED
  BY <1>1, <1>2, <1>3, <1>4, Zenon

LEMMA SplitAround ==
    ASSUME NEW S, NEW s \in Seq(S), NEW i \in Nat, i < Len(s)
    PROVE  /\ SubSeq(s, 1, i) \in Seq(S) /\ Len(SubSeq(s, 1, i)) = i
           /\ s[i + 1] \in S
           /\ SubSeq(s, i + 2, Len(s)) \in Seq(S) /\ Len(SubSeq(s, i + 2, Len(s))) = Len(s) - (i + 1)
           /\ s = (SubSeq(s, 1, i) \o <<s[i + 1]>>) \o SubSeq(s, i + 2, Len(s))
<1>1. i + 1 \in Nat /\ i + 1 <= Len(s) /\ (i + 1) + 1 = i + 2
  OBVIOUS
<1>2. /\ SubSeq(s, (i + 1) + 1, Len(s)) \in Seq(S) /\ Len(SubSeq(s, (i + 1) + 1, Len(s))) = Len(s) - (i + 1)
      /\ s = SubSeq(s, 1, i + 1) \o SubSeq(s, (i + 1) + 1, Len(s))
  BY <1>1, SplitAt
<1>3. /\ SubSeq(s, 1, i) \in Seq(S) /\ Len(SubSeq(s, 1, i)) = i /\ s[i + 1] \in S
      /\ SubSeq(s, 1, i + 1) = SubSeq(s, 1, i) \o <<s[i + 1]>>
  BY PrefixStep
<1> QED
  BY <1>1, <1>2, <1>3, Zenon

LEMMA HeadTail ==
    ASSUME NEW S, NEW s \in Seq(S), s # <<>>
    PROVE  /\ Head(s) \in S /\ Tail(s) \in Seq(S) /\ Len(Tail(s)) = Len(s) - 1
           /\ s = <<Head(s)>> \o Tail(s)
<1>1. Len(s) \in Nat /\ Len(s) > 0
  BY EmptySeq
<1>2. Head(s) \in S /\ Tail(s) \in Seq(S) /\ Len(Tail(s)) = Len(s) - 1
  BY <1>1
<1>3. Head(s) = s[1] /\ \A k \in 1 .. Len(s) - 1 : Tail(s)[k] = s[k + 1]
  BY <1>1
<1> DEFINE h == Head(s)
           t == Tail(s)
<1>4. h \in S /\ t \in Seq(S) /\ Len(t) = Len(s) - 1 /\ h = s[1] /\ \A k \in 1 .. Len(s) - 1 : t[k] = s[k + 1]
  BY <1>2, <1>3
<1> HIDE DEF h, t
<1>5. <<h>> \o t \in Seq(S) /\ Len(<<h>> \o t) = Len(s)
  BY <1>1, <1>4
<1>6. \A k \in 1 .. Len(s) : (<<h>> \o t)[k] = s[k]
  BY <1>1, <1>4
<1>7. <<h>> \o t = s
  BY <1>5, <1>6, SeqEqual
<1> QED
  BY <1>2, <1>7 DEF h, t

-----------------------------------------------------------------------------
(***************************************************************************)
(* Sizes.                                                                  *)
(***************************************************************************)
\* A list of well-formed nodes, cut at its last, at its first, around one.
LEMMA ListFront ==
    ASSUME NEW s \in Shifts, NEW ns \in Seq(WellFormed[s]), ns # <<>>
    PROVE  /\ Front(ns) \in Seq(WellFormed[s]) /\ Len(Front(ns)) = Len(ns) - 1 /\ Last(ns) \in WellFormed[s]
           /\ \A i \in 1 .. Len(ns) - 1 : Front(ns)[i] = ns[i]
           /\ all(ns, s) = all(Front(ns), s) \o elems(Last(ns), s)
           /\ Len(all(ns, s)) = Len(all(Front(ns), s)) + Len(elems(Last(ns), s))
<1>1. /\ Front(ns) \in Seq(WellFormed[s]) /\ Len(Front(ns)) = Len(ns) - 1 /\ Last(ns) \in WellFormed[s]
      /\ \A i \in 1 .. Len(ns) - 1 : Front(ns)[i] = ns[i]
      /\ ns = Front(ns) \o <<Last(ns)>>
  BY FrontLast, Zenon
<1>2. /\ all(Front(ns) \o <<Last(ns)>>, s) = all(Front(ns), s) \o elems(Last(ns), s)
      /\ Len(all(Front(ns) \o <<Last(ns)>>, s)) = Len(all(Front(ns), s)) + Len(elems(Last(ns), s))
  BY <1>1, ListSnoc, Zenon
<1> QED
  BY <1>1, <1>2, Zenon

LEMMA ListTail ==
    ASSUME NEW s \in Shifts, NEW ns \in Seq(WellFormed[s]), ns # <<>>
    PROVE  /\ Head(ns) \in WellFormed[s] /\ Tail(ns) \in Seq(WellFormed[s]) /\ Len(Tail(ns)) = Len(ns) - 1
           /\ all(ns, s) = elems(Head(ns), s) \o all(Tail(ns), s)
<1>1. /\ Head(ns) \in WellFormed[s] /\ Tail(ns) \in Seq(WellFormed[s]) /\ Len(Tail(ns)) = Len(ns) - 1
      /\ ns = <<Head(ns)>> \o Tail(ns)
  BY HeadTail, Zenon
<1>2. <<Head(ns)>> \in Seq(WellFormed[s]) /\ all(<<Head(ns)>>, s) = elems(Head(ns), s)
  BY <1>1, ListOne, Zenon
<1>3. all(<<Head(ns)>> \o Tail(ns), s) = all(<<Head(ns)>>, s) \o all(Tail(ns), s)
  BY <1>1, <1>2, ListConcat, Zenon
<1> QED
  BY <1>1, <1>2, <1>3, Zenon

LEMMA SizeExact == \A s \in Shifts : \A n \in WellFormed[s] : node_total_size[s][n] = Len(elems(n, s))
<1> DEFINE P == {s \in Shifts : \A n \in WellFormed[s] : node_total_size[s][n] = Len(elems(n, s))}
<1>0. ASSUME NEW s \in Shifts, NEW n \in WellFormed[s]
      PROVE  node_total_size[s][n] = IF s = 0 THEN Len(n)
                 ELSE IF n.sizes = Dense
                      THEN (child_count(n) - 1) * 2^s + node_total_size[s - B][Child(n, child_count(n) - 1)]
                      ELSE Last(n.sizes)
  <2>1. n \in Nodes[s]
    BY FormNodes
  <2>2. node_total_size[s] = SizeBody(node_total_size, s)
    BY SizeIs
  <2> QED
    BY <2>1, <2>2, Zenon DEF SizeBody
<1>1. 0 \in P
  BY <1>0, BInner, ElemsLeaf
<1>2. ASSUME NEW s \in Inner, s - B \in P PROVE s \in P
  <2> SUFFICES ASSUME NEW n \in WellFormed[s] PROVE node_total_size[s][n] = Len(elems(n, s))
    BY InnerType
  <2> DEFINE ch == n.children
             m == Len(ch)
             t == s - B
  <2>1. s \in Shifts /\ s # 0 /\ t \in Shifts
    BY InnerType
  <2>2. /\ ch \in Seq(WellFormed[t]) /\ n.sizes \in Seq(Nat) /\ m \in 1 .. BF /\ ch # <<>>
        /\ SizesFit(ch, n.sizes, s)
    BY FormFields
  <2>3. child_count(n) = m
    BY FormCount
  <2>4. elems(n, s) = all(ch, t)
    BY ElemsInner
  <2>5. CASE n.sizes = Dense
    <3>1. node_total_size[s][n] = (m - 1) * 2^s + node_total_size[t][Child(n, m - 1)]
      BY <1>0, <2>1, <2>3, <2>5, Zenon
    <3>2. (m - 1) + 1 = m
      BY <2>2, BType
    <3>3. Child(n, m - 1) = Last(ch)
      BY <3>2, Zenon DEF Child, Last
    <3>4. /\ Front(ch) \in Seq(WellFormed[t]) /\ Len(Front(ch)) = m - 1 /\ Last(ch) \in WellFormed[t]
          /\ \A i \in 1 .. m - 1 : Front(ch)[i] = ch[i]
          /\ Len(all(ch, t)) = Len(all(Front(ch), t)) + Len(elems(Last(ch), t))
      BY <2>1, <2>2, ListFront, Zenon
    <3>5. \A i \in 1 .. m - 1 : Len(elems(ch[i], t)) = 2^s
      BY <2>2, <2>5, Zenon DEF SizesFit
    <3>6. \A i \in 1 .. Len(Front(ch)) : Len(elems(Front(ch)[i], t)) = 2^s
      BY <3>4, <3>5, Zenon
    <3>7. 2^s \in Nat
      BY <2>1, Capacity
    <3>8. Len(all(Front(ch), t)) = Len(Front(ch)) * 2^s
      BY <2>1, <3>4, <3>6, <3>7, ListFull, Zenon
    <3>9. node_total_size[t][Last(ch)] = Len(elems(Last(ch), t))
      BY <1>2, <3>4
    <3> QED
      BY <2>4, <3>1, <3>3, <3>4, <3>8, <3>9, Zenon
  <2>6. CASE n.sizes # Dense
    <3>1. node_total_size[s][n] = Last(n.sizes)
      BY <1>0, <2>1, <2>6, Zenon
    <3>2. Len(n.sizes) = m /\ \A i \in 1 .. m : n.sizes[i] = Len(all(SubSeq(ch, 1, i), t))
      BY <2>2, <2>6, SizesLen, Zenon
    <3>3. m \in 1 .. m
      BY <2>2, BType
    <3>4. SubSeq(ch, 1, m) = ch
      BY <2>2, PartWhole, Zenon
    <3>5. Last(n.sizes) = Len(all(SubSeq(ch, 1, m), t))
      BY <3>2, <3>3, Zenon DEF Last
    <3> QED
      BY <2>4, <3>1, <3>4, <3>5, Zenon
  <2> QED
    BY <2>5, <2>6
<1> HIDE DEF P
<1>3. \A s \in Shifts : s \in P
  BY <1>1, <1>2, ShiftInduct
<1> QED
  BY <1>3 DEF P

\* The sizes of the first nodes of a list add up to what they hold.
SizesUpto(ns, s, i) == [j \in 1 .. i |-> node_total_size[s][ns[j]]]

LEMMA SizesSum ==
    ASSUME NEW s \in Shifts, NEW ns \in Seq(WellFormed[s])
    PROVE  \A i \in Nat : i <= Len(ns) =>
             /\ SizesUpto(ns, s, i) \in Seq(Nat)
             /\ total[SizesUpto(ns, s, i)] = Len(all(SubSeq(ns, 1, i), s))
<1> DEFINE P == {i \in Nat : i <= Len(ns) =>
                   /\ SizesUpto(ns, s, i) \in Seq(Nat)
                   /\ total[SizesUpto(ns, s, i)] = Len(all(SubSeq(ns, 1, i), s))}
<1>0. Len(ns) \in Nat
  OBVIOUS
<1>1. 0 \in P
  <2>1. SizesUpto(ns, s, 0) = <<>>
    BY DEF SizesUpto
  <2>2. SubSeq(ns, 1, 0) = <<>>
    BY SubSeqEmpty
  <2>3. all(<<>>, s) = <<>> /\ Len(<<>>) = 0 /\ <<>> \in Seq(Nat)
    BY AllEmpty
  <2> QED
    BY <2>1, <2>2, <2>3, TotalEmpty
<1>2. ASSUME NEW i \in Nat, i \in P PROVE i + 1 \in P
  <2> SUFFICES ASSUME i + 1 <= Len(ns)
               PROVE  /\ SizesUpto(ns, s, i + 1) \in Seq(Nat)
                      /\ total[SizesUpto(ns, s, i + 1)] = Len(all(SubSeq(ns, 1, i + 1), s))
    OBVIOUS
  <2> DEFINE a == SizesUpto(ns, s, i)
             p == SubSeq(ns, 1, i)
             n == ns[i + 1]
             e == node_total_size[s][n]
             x == Len(all(p, s))
  <2>1. i < Len(ns) /\ i <= Len(ns)
    BY <1>0
  <2>2. a \in Seq(Nat) /\ total[a] = x
    BY <1>2, <2>1
  <2>3. /\ p \in Seq(WellFormed[s]) /\ Len(p) = i
        /\ n \in WellFormed[s]
        /\ SubSeq(ns, 1, i + 1) = p \o <<n>>
    BY <2>1, PrefixStep, Zenon
  <2>4. e = Len(elems(n, s)) /\ e \in Nat
    BY <2>3, SizeExact, FormElems
  <2>5. SizesUpto(ns, s, i + 1) = a \o <<e>>
    <3>1. a = [j \in 1 .. i |-> node_total_size[s][ns[j]]]
      BY DEF SizesUpto
    <3>2. SizesUpto(ns, s, i + 1) = [j \in 1 .. i + 1 |-> node_total_size[s][ns[j]]]
      BY DEF SizesUpto
    <3> DEFINE F(j) == node_total_size[s][ns[j]]
    <3>3. a = [j \in 1 .. i |-> F(j)] /\ F(i + 1) = e
      BY <3>1, Zenon
    <3>4. [j \in 1 .. i + 1 |-> F(j)] = SizesUpto(ns, s, i + 1)
      BY <3>2, Zenon
    <3> HIDE DEF F, a, e
    <3>5. [j \in 1 .. i + 1 |-> F(j)] = [j \in 1 .. i |-> F(j)] \o <<F(i + 1)>>
      OBVIOUS
    <3> QED
      BY <3>3, <3>4, <3>5, Zenon
  <2>6. Len(all(p \o <<n>>, s)) = x + Len(elems(n, s))
    BY <2>3, ListSnoc, Zenon
  <2>7. total[a \o <<e>>] = total[a] + e
    BY <2>2, <2>4, TotalSnoc, Zenon
  <2>8. a \o <<e>> \in Seq(Nat)
    <3> HIDE DEF a, e
    <3> QED
      BY <2>2, <2>4
  <2> QED
    BY <2>2, <2>3, <2>4, <2>5, <2>6, <2>7, <2>8, Zenon
<1> HIDE DEF P
<1>3. \A i \in Nat : i \in P
  BY <1>1, <1>2, OnNat!NatInduct
<1> QED
  BY <1>3 DEF P

LEMMA MakeRelaxed ==
    ASSUME NEW s \in Inner, NEW ch \in Seq(WellFormed[s - B]), Len(ch) \in 1 .. BF
    PROVE  /\ make_relaxed(ch, s) \in WellFormed[s]
           /\ elems(make_relaxed(ch, s), s) = all(ch, s - B)
           /\ make_relaxed(ch, s).children = ch
<1> DEFINE t == s - B
           m == Len(ch)
           full == \A i \in 1 .. (m - 1) : node_total_size[t][ch[i]] = 2^s
           szs == [i \in 1 .. m |-> total[SizesUpto(ch, t, i)]]
           n == make_relaxed(ch, s)
<1>1. t \in Shifts /\ m \in Nat /\ m > 0
  BY InnerType, BType
<1>2. n = [children |-> ch, sizes |-> IF full THEN Dense ELSE szs]
  BY Zenon DEF make_relaxed, SizesUpto
<1>3. \A i \in 1 .. m : ch[i] \in WellFormed[t] /\ node_total_size[t][ch[i]] = Len(elems(ch[i], t))
  BY <1>1, SizeExact
<1>4. ASSUME full PROVE n \in WellFormed[s] /\ n.children = ch
  <2>1. n = [children |-> ch, sizes |-> Dense]
    BY <1>2, <1>4, Zenon
  <2>2. \A i \in 1 .. (m - 1) : Len(elems(ch[i], t)) = 2^s
    BY <1>1, <1>3, <1>4
  <2>3. SizesFit(ch, Dense, s) /\ Dense \in Seq(Nat)
    <3>1. SizesFit(ch, Dense, s)
      BY <2>2, Zenon DEF SizesFit
    <3> QED
      BY <3>1 DEF Dense
  <2>4. n \in WellFormed[s]
    BY <2>1, <2>3, FormOf, Zenon
  <2> QED
    BY <2>1, <2>4
<1>5. ASSUME ~full PROVE n \in WellFormed[s] /\ n.children = ch
  <2>1. n = [children |-> ch, sizes |-> szs]
    BY <1>2, <1>5, Zenon
  <2>2. \A i \in 1 .. m : total[SizesUpto(ch, t, i)] = Len(all(SubSeq(ch, 1, i), t))
    BY <1>1, SizesSum
  <2>3. szs = [i \in 1 .. m |-> Len(all(SubSeq(ch, 1, i), t))]
    BY <2>2, Zenon
  <2>4. szs \in Seq(Nat)
    <3>1. ASSUME NEW i \in 1 .. m PROVE Len(all(SubSeq(ch, 1, i), t)) \in Nat
      <4>1. i \in Nat /\ i <= Len(ch)
        BY <1>1
      <4>2. SubSeq(ch, 1, i) \in Seq(WellFormed[t])
        BY <4>1, PrefixType, Zenon
      <4> QED
        BY <1>1, <4>2, ListType, Zenon
    <3> DEFINE F(i) == Len(all(SubSeq(ch, 1, i), t))
    <3>2. \A i \in 1 .. m : F(i) \in Nat
      BY <3>1
    <3> HIDE DEF F
    <3>3. [i \in 1 .. m |-> F(i)] \in Seq(Nat)
      BY <1>1, <3>2
    <3> QED
      BY <2>3, <3>3, Zenon DEF F
  <2>5. szs # Dense
    <3>1. 1 \in DOMAIN szs
      BY <1>1
    <3> HIDE DEF szs
    <3> QED
      BY <3>1 DEF Dense
  <2>6. SizesFit(ch, szs, s)
    BY <2>3, <2>5, Zenon DEF SizesFit
  <2>7. n \in WellFormed[s]
    BY <2>1, <2>4, <2>6, FormOf, Zenon
  <2> QED
    BY <2>1, <2>7
<1>6. n \in WellFormed[s] /\ n.children = ch
  BY <1>4, <1>5
<1> QED
  BY <1>6, ElemsInner

-----------------------------------------------------------------------------
(***************************************************************************)
(* Packing.  The result of a merge at shift s is a node there or one level *)
(* up, with two children then.                                             *)
(***************************************************************************)
Merged(r, s, a) ==
  /\ r[2] = s \/ (r[2] = s + B /\ Len(r[1].children) = 2)
  /\ r[1] \in WellFormed[r[2]]
  /\ elems(r[1], r[2]) = a

LEMMA PairIs ==
    ASSUME NEW x, NEW y
    PROVE  <<x>> \o <<y>> = <<x, y>> /\ Len(<<x, y>>) = 2
<1> DEFINE S == {x, y}
           a == <<x>>
           c == <<x, y>>
<1>1. a \in Seq(S) /\ Len(a) = 1 /\ a[1] = x
  OBVIOUS
<1>2. c \in Seq(S) /\ Len(c) = 2 /\ c[1] = x /\ c[2] = y /\ c # <<>>
  OBVIOUS
<1> HIDE DEF S, a, c
<1>3. /\ Front(c) \in Seq(S) /\ Len(Front(c)) = Len(c) - 1
      /\ \A i \in 1 .. Len(c) - 1 : Front(c)[i] = c[i]
      /\ c = Front(c) \o <<Last(c)>>
  BY <1>2, FrontLast, Zenon
<1>4. Len(c) - 1 = 1 /\ 1 \in 1 .. Len(c) - 1
  BY <1>2
<1>5. Len(Front(c)) = 1 /\ Front(c)[1] = x
  BY <1>2, <1>3, <1>4, Zenon
<1>6. \A i \in 1 .. 1 : Front(c)[i] = a[i]
  BY <1>1, <1>5
<1>7. Front(c) = a
  BY <1>1, <1>3, <1>5, <1>6, SeqEqual, Zenon
<1>8. Last(c) = y
  BY <1>2, Zenon DEF Last
<1>9. c = a \o <<y>>
  BY <1>3, <1>7, <1>8, Zenon
<1> QED
  BY <1>2, <1>9, Zenon DEF a, c

LEMMA TotalSmall ==
    ASSUME NEW x \in Nat, NEW y \in Nat
    PROVE  /\ total[<<x>>] = x
           /\ total[<<x, y>>] = x + y
<1>1. <<>> \in Seq(Nat) /\ <<x>> \in Seq(Nat) /\ <<>> \o <<x>> = <<x>> /\ <<x>> \o <<y>> = <<x, y>>
  BY PairIs
<1>2. total[<<>> \o <<x>>] = total[<<>>] + x
  BY <1>1, TotalSnoc, Zenon
<1>3. total[<<>> \o <<x>>] = x
  BY <1>2, TotalEmpty
<1>4. total[<<x>>] = x
  BY <1>1, <1>3, Zenon
<1>5. total[<<x>> \o <<y>>] = total[<<x>>] + y
  BY <1>1, TotalSnoc, Zenon
<1> QED
  BY <1>1, <1>4, <1>5, Zenon

\* Two groups, of sizes that differ by at most one.
LEMMA TwoGroups ==
    ASSUME NEW n \in Nat, BF < n, n <= 2 * BF
    PROVE  /\ ((n + BF) - 1) \div BF = 2
           /\ n \div 2 \in Nat
           /\ n - (n \div 2) * 2 \in {0, 1}
<1>1. BF \in Nat /\ BF >= 2
  BY BType
<1> DEFINE z == (n + BF) - 1
           r == n - BF - 1
<1>2. z \in Nat /\ r \in Nat /\ r < BF /\ z = 2 * BF + r
  BY <1>1
<1> HIDE DEF z, r
<1>3. z \div BF = 2
  BY <1>1, <1>2, DivideUnique
<1>4. n \div 2 \in Nat /\ n - (n \div 2) * 2 \in {0, 1}
  OBVIOUS
<1> QED
  BY <1>3, <1>4 DEF z

LEMMA PackTwo ==
    ASSUME NEW s \in Inner, NEW ch \in Seq(WellFormed[s - B]), BF < Len(ch), Len(ch) <= 2 * BF
    PROVE  \E h \in Nat :
             /\ 1 <= h /\ h <= BF /\ h < Len(ch) /\ Len(ch) - h <= BF
             /\ pack_children(ch, s) =
                  <<make_relaxed(<<make_relaxed(SubSeq(ch, 1, h), s),
                                   make_relaxed(SubSeq(ch, h + 1, Len(ch)), s)>>, s + B), s + B>>
<1> DEFINE n == Len(ch)
           groups == (n + BF - 1) \div BF
           base == n \div groups
           rem == n - base * groups
           size(k) == base + IF k < rem THEN 1 ELSE 0
           start(k) == total[[i \in 1 .. k |-> size(i - 1)]]
           group(k) == make_relaxed(SubSeq(ch, start(k) + 1, start(k + 1)), s)
<1>1. n \in Nat /\ BF \in Nat /\ BF >= 2
  BY BType
<1>2. groups = 2
  BY <1>1, TwoGroups
<1>3. base = n \div 2 /\ base \in Nat /\ rem \in {0, 1} /\ rem = n - base * 2
  BY <1>1, <1>2, TwoGroups
<1>4. pack_children(ch, s) = <<make_relaxed([k \in 1 .. groups |-> group(k - 1)], s + B), s + B>>
  <2>1. ~(n <= BF)
    BY <1>1
  <2> QED
    BY <2>1, Zenon DEF pack_children
<1> HIDE DEF groups, base, rem
<1> DEFINE h == base + rem
<1>5. size(0) = h /\ size(1) = base /\ h + base = n /\ h \in Nat
  BY <1>1, <1>3
<1>6. 1 <= h /\ h <= BF /\ h < n /\ n - h <= BF
  BY <1>1, <1>3
<1> HIDE DEF h, size, n
<1>7. start(0) = 0
  <2>1. [i \in 1 .. 0 |-> size(i - 1)] = <<>>
    OBVIOUS
  <2> QED
    BY <2>1, TotalEmpty
<1>8. start(1) = h
  <2>1. [i \in 1 .. 1 |-> size(i - 1)] = <<size(0)>>
    OBVIOUS
  <2>2. total[<<h>>] = h
    BY <1>5, TotalSmall
  <2> QED
    BY <1>5, <2>1, <2>2, Zenon
<1>9. start(2) = n
  <2>1. [i \in 1 .. 2 |-> size(i - 1)] = <<size(0), size(1)>>
    OBVIOUS
  <2>2. total[<<h, base>>] = h + base
    BY <1>3, <1>5, TotalSmall
  <2> QED
    BY <1>5, <2>1, <2>2, Zenon
<1> HIDE DEF start
<1>10. group(0) = make_relaxed(SubSeq(ch, 1, h), s)
  <2>1. 0 + 1 = 1
    OBVIOUS
  <2> QED
    BY <1>7, <1>8, <2>1, Zenon
<1>11. group(1) = make_relaxed(SubSeq(ch, h + 1, n), s)
  <2>1. 1 + 1 = 2
    OBVIOUS
  <2> QED
    BY <1>8, <1>9, <2>1, Zenon
<1> HIDE DEF group
<1>12. [k \in 1 .. groups |-> group(k - 1)] = <<group(0), group(1)>>
  BY <1>2
<1>13. pack_children(ch, s) =
         <<make_relaxed(<<make_relaxed(SubSeq(ch, 1, h), s), make_relaxed(SubSeq(ch, h + 1, n), s)>>, s + B), s + B>>
  BY <1>4, <1>10, <1>11, <1>12, Zenon
<1> QED
  BY <1>5, <1>6, <1>13, Zenon DEF n

LEMMA PackChildren ==
    ASSUME NEW s \in Inner, NEW ch \in Seq(WellFormed[s - B]), Len(ch) \in 1 .. 2 * BF
    PROVE  Merged(pack_children(ch, s), s, all(ch, s - B))
<1> DEFINE n == Len(ch)
           t == s - B
<1>1. /\ n \in Nat /\ BF \in Nat /\ BF >= 2 /\ n >= 1 /\ n <= 2 * BF
      /\ t \in Shifts /\ s \in Shifts /\ s + B \in Inner /\ (s + B) - B = s
  BY BType, InnerType, ShiftUp
<1>2. CASE n <= BF
  <2> DEFINE x == make_relaxed(ch, s)
  <2>1. n \in 1 .. BF
    BY <1>1, <1>2
  <2>2. x \in WellFormed[s] /\ elems(x, s) = all(ch, t)
    BY <2>1, MakeRelaxed, Zenon
  <2>3. pack_children(ch, s) = <<x, s>>
    BY <1>2, Zenon DEF pack_children
  <2> HIDE DEF x
  <2>4. <<x, s>>[1] = x /\ <<x, s>>[2] = s
    OBVIOUS
  <2> DEFINE r == pack_children(ch, s)
  <2>5. r[1] = x /\ r[2] = s
    BY <2>3, <2>4, Zenon
  <2> HIDE DEF r
  <2>7. r[1] \in WellFormed[r[2]] /\ elems(r[1], r[2]) = all(ch, t)
    BY <2>2, <2>5, Zenon
  <2>6. Merged(r, s, all(ch, t))
    BY <2>5, <2>7, Zenon DEF Merged
  <2> QED
    BY <2>6, Zenon DEF r
<1>3. CASE ~(n <= BF)
  <2>1. BF < n
    BY <1>1, <1>3
  <2>2. PICK h \in Nat :
             /\ 1 <= h /\ h <= BF /\ h < n /\ n - h <= BF
             /\ pack_children(ch, s) =
                  <<make_relaxed(<<make_relaxed(SubSeq(ch, 1, h), s),
                                   make_relaxed(SubSeq(ch, h + 1, n), s)>>, s + B), s + B>>
    BY <1>1, <2>1, PackTwo, Zenon
  <2> DEFINE a == SubSeq(ch, 1, h)
             b == SubSeq(ch, h + 1, n)
             x == make_relaxed(a, s)
             y == make_relaxed(b, s)
             z == make_relaxed(<<x, y>>, s + B)
  <2>3. h <= n
    BY <1>1, <2>2
  <2>4. /\ a \in Seq(WellFormed[t]) /\ Len(a) = h
        /\ b \in Seq(WellFormed[t]) /\ Len(b) = n - h
        /\ ch = a \o b
    BY <2>3, SplitAt, Zenon
  <2>5. Len(a) \in 1 .. BF /\ Len(b) \in 1 .. BF
    BY <1>1, <2>2, <2>4
  <2>6. x \in WellFormed[s] /\ elems(x, s) = all(a, t)
    BY <2>4, <2>5, MakeRelaxed, Zenon
  <2>7. y \in WellFormed[s] /\ elems(y, s) = all(b, t)
    BY <2>4, <2>5, MakeRelaxed, Zenon
  <2>8. all(ch, t) = all(a, t) \o all(b, t)
    <3> HIDE DEF a, b
    <3>1. all(a \o b, t) = all(a, t) \o all(b, t)
      BY <1>1, <2>4, ListConcat, Zenon
    <3> QED
      BY <2>4, <3>1, Zenon
  <2> HIDE DEF x, y
  <2>9. /\ <<x>> \in Seq(WellFormed[s]) /\ <<x>> \o <<y>> \in Seq(WellFormed[s])
        /\ all(<<x>>, s) = elems(x, s)
        /\ all(<<x>> \o <<y>>, s) = all(<<x>>, s) \o elems(y, s)
    BY <1>1, <2>6, <2>7, ListOne, ListSnoc, Zenon
  <2>16. <<x>> \o <<y>> = <<x, y>> /\ Len(<<x, y>>) = 2
    BY PairIs, Zenon
  <2>17. 2 \in 1 .. BF
    BY <1>1
  <2>10. <<x>> \o <<y>> = <<x, y>> /\ Len(<<x, y>>) = 2 /\ 2 \in 1 .. BF
    BY <2>16, <2>17, Zenon
  <2>11. <<x, y>> \in Seq(WellFormed[(s + B) - B]) /\ Len(<<x, y>>) \in 1 .. BF
    BY <1>1, <2>9, <2>10, Zenon
  <2>12. z \in WellFormed[s + B] /\ elems(z, s + B) = all(<<x, y>>, (s + B) - B) /\ z.children = <<x, y>>
    BY <1>1, <2>11, MakeRelaxed, Zenon
  <2>13. all(<<x, y>>, (s + B) - B) = all(ch, t)
    BY <1>1, <2>6, <2>7, <2>8, <2>9, <2>10, Zenon
  <2>14. pack_children(ch, s) = <<z, s + B>>
    BY <2>2, Zenon DEF x, y
  <2> HIDE DEF z
  <2>15. Len(z.children) = 2
    BY <2>10, <2>12, Zenon
  <2>18. <<z, s + B>>[1] = z /\ <<z, s + B>>[2] = s + B
    OBVIOUS
  <2> QED
    BY <2>12, <2>13, <2>14, <2>15, <2>18, Zenon DEF Merged
<1> QED
  BY <1>2, <1>3

-----------------------------------------------------------------------------
(***************************************************************************)
(* Concatenation of trees.                                                 *)
(***************************************************************************)
LEMMA EmptyLeft ==
    ASSUME NEW S, NEW a \in Seq(S)
    PROVE  <<>> \o a = a /\ a \o <<>> = a /\ <<>> \in Seq(S)
OBVIOUS

LEMMA AssocAll == \A a, b, c \in Seq(Int) : (a \o b) \o c = a \o (b \o c)
BY Assoc, Zenon

LEMMA SumBound == \A m, k \in 1 .. BF : m + k \in 1 .. 2 * BF
BY BType

LEMMA OneOrTwo ==
    ASSUME NEW m \in Nat, NEW k, k = 1 \/ k = 2
    PROVE  m + 1 <= m + k /\ m + k <= m + 2
OBVIOUS

LEMMA ElemsType ==
    ASSUME NEW s \in Shifts, NEW n \in WellFormed[s]
    PROVE  elems(n, s) \in Seq(Int)
BY FormElems, Zenon

\* The result of a merge goes behind the children ns.
LEMMA AppendCentre ==
    ASSUME NEW t \in Inner, NEW ns \in Seq(WellFormed[t]), NEW c, NEW a, Merged(c, t, a)
    PROVE  LET ch == append_centre(ns, c[1], c[2], t)
           IN /\ ch \in Seq(WellFormed[t])
              /\ Len(ns) + 1 <= Len(ch) /\ Len(ch) <= Len(ns) + 2
              /\ all(ch, t) = all(ns, t) \o a
<1> DEFINE x == IF c[2] = t THEN <<c[1]>> ELSE c[1].children
           ch == ns \o x
<1>1. t \in Shifts /\ t \in Nat /\ B \in Nat /\ B > 0 /\ t + B # t
  BY InnerType, BType, SMTT(40)
<1>2. x \in Seq(WellFormed[t]) /\ (Len(x) = 1 \/ Len(x) = 2) /\ all(x, t) = a
  <2>1. CASE c[2] = t
    <3>1. c[1] \in WellFormed[t] /\ elems(c[1], t) = a
      BY <2>1, Zenon DEF Merged
    <3>2. x = <<c[1]>>
      BY <2>1, Zenon
    <3>3. <<c[1]>> \in Seq(WellFormed[t]) /\ Len(<<c[1]>>) = 1 /\ all(<<c[1]>>, t) = elems(c[1], t)
      BY <1>1, <3>1, ListOne, Zenon
    <3> QED
      BY <3>1, <3>2, <3>3, Zenon
  <2>2. CASE c[2] # t
    <3>1. c[2] = t + B /\ Len(c[1].children) = 2 /\ c[1] \in WellFormed[t + B] /\ elems(c[1], t + B) = a
      BY <2>2, Zenon DEF Merged
    <3>2. x = c[1].children
      BY <2>2, Zenon
    <3>3. t + B \in Inner /\ (t + B) - B = t
      BY <1>1, ShiftUp, Zenon
    <3>4. c[1].children \in Seq(WellFormed[(t + B) - B]) /\ elems(c[1], t + B) = all(c[1].children, (t + B) - B)
      BY <3>1, <3>3, FormFields, ElemsInner, Zenon
    <3> QED
      BY <3>1, <3>2, <3>3, <3>4, Zenon
  <2> QED
    BY <2>1, <2>2
<1> HIDE DEF x
<1>3. ch \in Seq(WellFormed[t]) /\ Len(ch) = Len(ns) + Len(x) /\ all(ch, t) = all(ns, t) \o all(x, t)
  BY <1>1, <1>2, ListConcat, Zenon
<1>4. Len(ns) \in Nat
  OBVIOUS
<1> HIDE DEF ch
<1>7. Len(x) = 1 \/ Len(x) = 2
  BY <1>2, Zenon
<1>8. Len(ch) = Len(ns) + Len(x)
  BY <1>3, Zenon
<1>5. Len(ns) + 1 <= Len(ch) /\ Len(ch) <= Len(ns) + 2
  BY <1>4, <1>7, <1>8, OneOrTwo, Zenon
<1>6. append_centre(ns, c[1], c[2], t) = ch
  BY Zenon DEF append_centre, x, ch
<1> QED
  BY <1>2, <1>3, <1>5, <1>6, Zenon

\* A seam is a list of children for one node or two that holds a.
Seam(ch, t, a) == ch \in Seq(WellFormed[t]) /\ Len(ch) \in 1 .. 2 * BF /\ all(ch, t) = a

LEMMA SeamEqual ==
    ASSUME NEW s \in Inner, s - B \in Inner, NEW l \in WellFormed[s], NEW r \in WellFormed[s], NEW c,
           Merged(c, s - B, elems(Last(l.children), s - B) \o elems(Head(r.children), s - B))
    PROVE  Seam(seam_equal(l, r, c, s), s - B, elems(l, s) \o elems(r, s))
<1> DEFINE t == s - B
           F == Front(l.children)
           T == Tail(r.children)
           x == elems(Last(l.children), t)
           y == elems(Head(r.children), t)
           m == append_centre(F, c[1], c[2], t)
<1>1. t \in Shifts /\ t \in Inner
  BY InnerType
<1>2. l.children \in Seq(WellFormed[t]) /\ Len(l.children) \in 1 .. BF /\ l.children # <<>>
  BY FormFields, Zenon
<1>3. r.children \in Seq(WellFormed[t]) /\ Len(r.children) \in 1 .. BF /\ r.children # <<>>
  BY FormFields, Zenon
<1>4. /\ F \in Seq(WellFormed[t]) /\ Len(F) = Len(l.children) - 1 /\ Last(l.children) \in WellFormed[t]
      /\ all(l.children, t) = all(F, t) \o x
  BY <1>1, <1>2, ListFront, Zenon
<1>5. /\ T \in Seq(WellFormed[t]) /\ Len(T) = Len(r.children) - 1 /\ Head(r.children) \in WellFormed[t]
      /\ all(r.children, t) = y \o all(T, t)
  BY <1>1, <1>3, ListTail, Zenon
<1>6. /\ m \in Seq(WellFormed[t]) /\ Len(F) + 1 <= Len(m) /\ Len(m) <= Len(F) + 2
      /\ all(m, t) = all(F, t) \o (x \o y)
  BY <1>1, <1>4, AppendCentre, Zenon
<1>7. seam_equal(l, r, c, s) = m \o T
  BY Zenon DEF seam_equal
<1>8. x \in Seq(Int) /\ y \in Seq(Int) /\ all(F, t) \in Seq(Int) /\ all(T, t) \in Seq(Int)
  BY <1>1, <1>4, <1>5, ElemsType, ListType, Zenon
<1>9. elems(l, s) = all(F, t) \o x /\ elems(r, s) = y \o all(T, t)
  BY <1>4, <1>5, ElemsInner, Zenon
<1> HIDE DEF m, T, F
<1>10. m \o T \in Seq(WellFormed[t]) /\ Len(m \o T) = Len(m) + Len(T) /\ all(m \o T, t) = all(m, t) \o all(T, t)
  BY <1>1, <1>5, <1>6, ListConcat, Zenon
<1>14. Len(m) \in Nat /\ Len(T) \in Nat
  BY <1>5, <1>6
<1>11. Len(m) + Len(T) \in 1 .. 2 * BF
  BY <1>2, <1>3, <1>4, <1>5, <1>6, <1>14, BType, SMTT(40)
<1> DEFINE p == all(F, t)
           q == all(T, t)
<1> HIDE DEF x, y, p, q
<1>15. p \in Seq(Int) /\ q \in Seq(Int)
  BY <1>8, Zenon DEF p, q
<1>17. x \in Seq(Int) /\ y \in Seq(Int)
  BY <1>8, Zenon
<1>16. (p \o (x \o y)) \o q = (p \o x) \o (y \o q)
  <2> DEFINE e == p \o x
  <2>1. e \o y = p \o (x \o y)
    BY <1>15, <1>17, AssocAll, Zenon
  <2>2. e \in Seq(Int)
    BY <1>15, <1>17
  <2> HIDE DEF e
  <2>3. (e \o y) \o q = e \o (y \o q)
    BY <1>15, <1>17, <2>2, AssocAll, Zenon
  <2> QED
    BY <2>1, <2>3, Zenon DEF e
<1>12. (all(F, t) \o (x \o y)) \o all(T, t) = (all(F, t) \o x) \o (y \o all(T, t))
  BY <1>16, Zenon DEF p, q
<1>13. all(m \o T, t) = elems(l, s) \o elems(r, s)
  BY <1>6, <1>9, <1>10, <1>12, Zenon
<1> QED
  BY <1>7, <1>10, <1>11, <1>13, Zenon DEF Seam

LEMMA SeamLeftTaller ==
    ASSUME NEW s \in Inner, s - B \in Inner, NEW l \in WellFormed[s], NEW c, NEW y \in Seq(Int),
           Merged(c, s - B, elems(Last(l.children), s - B) \o y)
    PROVE  Seam(seam_left_taller(l, c, s), s - B, elems(l, s) \o y)
<1> DEFINE t == s - B
           F == Front(l.children)
           x == elems(Last(l.children), t)
           m == append_centre(F, c[1], c[2], t)
<1>1. t \in Shifts /\ t \in Inner
  BY InnerType
<1>2. l.children \in Seq(WellFormed[t]) /\ Len(l.children) \in 1 .. BF /\ l.children # <<>>
  BY FormFields, Zenon
<1>4. /\ F \in Seq(WellFormed[t]) /\ Len(F) = Len(l.children) - 1 /\ Last(l.children) \in WellFormed[t]
      /\ all(l.children, t) = all(F, t) \o x
  BY <1>1, <1>2, ListFront, Zenon
<1>6. /\ m \in Seq(WellFormed[t]) /\ Len(F) + 1 <= Len(m) /\ Len(m) <= Len(F) + 2
      /\ all(m, t) = all(F, t) \o (x \o y)
  BY <1>1, <1>4, AppendCentre, Zenon
<1>7. seam_left_taller(l, c, s) = m
  BY Zenon DEF seam_left_taller
<1>8. x \in Seq(Int) /\ all(F, t) \in Seq(Int)
  BY <1>1, <1>4, ElemsType, ListType, Zenon
<1>9. elems(l, s) = all(F, t) \o x
  BY <1>4, ElemsInner, Zenon
<1> HIDE DEF m, F
<1>14. Len(m) \in Nat
  BY <1>6
<1>11. Len(m) \in 1 .. 2 * BF
  BY <1>2, <1>4, <1>6, <1>14, BType
<1> HIDE DEF x
<1>12. (all(F, t) \o x) \o y = all(F, t) \o (x \o y)
  BY <1>8, Assoc, Zenon
<1>13. all(m, t) = elems(l, s) \o y
  BY <1>6, <1>9, <1>12, Zenon
<1> QED
  BY <1>6, <1>7, <1>11, <1>13, Zenon DEF Seam

LEMMA SeamRightTaller ==
    ASSUME NEW s \in Inner, s - B \in Inner, NEW r \in WellFormed[s], NEW c, NEW x \in Seq(Int),
           Merged(c, s - B, x \o elems(Head(r.children), s - B))
    PROVE  Seam(seam_right_taller(r, c, s), s - B, x \o elems(r, s))
<1> DEFINE t == s - B
           T == Tail(r.children)
           y == elems(Head(r.children), t)
           m == append_centre(<<>>, c[1], c[2], t)
<1>1. t \in Shifts /\ t \in Inner
  BY InnerType
<1>3. r.children \in Seq(WellFormed[t]) /\ Len(r.children) \in 1 .. BF /\ r.children # <<>>
  BY FormFields, Zenon
<1>5. /\ T \in Seq(WellFormed[t]) /\ Len(T) = Len(r.children) - 1 /\ Head(r.children) \in WellFormed[t]
      /\ all(r.children, t) = y \o all(T, t)
  BY <1>1, <1>3, ListTail, Zenon
<1>15. <<>> \in Seq(WellFormed[t]) /\ Len(<<>>) = 0
  OBVIOUS
<1>6. /\ m \in Seq(WellFormed[t]) /\ Len(<<>>) + 1 <= Len(m) /\ Len(m) <= Len(<<>>) + 2
      /\ all(m, t) = all(<<>>, t) \o (x \o y)
  BY <1>1, <1>15, AppendCentre, Zenon
<1>7. seam_right_taller(r, c, s) = m \o T
  BY Zenon DEF seam_right_taller
<1>8. y \in Seq(Int) /\ all(T, t) \in Seq(Int)
  BY <1>1, <1>5, ElemsType, ListType, Zenon
<1>9. elems(r, s) = y \o all(T, t)
  BY <1>5, ElemsInner, Zenon
<1> HIDE DEF m, T
<1>10. m \o T \in Seq(WellFormed[t]) /\ Len(m \o T) = Len(m) + Len(T) /\ all(m \o T, t) = all(m, t) \o all(T, t)
  BY <1>1, <1>5, <1>6, ListConcat, Zenon
<1>14. Len(m) \in Nat /\ Len(T) \in Nat
  BY <1>5, <1>6
<1>11. Len(m) + Len(T) \in 1 .. 2 * BF
  BY <1>3, <1>5, <1>6, <1>14, <1>15, BType
<1> HIDE DEF y
<1>12. (x \o y) \o all(T, t) = x \o (y \o all(T, t)) /\ x \o y \in Seq(Int)
  BY <1>8, Assoc, Zenon
<1>16. all(m, t) = x \o y
  BY <1>6, <1>12, AllEmpty, EmptyLeft, Zenon
<1>13. all(m \o T, t) = x \o elems(r, s)
  BY <1>9, <1>10, <1>12, <1>16, Zenon
<1> QED
  BY <1>7, <1>10, <1>11, <1>13, Zenon DEF Seam

LEMMA SeamLeaves ==
    ASSUME NEW l \in WellFormed[B], NEW r \in WellFormed[B]
    PROVE  Seam(seam_leaves(l, r), 0, elems(l, B) \o elems(r, B))
<1> DEFINE F == Front(l.children)
           T == Tail(r.children)
           x == Last(l.children)
           y == Head(r.children)
<1>1. 0 \in Shifts /\ B \in Inner /\ B - B = 0
  BY BInner, BType
<1>2. l.children \in Seq(WellFormed[B - B]) /\ Len(l.children) \in 1 .. BF /\ l.children # <<>>
  BY <1>1, FormFields, Zenon
<1>3. r.children \in Seq(WellFormed[B - B]) /\ Len(r.children) \in 1 .. BF /\ r.children # <<>>
  BY <1>1, FormFields, Zenon
<1>4. /\ F \in Seq(WellFormed[0]) /\ Len(F) = Len(l.children) - 1 /\ x \in WellFormed[0]
      /\ all(l.children, 0) = all(F, 0) \o elems(x, 0)
  BY <1>1, <1>2, ListFront, Zenon
<1>5. /\ T \in Seq(WellFormed[0]) /\ Len(T) = Len(r.children) - 1 /\ y \in WellFormed[0]
      /\ all(r.children, 0) = elems(y, 0) \o all(T, 0)
  BY <1>1, <1>3, ListTail, Zenon
<1>6. elems(l, B) = all(l.children, 0) /\ elems(r, B) = all(r.children, 0)
  BY <1>1, ElemsInner, Zenon
<1>7. x \in Seq(Int) /\ y \in Seq(Int) /\ Len(x) \in 1 .. BF /\ Len(y) \in 1 .. BF
  BY <1>4, <1>5, LeafForm, Zenon
<1>8. all(F, 0) \in Seq(Int) /\ all(T, 0) \in Seq(Int)
  BY <1>1, <1>4, <1>5, ListType, Zenon
<1>9. elems(x, 0) = x /\ elems(y, 0) = y
  BY ElemsLeaf, Zenon
<1>10. ASSUME Len(x) + Len(y) <= BF
       PROVE  Seam(seam_leaves(l, r), 0, elems(l, B) \o elems(r, B))
  <2> DEFINE z == x \o y
             g == F \o <<z>>
  <2>1. seam_leaves(l, r) = g \o T
    BY <1>10, Zenon DEF seam_leaves
  <2> HIDE DEF F, T, x, y
  <2>2. z \in Seq(Int) /\ Len(z) = Len(x) + Len(y)
    BY <1>7
  <2>3. Len(z) \in 1 .. BF
    BY <1>7, <1>10, <2>2, BType
  <2>4. z \in WellFormed[0]
    BY <2>2, <2>3, LeafForm, Zenon
  <2>5. elems(z, 0) = z
    BY ElemsLeaf, Zenon
  <2> HIDE DEF z
  <2>6. g \in Seq(WellFormed[0]) /\ Len(g) = Len(F) + 1 /\ all(g, 0) = all(F, 0) \o z
    BY <1>1, <1>4, <2>4, <2>5, ListSnoc, ZenonT(60)
  <2> HIDE DEF g
  <2>7. g \o T \in Seq(WellFormed[0]) /\ Len(g \o T) = Len(g) + Len(T) /\ all(g \o T, 0) = all(g, 0) \o all(T, 0)
    BY <1>1, <1>5, <2>6, ListConcat, Zenon
  <2>14. /\ Len(l.children) \in 1 .. BF /\ Len(r.children) \in 1 .. BF
         /\ Len(F) = Len(l.children) - 1 /\ Len(T) = Len(r.children) - 1 /\ Len(g) = Len(F) + 1
    BY <1>2, <1>3, <1>4, <1>5, <2>6, Zenon
  <2>8. Len(g) + Len(T) \in 1 .. 2 * BF
    <3> DEFINE m == Len(l.children)
               k == Len(r.children)
    <3> HIDE DEF m, k
    <3>1. m \in 1 .. BF /\ k \in 1 .. BF /\ Len(F) = m - 1 /\ Len(T) = k - 1 /\ Len(g) = Len(F) + 1
      BY <2>14, Zenon DEF m, k
    <3> QED
      BY <3>1, BType
  <2> DEFINE p == all(F, 0)
             q == all(T, 0)
  <2> HIDE DEF p, q
  <2>11. p \in Seq(Int) /\ q \in Seq(Int)
    BY <1>8, Zenon DEF p, q
  <2>12. x \in Seq(Int) /\ y \in Seq(Int)
    BY <1>7, Zenon
  <2>13. (p \o (x \o y)) \o q = (p \o x) \o (y \o q)
    <3> DEFINE e == p \o x
    <3>1. e \o y = p \o (x \o y)
      BY <2>11, <2>12, AssocAll, Zenon
    <3>2. e \in Seq(Int)
      BY <2>11, <2>12
    <3> HIDE DEF e
    <3>3. (e \o y) \o q = e \o (y \o q)
      BY <2>11, <2>12, <3>2, AssocAll, Zenon
    <3> QED
      BY <3>1, <3>3, Zenon DEF e
  <2>9. (all(F, 0) \o (x \o y)) \o all(T, 0) = (all(F, 0) \o x) \o (y \o all(T, 0))
    BY <2>13, Zenon DEF p, q
  <2>10. all(g \o T, 0) = elems(l, B) \o elems(r, B)
    BY <1>4, <1>5, <1>6, <1>9, <2>6, <2>7, <2>9, Zenon DEF z
  <2> QED
    BY <2>1, <2>7, <2>8, <2>10, Zenon DEF Seam
<1>11. ASSUME ~(Len(x) + Len(y) <= BF)
       PROVE  Seam(seam_leaves(l, r), 0, elems(l, B) \o elems(r, B))
  <2> DEFINE a == l.children
             b == r.children
  <2>1. seam_leaves(l, r) = a \o b
    BY <1>11, Zenon DEF seam_leaves
  <2>2. a \o b \in Seq(WellFormed[0]) /\ Len(a \o b) = Len(a) + Len(b) /\ all(a \o b, 0) = all(a, 0) \o all(b, 0)
    BY <1>1, <1>2, <1>3, ListConcat, Zenon
  <2>4. Len(a) \in 1 .. BF /\ Len(b) \in 1 .. BF
    BY <1>2, <1>3, Zenon
  <2>3. Len(a) + Len(b) \in 1 .. 2 * BF
    BY <2>4, SumBound, Zenon
  <2> QED
    BY <1>6, <2>1, <2>2, <2>3, Zenon DEF Seam
<1> QED
  BY <1>10, <1>11

\* A packed seam is the merge of what it holds.
LEMMA PackSeam ==
    ASSUME NEW s \in Inner, NEW ch, NEW a, Seam(ch, s - B, a)
    PROVE  Merged(pack_children(ch, s), s, a)
BY PackChildren, Zenon DEF Seam

PairRank(s) == s[1] + s[2]

ConcatBody(g, s) ==
  [l \in Nodes[s[1]] |->
     [r \in Nodes[s[2]] |->
        LET left == Last(l.children)
            right == Head(r.children)
            ls == s[1]
            rs == s[2]
        IN IF ls = rs /\ ls = B THEN pack_children(seam_leaves(l, r), ls)
           ELSE IF ls = rs
           THEN pack_children(seam_equal(l, r, g[<<ls - B, rs - B>>][left][right], ls), ls)
           ELSE IF ls > rs
           THEN pack_children(seam_left_taller(l, g[<<ls - B, rs>>][left][r], ls), ls)
           ELSE pack_children(seam_right_taller(r, g[<<ls, rs - B>>][l][right], rs), rs)]]
Concatenating == INSTANCE RecursiveFunctions WITH D <- Inner \X Inner, Rank <- PairRank, Body <- ConcatBody

\* The shifts of the two trees one level down.
LEMMA ShiftsBelow ==
    ASSUME NEW ls \in Inner, NEW rs \in Inner
    PROVE  /\ ls = rs /\ ls # B => ls - B \in Inner /\ rs - B \in Inner
           /\ ls > rs => ls - B \in Inner /\ rs <= ls - B
           /\ ~(ls = rs) /\ ~(ls > rs) => rs - B \in Inner /\ ls <= rs - B
<1>1. /\ ls \in Nat /\ rs \in Nat /\ B \in Nat /\ ls >= B /\ rs >= B /\ ls \in Shifts /\ rs \in Shifts
      /\ (ls # B => ls - B \in Inner) /\ (rs # B => rs - B \in Inner)
  BY InnerType, BType
<1>2. rs < ls => rs <= ls - B
  BY <1>1, ShiftGap
<1>3. ls < rs => ls <= rs - B
  BY <1>1, ShiftGap
<1> QED
  BY <1>1, <1>2, <1>3

LEMMA PairBelow ==
    ASSUME NEW s, NEW a \in Inner, NEW b \in Inner, a + b < s[1] + s[2]
    PROVE  <<a, b>> \in Inner \X Inner /\ PairRank(<<a, b>>) < PairRank(s)
BY DEF PairRank

LEMMA ConcatIs == \A s \in Inner \X Inner : concat_trees[s] = ConcatBody(concat_trees, s)
<1>1. concat_trees = CHOOSE g : g = [s \in Inner \X Inner |-> ConcatBody(g, s)]
  BY Zenon DEF concat_trees, ConcatBody
<1>2. Concatenating!Ranked
  <2>1. \A s \in Inner \X Inner : s[1] \in Nat /\ s[2] \in Nat
    BY InnerType
  <2> QED
    BY <2>1 DEF Concatenating!Ranked, PairRank
<1>3. Concatenating!Local
  <2> SUFFICES ASSUME NEW g, NEW h, NEW s \in Inner \X Inner,
                      \A t \in Inner \X Inner : PairRank(t) < PairRank(s) => g[t] = h[t]
               PROVE  ConcatBody(g, s) = ConcatBody(h, s)
    BY Zenon DEF Concatenating!Local
  <2> DEFINE ls == s[1]
             rs == s[2]
  <2>1. ls \in Inner /\ rs \in Inner /\ ls \in Nat /\ rs \in Nat /\ B \in Nat /\ B > 0
    BY InnerType, BType
  <2>2. ASSUME ls = rs /\ ls = B PROVE ConcatBody(g, s) = ConcatBody(h, s)
    BY <2>2, Zenon DEF ConcatBody
  <2>3. ASSUME ls = rs, ls # B PROVE ConcatBody(g, s) = ConcatBody(h, s)
    <3>1. ls - B \in Inner /\ rs - B \in Inner
      BY <2>1, <2>3, ShiftsBelow, Zenon
    <3>2. (ls - B) + (rs - B) < ls + rs
      BY <2>1
    <3>4. <<ls - B, rs - B>> \in Inner \X Inner /\ PairRank(<<ls - B, rs - B>>) < PairRank(s)
      BY <3>1, <3>2, PairBelow, Zenon
    <3>3. g[<<ls - B, rs - B>>] = h[<<ls - B, rs - B>>]
      BY <3>4, Zenon
    <3> QED
      BY <2>3, <3>3, Zenon DEF ConcatBody
  <2>4. ASSUME ~(ls = rs), ls > rs PROVE ConcatBody(g, s) = ConcatBody(h, s)
    <3>1. ls - B \in Inner
      BY <2>1, <2>4, ShiftsBelow, Zenon
    <3>2. (ls - B) + rs < ls + rs
      BY <2>1
    <3>4. <<ls - B, rs>> \in Inner \X Inner /\ PairRank(<<ls - B, rs>>) < PairRank(s)
      BY <2>1, <3>1, <3>2, PairBelow, Zenon
    <3>3. g[<<ls - B, rs>>] = h[<<ls - B, rs>>]
      BY <3>4, Zenon
    <3> QED
      BY <2>4, <3>3, Zenon DEF ConcatBody
  <2>5. ASSUME ~(ls = rs), ~(ls > rs) PROVE ConcatBody(g, s) = ConcatBody(h, s)
    <3>1. rs - B \in Inner
      BY <2>1, <2>5, ShiftsBelow, Zenon
    <3>2. ls + (rs - B) < ls + rs
      BY <2>1
    <3>4. <<ls, rs - B>> \in Inner \X Inner /\ PairRank(<<ls, rs - B>>) < PairRank(s)
      BY <2>1, <3>1, <3>2, PairBelow, Zenon
    <3>3. g[<<ls, rs - B>>] = h[<<ls, rs - B>>]
      BY <3>4, Zenon
    <3> QED
      BY <2>5, <3>3, Zenon DEF ConcatBody
  <2> QED
    BY <2>2, <2>3, <2>4, <2>5, Zenon
<1> QED
  BY <1>1, <1>2, <1>3, Concatenating!RecursiveFunction, Zenon

LEMMA ConcatStep ==
    ASSUME NEW ls \in Inner, NEW rs \in Inner, NEW l \in WellFormed[ls], NEW r \in WellFormed[rs]
    PROVE  concat_trees[<<ls, rs>>][l][r] =
             IF ls = rs /\ ls = B THEN pack_children(seam_leaves(l, r), ls)
             ELSE IF ls = rs
             THEN pack_children(seam_equal(l, r, concat_trees[<<ls - B, rs - B>>][Last(l.children)][Head(r.children)], ls), ls)
             ELSE IF ls > rs
             THEN pack_children(seam_left_taller(l, concat_trees[<<ls - B, rs>>][Last(l.children)][r], ls), ls)
             ELSE pack_children(seam_right_taller(r, concat_trees[<<ls, rs - B>>][l][Head(r.children)], rs), rs)
<1> DEFINE s == <<ls, rs>>
<1>1. s \in Inner \X Inner /\ s[1] = ls /\ s[2] = rs
  OBVIOUS
<1>2. ls \in Shifts /\ rs \in Shifts
  BY InnerType
<1>3. l \in Nodes[ls] /\ r \in Nodes[rs]
  BY <1>2, FormNodes
<1> HIDE DEF s
<1>4. l \in Nodes[s[1]] /\ r \in Nodes[s[2]]
  BY <1>1, <1>3, Zenon
<1>5. concat_trees[s] = ConcatBody(concat_trees, s)
  BY <1>1, ConcatIs, Zenon
<1>6. concat_trees[s][l][r] = ConcatBody(concat_trees, s)[l][r]
  BY <1>5, Zenon
<1>7. ConcatBody(concat_trees, s)[l][r] =
             IF s[1] = s[2] /\ s[1] = B THEN pack_children(seam_leaves(l, r), s[1])
             ELSE IF s[1] = s[2]
             THEN pack_children(seam_equal(l, r, concat_trees[<<s[1] - B, s[2] - B>>][Last(l.children)][Head(r.children)], s[1]), s[1])
             ELSE IF s[1] > s[2]
             THEN pack_children(seam_left_taller(l, concat_trees[<<s[1] - B, s[2]>>][Last(l.children)][r], s[1]), s[1])
             ELSE pack_children(seam_right_taller(r, concat_trees[<<s[1], s[2] - B>>][l][Head(r.children)], s[2]), s[2])
  BY <1>4, Zenon DEF ConcatBody
<1>8. concat_trees[s][l][r] =
             IF ls = rs /\ ls = B THEN pack_children(seam_leaves(l, r), ls)
             ELSE IF ls = rs
             THEN pack_children(seam_equal(l, r, concat_trees[<<ls - B, rs - B>>][Last(l.children)][Head(r.children)], ls), ls)
             ELSE IF ls > rs
             THEN pack_children(seam_left_taller(l, concat_trees[<<ls - B, rs>>][Last(l.children)][r], ls), ls)
             ELSE pack_children(seam_right_taller(r, concat_trees[<<ls, rs - B>>][l][Head(r.children)], rs), rs)
  BY <1>1, <1>6, <1>7, Zenon
<1> QED
  BY <1>8, Zenon DEF s

Higher(ls, rs) == IF ls >= rs THEN ls ELSE rs

\* Two trees merge to what both hold.
Merges(ls, rs) ==
  \A l \in WellFormed[ls], r \in WellFormed[rs] :
    Merged(concat_trees[<<ls, rs>>][l][r], Higher(ls, rs), elems(l, ls) \o elems(r, rs))

LEMMA HigherIs ==
    ASSUME NEW ls \in Nat, NEW rs \in Nat
    PROVE  (rs <= ls => Higher(ls, rs) = ls) /\ (ls <= rs => Higher(ls, rs) = rs)
BY DEF Higher

LEMMA MergesStep ==
    ASSUME NEW ls \in Inner, NEW rs \in Inner,
           \A a, b \in Inner : a + b < ls + rs => Merges(a, b)
    PROVE  Merges(ls, rs)
<1> SUFFICES ASSUME NEW l \in WellFormed[ls], NEW r \in WellFormed[rs]
             PROVE  Merged(concat_trees[<<ls, rs>>][l][r], Higher(ls, rs), elems(l, ls) \o elems(r, rs))
  BY Zenon DEF Merges
<1> DEFINE m == concat_trees[<<ls, rs>>][l][r]
           x == elems(l, ls)
           y == elems(r, rs)
           lc == Last(l.children)
           rc == Head(r.children)
<1>1. ls \in Nat /\ rs \in Nat /\ B \in Nat /\ B > 0 /\ ls \in Shifts /\ rs \in Shifts
  BY InnerType, BType
<1>2. x \in Seq(Int) /\ y \in Seq(Int)
  BY <1>1, ElemsType, Zenon
<1>3. lc \in WellFormed[ls - B] /\ rc \in WellFormed[rs - B]
  <2>1. l.children \in Seq(WellFormed[ls - B]) /\ l.children # <<>>
    BY FormFields, Zenon
  <2>2. r.children \in Seq(WellFormed[rs - B]) /\ r.children # <<>>
    BY FormFields, Zenon
  <2> QED
    BY <2>1, <2>2, FrontLast, HeadTail, Zenon
<1>4. ASSUME ls = rs, ls = B PROVE Merged(m, Higher(ls, rs), x \o y)
  <2>6. m = pack_children(seam_leaves(l, r), ls)
    BY <1>4, ConcatStep, Zenon
  <2>1. m = pack_children(seam_leaves(l, r), B)
    BY <1>4, <2>6, Zenon
  <2>2. Seam(seam_leaves(l, r), 0, elems(l, B) \o elems(r, B))
    BY <1>4, SeamLeaves, Zenon
  <2>3. B \in Inner /\ B - B = 0
    BY <1>1, BInner
  <2>4. Merged(pack_children(seam_leaves(l, r), B), B, elems(l, B) \o elems(r, B))
    BY <2>2, <2>3, PackSeam, Zenon
  <2>5. Higher(ls, rs) = B
    BY <1>1, <1>4, HigherIs
  <2> QED
    BY <1>4, <2>1, <2>4, <2>5, Zenon
<1>5. ASSUME ls = rs, ls # B PROVE Merged(m, Higher(ls, rs), x \o y)
  <2> DEFINE t == ls - B
             c == concat_trees[<<t, t>>][lc][rc]
  <2>1. m = pack_children(seam_equal(l, r, c, ls), ls)
    BY <1>5, ConcatStep, Zenon
  <2>2. t \in Inner
    BY <1>5, InnerType
  <2>3. t + t < ls + rs
    BY <1>1, <1>5
  <2>4. Merges(t, t)
    BY <2>2, <2>3, Zenon
  <2>5. Higher(t, t) = t /\ Higher(ls, rs) = ls
    BY <1>1, <1>5, <2>2, InnerType, HigherIs
  <2>6. Merged(c, t, elems(lc, t) \o elems(rc, t))
    BY <1>3, <1>5, <2>4, <2>5, Zenon DEF Merges
  <2>7. r \in WellFormed[ls]
    BY <1>5, Zenon
  <2>8. Seam(seam_equal(l, r, c, ls), t, elems(l, ls) \o elems(r, ls))
    BY <2>2, <2>6, <2>7, SeamEqual, Zenon
  <2>9. Merged(pack_children(seam_equal(l, r, c, ls), ls), ls, elems(l, ls) \o elems(r, ls))
    BY <2>8, PackSeam, Zenon
  <2> QED
    BY <1>5, <2>1, <2>5, <2>9, Zenon
<1>6. ASSUME ~(ls = rs), ls > rs PROVE Merged(m, Higher(ls, rs), x \o y)
  <2> DEFINE t == ls - B
             c == concat_trees[<<t, rs>>][lc][r]
  <2>1. m = pack_children(seam_left_taller(l, c, ls), ls)
    BY <1>6, ConcatStep, Zenon
  <2>2. t \in Inner /\ rs <= t
    BY <1>6, ShiftsBelow, Zenon
  <2>3. t + rs < ls + rs
    BY <1>1
  <2>4. Merges(t, rs)
    BY <2>2, <2>3, Zenon
  <2>5. Higher(t, rs) = t /\ Higher(ls, rs) = ls
    BY <1>1, <1>6, <2>2, InnerType, HigherIs
  <2>6. Merged(c, t, elems(lc, t) \o y)
    BY <1>3, <2>4, <2>5, Zenon DEF Merges
  <2>8. Seam(seam_left_taller(l, c, ls), t, x \o y)
    BY <1>2, <2>2, <2>6, SeamLeftTaller, Zenon
  <2>9. Merged(pack_children(seam_left_taller(l, c, ls), ls), ls, x \o y)
    BY <2>8, PackSeam, Zenon
  <2> QED
    BY <2>1, <2>5, <2>9, Zenon
<1>7. ASSUME ~(ls = rs), ~(ls > rs) PROVE Merged(m, Higher(ls, rs), x \o y)
  <2> DEFINE t == rs - B
             c == concat_trees[<<ls, t>>][l][rc]
  <2>1. m = pack_children(seam_right_taller(r, c, rs), rs)
    BY <1>7, ConcatStep, Zenon
  <2>2. t \in Inner /\ ls <= t
    BY <1>7, ShiftsBelow, Zenon
  <2>3. ls + t < ls + rs
    BY <1>1
  <2>4. Merges(ls, t)
    BY <2>2, <2>3, Zenon
  <2>5. Higher(ls, t) = t /\ Higher(ls, rs) = rs
    BY <1>1, <1>7, <2>2, InnerType, HigherIs
  <2>6. Merged(c, t, x \o elems(rc, t))
    BY <1>3, <2>4, <2>5, Zenon DEF Merges
  <2>8. Seam(seam_right_taller(r, c, rs), t, x \o y)
    BY <1>2, <2>2, <2>6, SeamRightTaller, Zenon
  <2>9. Merged(pack_children(seam_right_taller(r, c, rs), rs), rs, x \o y)
    BY <2>8, PackSeam, Zenon
  <2> QED
    BY <2>1, <2>5, <2>9, Zenon
<1> QED
  BY <1>4, <1>5, <1>6, <1>7, Zenon

LEMMA ConcatTrees == \A ls, rs \in Inner : Merges(ls, rs)
<1> DEFINE N == {n \in Nat : \A a, b \in Inner : a + b < n => Merges(a, b)}
<1>0. \A a \in Inner : a \in Nat
  BY InnerType
<1>1. 0 \in N
  BY <1>0
<1>2. ASSUME NEW n \in Nat, n \in N PROVE n + 1 \in N
  <2> SUFFICES ASSUME NEW ls \in Inner, NEW rs \in Inner, ls + rs < n + 1 PROVE Merges(ls, rs)
    OBVIOUS
  <2>1. \A a, b \in Inner : a + b < n => Merges(a, b)
    BY <1>2, Zenon
  <2>2. \A a, b \in Inner : a + b < ls + rs => a + b < n
    BY <1>0
  <2>3. \A a, b \in Inner : a + b < ls + rs => Merges(a, b)
    BY <2>1, <2>2, Zenon
  <2> QED
    BY <2>3, MergesStep, Zenon
<1> HIDE DEF N
<1>3. \A n \in Nat : n \in N
  BY <1>1, <1>2, OnNat!NatInduct
<1>4. ASSUME NEW a \in Inner, NEW b \in Inner PROVE Merges(a, b)
  <2>1. a + b + 1 \in Nat /\ a + b < a + b + 1
    BY <1>0
  <2>2. a + b + 1 \in N
    BY <1>3, <2>1, Zenon
  <2> QED
    BY <2>1, <2>2, Zenon DEF N
<1> QED
  BY <1>4, Zenon

-----------------------------------------------------------------------------
(***************************************************************************)
(* Vectors.  TreeOf: the tree under root holds a.  Vec: x is a vector with *)
(* a in its tree, and so a \o x.tail altogether.                           *)
(***************************************************************************)
TreeOf(root, shift, a) ==
  IF root = Null THEN shift = 0 /\ a = <<>>
  ELSE shift \in Inner /\ root \in WellFormed[shift] /\ elems(root, shift) = a

Vec(x, a) ==
  /\ x = [len |-> Len(a) + Len(x.tail), shift |-> x.shift, root |-> x.root, tail |-> x.tail]
  /\ TreeOf(x.root, x.shift, a)
  /\ x.tail \in Seq(Int) /\ Len(x.tail) <= BF

LEMMA TreeFacts ==
    ASSUME NEW root, NEW shift, NEW a, TreeOf(root, shift, a)
    PROVE  /\ a \in Seq(Int) /\ shift \in Shifts /\ root \in Nodes[shift] \cup {Null}
           /\ root # Null => shift \in Inner /\ root \in WellFormed[shift] /\ elems(root, shift) = a /\ a # <<>>
           /\ root = Null => shift = 0 /\ a = <<>>
<1>1. CASE root = Null
  <2>1. shift = 0 /\ a = <<>>
    BY <1>1, Zenon DEF TreeOf
  <2>2. <<>> \in Seq(Int) /\ 0 \in Shifts
    BY BInner
  <2> QED
    BY <1>1, <2>1, <2>2, Zenon
<1>2. CASE root # Null
  <2>1. shift \in Inner /\ root \in WellFormed[shift] /\ elems(root, shift) = a
    BY <1>2, Zenon DEF TreeOf
  <2>2. shift \in Shifts
    BY <2>1, InnerType
  <2>3. root \in Nodes[shift]
    BY <2>1, <2>2, FormNodes
  <2>4. a \in Seq(Int) /\ 1 <= Len(a)
    BY <2>1, <2>2, FormElems, Zenon
  <2>6. Len(<<>>) = 0 /\ ~(1 <= 0)
    OBVIOUS
  <2>5. a # <<>>
    BY <2>4, <2>6, Zenon
  <2> QED
    BY <1>2, <2>1, <2>2, <2>3, <2>4, <2>5, Zenon
<1> QED
  BY <1>1, <1>2

LEMMA VecFacts ==
    ASSUME NEW x, NEW a, Vec(x, a)
    PROVE  /\ a \in Seq(Int) /\ Len(a) \in Nat
           /\ x.tail \in Seq(Int) /\ Len(x.tail) \in Nat /\ Len(x.tail) <= BF
           /\ x.len = Len(a) + Len(x.tail) /\ x.len \in Nat
           /\ x.shift \in Shifts
           /\ x = [len |-> x.len, shift |-> x.shift, root |-> x.root, tail |-> x.tail]
           /\ x \in Vectors(x.shift)
           /\ tailoff(x) = Len(a)
           /\ to_array(x) = a \o x.tail
           /\ a \o x.tail \in Seq(Int) /\ Len(a \o x.tail) = x.len
<1>1. x = [len |-> Len(a) + Len(x.tail), shift |-> x.shift, root |-> x.root, tail |-> x.tail]
  BY Zenon DEF Vec
<1>2. TreeOf(x.root, x.shift, a) /\ x.tail \in Seq(Int) /\ Len(x.tail) <= BF
  BY Zenon DEF Vec
<1>12. a \in Seq(Int) /\ x.shift \in Shifts /\ x.root \in Nodes[x.shift] \cup {Null}
  BY <1>2, TreeFacts, Zenon
<1>13. /\ x.root # Null => x.shift \in Inner /\ x.root \in WellFormed[x.shift] /\ elems(x.root, x.shift) = a
       /\ x.root = Null => a = <<>>
  BY <1>2, Zenon DEF TreeOf
<1>3. /\ a \in Seq(Int) /\ x.shift \in Shifts /\ x.root \in Nodes[x.shift] \cup {Null}
      /\ x.root # Null => x.shift \in Inner /\ x.root \in WellFormed[x.shift] /\ elems(x.root, x.shift) = a
      /\ x.root = Null => a = <<>>
  BY <1>12, <1>13, Zenon
<1> DEFINE n == Len(a)
           m == Len(x.tail)
           sh == x.shift
           ro == x.root
           ta == x.tail
<1>4. n \in Nat /\ m \in Nat
  BY <1>2, <1>3
<1>5. n + m \in Nat /\ (n + m) - m = n
  BY <1>4
<1>6. x.len = n + m
  <2>1. [len |-> n + m, shift |-> sh, root |-> ro, tail |-> ta].len = n + m
    OBVIOUS
  <2> QED
    BY <1>1, <2>1, Zenon
<1>7. x = [len |-> x.len, shift |-> x.shift, root |-> x.root, tail |-> x.tail]
  BY <1>1, <1>6, Zenon
<1>8. x \in Vectors(x.shift)
  <2> DEFINE NN == Nodes[x.shift] \cup {Null}
             L == Seq(Int)
  <2>1. n + m \in Nat /\ ro \in NN /\ ta \in L
    BY <1>2, <1>3, <1>5, Zenon
  <2> HIDE DEF NN, L, ta, ro, sh, n, m
  <2>2. [len |-> n + m, shift |-> sh, root |-> ro, tail |-> ta] \in [len : Nat, shift : {sh}, root : NN, tail : L]
    BY <2>1
  <2> QED
    BY <1>1, <2>2, Zenon DEF Vectors, NN, L, ta, ro, sh, n, m
<1>9. tailoff(x) = n
  BY <1>5, <1>6, Zenon DEF tailoff
<1>10. to_array(x) = a \o x.tail
  <2>1. CASE x.root = Null
    BY <1>3, <2>1, Zenon DEF to_array
  <2>2. CASE x.root # Null
    <3>1. x.shift # 0
      BY <1>3, <2>2, InnerType
    <3>2. elems(x.root, x.shift) = copy_leaves[x.shift][x.root]
      BY <3>1, Zenon DEF elems
    <3> QED
      BY <1>3, <2>2, <3>2, Zenon DEF to_array
  <2> QED
    BY <2>1, <2>2
<1>11. a \o ta \in Seq(Int) /\ Len(a \o ta) = n + m
  <2> HIDE DEF ta
  <2>1. ta \in Seq(Int) /\ m = Len(ta)
    BY <1>2, Zenon DEF ta
  <2> QED
    BY <1>3, <2>1
<1> QED
  BY <1>2, <1>3, <1>4, <1>5, <1>6, <1>7, <1>8, <1>9, <1>10, <1>11, Zenon

LEMMA VecOf ==
    ASSUME NEW root, NEW shift, NEW tail \in Seq(Int), NEW len, NEW a, TreeOf(root, shift, a),
           Len(tail) <= BF, len = Len(a) + Len(tail)
    PROVE  LET x == [len |-> len, shift |-> shift, root |-> root, tail |-> tail]
           IN Vec(x, a) /\ x.tail = tail /\ x.shift = shift /\ x.root = root /\ x.len = len
<1> DEFINE x == [len |-> len, shift |-> shift, root |-> root, tail |-> tail]
<1>1. x.len = len /\ x.shift = shift /\ x.root = root /\ x.tail = tail
  OBVIOUS
<1>2. x = [len |-> len, shift |-> shift, root |-> root, tail |-> tail]
  OBVIOUS
<1> HIDE DEF x
<1>3. Vec(x, a)
  BY <1>1, <1>2, Zenon DEF Vec
<1> QED
  BY <1>1, <1>3, Zenon DEF x

LEMMA EmptyIs == /\ Vec(EmptyVec, <<>>) /\ EmptyVec.tail = <<>> /\ EmptyVec.len = 0 /\ EmptyVec.root = Null
                 /\ EmptyVec.shift = 0
<1>1. TreeOf(Null, 0, <<>>)
  BY Zenon DEF TreeOf
<1>2. <<>> \in Seq(Int) /\ Len(<<>>) <= BF /\ 0 = Len(<<>>) + Len(<<>>)
  BY BType
<1> DEFINE x == [len |-> 0, shift |-> 0, root |-> Null, tail |-> <<>>]
<1>3. x.tail = <<>> /\ x.shift = 0 /\ x.root = Null /\ x.len = 0
  OBVIOUS
<1>4. x = [len |-> 0, shift |-> 0, root |-> Null, tail |-> <<>>]
  OBVIOUS
<1> HIDE DEF x
<1>5. Vec(x, <<>>)
  BY <1>1, <1>2, <1>3, <1>4, Zenon DEF Vec
<1> QED
  BY <1>3, <1>5, Zenon DEF EmptyVec, x

LEMMA MergedTree ==
    ASSUME NEW s \in Inner, NEW r, NEW a, Merged(r, s, a)
    PROVE  TreeOf(r[1], r[2], a) /\ r[1] # Null /\ r[2] \in Inner
<1>1. r[2] \in Inner
  BY InnerType, ShiftUp, Zenon DEF Merged
<1>2. r[1] \in WellFormed[r[2]] /\ elems(r[1], r[2]) = a
  BY Zenon DEF Merged
<1>3. r[1] # Null
  BY <1>1, <1>2, FormFields, Zenon
<1> QED
  BY <1>1, <1>2, <1>3, Zenon DEF TreeOf

\* One leaf under a node.
LEMMA WrapLeaf ==
    ASSUME NEW leaf \in Seq(Int), Len(leaf) \in 1 .. BF
    PROVE  wrap_leaf(leaf) \in WellFormed[B] /\ elems(wrap_leaf(leaf), B) = leaf
<1>1. leaf \in WellFormed[0] /\ 0 \in Shifts /\ B \in Inner /\ B - B = 0 /\ elems(leaf, 0) = leaf
  <2>1. leaf \in WellFormed[0]
    BY LeafForm, Zenon
  <2> QED
    BY <2>1, BInner, BType, ElemsLeaf
<1>2. <<leaf>> \in Seq(WellFormed[0]) /\ Len(<<leaf>>) = 1 /\ all(<<leaf>>, 0) = leaf
  BY <1>1, ListOne, Zenon
<1>3. 1 \in 1 .. BF
  BY BType
<1>4. <<leaf>> \in Seq(WellFormed[B - B]) /\ Len(<<leaf>>) \in 1 .. BF
  BY <1>1, <1>2, <1>3, Zenon
<1>5. make_relaxed(<<leaf>>, B) \in WellFormed[B] /\ elems(make_relaxed(<<leaf>>, B), B) = all(<<leaf>>, B - B)
  BY <1>1, <1>4, MakeRelaxed, Zenon
<1> QED
  BY <1>1, <1>2, <1>5, Zenon DEF wrap_leaf

PathBody(g, s) ==
  [leaf \in Seq(Int) |->
     IF s = 0 THEN leaf ELSE [children |-> <<g[s - B][leaf]>>, sizes |-> Dense]]
Pathing == INSTANCE RecursiveFunctions WITH D <- Shifts, Rank <- NatRank, Body <- PathBody

LEMMA PathIs == \A s \in Shifts : new_path[s] = PathBody(new_path, s)
<1>1. new_path = CHOOSE g : g = [s \in Shifts |-> PathBody(g, s)]
  BY Zenon DEF new_path, PathBody
<1>2. Pathing!Ranked
  BY ShiftsRanked, Zenon DEF Pathing!Ranked
<1>3. Pathing!Local
  <2> SUFFICES ASSUME NEW g, NEW h, NEW s \in Shifts, \A t \in Shifts : NatRank(t) < NatRank(s) => g[t] = h[t]
               PROVE  PathBody(g, s) = PathBody(h, s)
    BY Zenon DEF Pathing!Local
  <2>1. s # 0 => g[s - B] = h[s - B]
    BY ShiftBelow, Zenon
  <2> QED
    BY <2>1, Zenon DEF PathBody
<1> QED
  BY <1>1, <1>2, <1>3, Pathing!RecursiveFunction, Zenon

LEMMA NewPath ==
    ASSUME NEW leaf \in Seq(Int), Len(leaf) \in 1 .. BF
    PROVE  new_path[B][leaf] \in WellFormed[B] /\ elems(new_path[B][leaf], B) = leaf
<1>1. leaf \in WellFormed[0] /\ 0 \in Shifts /\ B \in Inner /\ B \in Shifts /\ B # 0 /\ B - B = 0 /\ elems(leaf, 0) = leaf
  <2>1. leaf \in WellFormed[0]
    BY LeafForm, Zenon
  <2>2. B \in Shifts
    BY BInner, InnerType
  <2> QED
    BY <2>1, <2>2, BInner, BType, ElemsLeaf
<1>2. new_path[0][leaf] = leaf
  BY <1>1, PathIs, Zenon DEF PathBody
<1>3. new_path[B][leaf] = [children |-> <<leaf>>, sizes |-> Dense]
  <2>1. new_path[B] = PathBody(new_path, B)
    BY <1>1, PathIs, Zenon
  <2>2. PathBody(new_path, B)[leaf] = [children |-> <<new_path[B - B][leaf]>>, sizes |-> Dense]
    BY <1>1, Zenon DEF PathBody
  <2> QED
    BY <1>1, <1>2, <2>1, <2>2, Zenon
<1>4. <<leaf>> \in Seq(WellFormed[0]) /\ Len(<<leaf>>) = 1 /\ all(<<leaf>>, 0) = leaf
  BY <1>1, ListOne, Zenon
<1>5. 1 \in 1 .. BF /\ 1 .. (1 - 1) = {} /\ Dense \in Seq(Nat)
  BY BType DEF Dense
<1>6. SizesFit(<<leaf>>, Dense, B)
  BY <1>4, <1>5, Zenon DEF SizesFit
<1>7. <<leaf>> \in Seq(WellFormed[B - B]) /\ Len(<<leaf>>) \in 1 .. BF
  BY <1>1, <1>4, <1>5, Zenon
<1> DEFINE n == [children |-> <<leaf>>, sizes |-> Dense]
<1>8. n \in WellFormed[B]
  BY <1>1, <1>5, <1>6, <1>7, FormOf, Zenon
<1>9. n.children = <<leaf>>
  OBVIOUS
<1> HIDE DEF n
<1>10. elems(n, B) = all(n.children, B - B)
  BY <1>1, <1>8, ElemsInner, Zenon
<1>11. elems(n, B) = leaf
  BY <1>1, <1>4, <1>9, <1>10, Zenon
<1> QED
  BY <1>3, <1>8, <1>11, Zenon DEF n

\* A leaf behind everything else of the tree.
LEMMA WithLeaf ==
    ASSUME NEW x, NEW a, TreeOf(x.root, x.shift, a), NEW leaf \in Seq(Int), Len(leaf) \in 1 .. BF
    PROVE  LET t == with_leaf(x, leaf)
           IN TreeOf(t[1], t[2], a \o leaf) /\ t[1] # Null /\ t[2] \in Inner
<1> DEFINE t == with_leaf(x, leaf)
<1>1. CASE x.root = Null
  <2> DEFINE n == new_path[B][leaf]
  <2>1. t = <<n, B>>
    BY <1>1, Zenon DEF with_leaf
  <2>2. a = <<>>
    BY <1>1, Zenon DEF TreeOf
  <2>3. n \in WellFormed[B] /\ elems(n, B) = leaf /\ B \in Inner
    BY NewPath, BInner, Zenon
  <2> HIDE DEF n
  <2>4. <<n, B>>[1] = n /\ <<n, B>>[2] = B
    OBVIOUS
  <2>5. <<>> \o leaf = leaf
    BY EmptyLeft, Zenon
  <2>6. n # Null
    BY <2>3, FormFields, Zenon
  <2> HIDE DEF t
  <2>7. TreeOf(t[1], t[2], a \o leaf) /\ t[1] # Null /\ t[2] \in Inner
    BY <2>1, <2>2, <2>3, <2>4, <2>5, <2>6, Zenon DEF TreeOf
  <2> QED
    BY <2>7, Zenon DEF t
<1>2. CASE x.root # Null
  <2> DEFINE l == x.root
             r == wrap_leaf(leaf)
             s == x.shift
  <2>1. t = concat_trees[<<s, B>>][l][r]
    BY <1>2, Zenon DEF with_leaf
  <2>2. s \in Inner /\ l \in WellFormed[s] /\ elems(l, s) = a
    BY <1>2, Zenon DEF TreeOf
  <2>3. r \in WellFormed[B] /\ elems(r, B) = leaf /\ B \in Inner
    BY WrapLeaf, BInner, Zenon
  <2>4. Merges(s, B)
    BY <2>2, <2>3, ConcatTrees, Zenon
  <2>5. Merged(t, Higher(s, B), a \o leaf)
    BY <2>1, <2>2, <2>3, <2>4, Zenon DEF Merges
  <2>6. Higher(s, B) \in Inner
    BY <2>2, <2>3, Zenon DEF Higher
  <2> QED
    BY <2>5, <2>6, MergedTree, Zenon
<1> QED
  BY <1>1, <1>2

\* A vector that holds c and has a tail.
Loaded(y, c) == \E d : Vec(y, d) /\ y.tail # <<>> /\ c = d \o y.tail

LEMMA LoadedFacts ==
    ASSUME NEW y, NEW c, Loaded(y, c)
    PROVE  /\ to_array(y) = c /\ y.len = Len(c) /\ c \in Seq(Int)
           /\ y.tail # <<>> /\ y.tail \in Seq(Int) /\ Len(y.tail) \in 1 .. BF
           /\ y.shift \in Shifts
<1>1. PICK d : Vec(y, d) /\ y.tail # <<>> /\ c = d \o y.tail
  BY Zenon DEF Loaded
<1>2. /\ to_array(y) = c /\ c \in Seq(Int)
  BY <1>1, VecFacts, Zenon
<1>5. y.len = Len(c) /\ y.shift \in Shifts
  BY <1>1, VecFacts, Zenon
<1>3. y.tail \in Seq(Int) /\ Len(y.tail) \in Nat /\ Len(y.tail) <= BF
  BY <1>1, VecFacts, Zenon
<1>4. Len(y.tail) \in 1 .. BF
  <2>1. Len(y.tail) # 0
    <3> DEFINE t == y.tail
    <3>1. t \in Seq(Int) /\ t # <<>>
      BY <1>1, <1>3, Zenon
    <3> HIDE DEF t
    <3>2. Len(t) # 0
      BY <3>1, EmptySeq
    <3> QED
      BY <3>2, Zenon DEF t
  <2> DEFINE n == Len(y.tail)
  <2>2. n \in Nat /\ n <= BF /\ n # 0
    BY <1>3, <2>1, Zenon
  <2> HIDE DEF n
  <2>3. n \in 1 .. BF
    BY <2>2, BType
  <2> QED
    BY <2>3, Zenon DEF n
<1> QED
  BY <1>1, <1>2, <1>3, <1>4, <1>5, Zenon

LEMMA WithTail ==
    ASSUME NEW x, x = [len |-> x.len, shift |-> x.shift, root |-> x.root, tail |-> x.tail], NEW l, NEW t
    PROVE  [x EXCEPT !.len = l, !.tail = t] = [len |-> l, shift |-> x.shift, root |-> x.root, tail |-> t]
<1> DEFINE y == [x EXCEPT !.len = l]
           s == x.shift
           r == x.root
           u == x.tail
           k == x.len
<1>1. x = [len |-> k, shift |-> s, root |-> r, tail |-> u]
  BY Zenon
<1> HIDE DEF k, s, r, u
<1>2. y = [len |-> l, shift |-> s, root |-> r, tail |-> u]
  BY <1>1
<1> HIDE DEF y
<1>3. [y EXCEPT !.tail = t] = [len |-> l, shift |-> s, root |-> r, tail |-> t]
  BY <1>2
<1>4. [x EXCEPT !.len = l, !.tail = t] = [y EXCEPT !.tail = t]
  BY DEF y
<1> QED
  BY <1>3, <1>4, Zenon DEF s, r

LEMMA AppendOne ==
    ASSUME NEW a \in Seq(Int), NEW b \in Seq(Int), NEW e \in Int
    PROVE  /\ Append(b, e) \in Seq(Int) /\ Len(Append(b, e)) = Len(b) + 1
           /\ (a \o b) \o <<e>> = a \o Append(b, e)
           /\ Append(b, e) # <<>>
<1>1. Append(b, e) = b \o <<e>> /\ <<e>> \in Seq(Int)
  BY AppendIsConcat
<1>2. (a \o b) \o <<e>> = a \o (b \o <<e>>)
  BY <1>1, AssocAll, Zenon
<1>3. Append(b, e) \in Seq(Int) /\ Len(Append(b, e)) = Len(b) + 1 /\ Append(b, e) # <<>>
  OBVIOUS
<1> QED
  BY <1>1, <1>2, <1>3, Zenon

LEMMA PushLoads ==
    ASSUME NEW x, NEW a, Vec(x, a), NEW e \in Int
    PROVE  Loaded(push(x, e), (a \o x.tail) \o <<e>>)
<1>1. /\ a \in Seq(Int) /\ Len(a) \in Nat
      /\ x.tail \in Seq(Int) /\ Len(x.tail) \in Nat /\ Len(x.tail) <= BF
  BY VecFacts, Zenon
<1>2. /\ x.len = Len(a) + Len(x.tail) /\ x.len \in Nat
      /\ x = [len |-> x.len, shift |-> x.shift, root |-> x.root, tail |-> x.tail]
  BY VecFacts, Zenon
<1>3. TreeOf(x.root, x.shift, a)
  BY Zenon DEF Vec
<1> DEFINE b == x.tail
           n == Len(a)
           m == Len(x.tail)
           le == x.len
<1>4. n \in Nat /\ m \in Nat /\ m <= BF /\ le = n + m /\ BF \in Nat /\ BF >= 2
  BY <1>1, <1>2, BType, Zenon
<1>5. CASE m < BF
  <2> DEFINE t == Append(b, e)
             y == [len |-> le + 1, shift |-> x.shift, root |-> x.root, tail |-> t]
  <2>1. push(x, e) = y
    BY <1>2, <1>5, WithTail, Zenon DEF push, vector
  <2>2. t \in Seq(Int) /\ Len(t) = m + 1 /\ (a \o b) \o <<e>> = a \o t /\ t # <<>>
    BY <1>1, AppendOne, Zenon
  <2> HIDE DEF t, n, m, le
  <2>3. m + 1 <= BF /\ le + 1 = n + (m + 1)
    BY <1>4, <1>5
  <2>4. Len(t) <= BF /\ le + 1 = Len(a) + Len(t)
    BY <2>2, <2>3, Zenon DEF n
  <2>5. Vec(y, a) /\ y.tail = t
    BY <1>3, <2>2, <2>4, VecOf, Zenon
  <2> HIDE DEF y
  <2>6. Loaded(y, (a \o b) \o <<e>>)
    BY <2>2, <2>5, Zenon DEF Loaded
  <2> QED
    BY <2>1, <2>6, Zenon
<1>6. CASE ~(m < BF)
  <2> DEFINE t == with_leaf(x, b)
             y == [len |-> le + 1, shift |-> t[2], root |-> t[1], tail |-> <<e>>]
             c == a \o b
  <2>1. push(x, e) = y
    BY <1>6, Zenon DEF push, vector
  <2>2. m \in 1 .. BF
    <3> HIDE DEF m, n, le
    <3> QED
      BY <1>4, <1>6
  <2>3. TreeOf(t[1], t[2], c)
    BY <1>1, <1>3, <2>2, WithLeaf, Zenon
  <2>4. <<e>> \in Seq(Int) /\ Len(<<e>>) = 1 /\ <<e>> # <<>>
    OBVIOUS
  <2>5. Len(c) = le
    BY VecFacts, Zenon
  <2>6. 1 <= BF
    BY BType
  <2> HIDE DEF t, c, b
  <2>7. Len(<<e>>) <= BF /\ le + 1 = Len(c) + Len(<<e>>)
    BY <2>4, <2>5, <2>6, Zenon
  <2> DEFINE q == <<e>>
  <2>10. q \in Seq(Int) /\ Len(q) <= BF /\ le + 1 = Len(c) + Len(q)
    BY <2>4, <2>7, Zenon
  <2> HIDE DEF q
  <2> DEFINE ro == t[1]
             sh == t[2]
             k == le + 1
             z == [len |-> k, shift |-> sh, root |-> ro, tail |-> q]
  <2> HIDE DEF ro, sh, k
  <2>12. TreeOf(ro, sh, c) /\ k = Len(c) + Len(q)
    BY <2>3, <2>10, Zenon DEF ro, sh, k
  <2>13. Vec(z, c) /\ z.tail = q
    BY <2>10, <2>12, VecOf, Zenon
  <2>11. y = z
    BY Zenon DEF q, ro, sh, k
  <2>8. Vec(y, c) /\ y.tail = <<e>>
    BY <2>11, <2>13, Zenon DEF q
  <2> HIDE DEF y
  <2>9. Loaded(y, c \o <<e>>)
    BY <2>4, <2>8, Zenon DEF Loaded
  <2> QED
    BY <2>1, <2>9, Zenon DEF c, b
<1> QED
  BY <1>5, <1>6

\* The buffer or chunk becomes a leaf of a vector without a tail.
LEMMA Promote ==
    ASSUME NEW x, NEW a, Vec(x, a), x.tail = <<>>, NEW leaf \in Seq(Int), Len(leaf) = BF
    PROVE  LET p == promote_full_tail(x, leaf)
           IN Vec(p, a \o leaf) /\ p.tail = <<>> /\ p.shift \in Shifts /\ p \in Vectors(p.shift)
<1> DEFINE t == with_leaf(x, leaf)
           p == [len |-> x.len + BF, shift |-> t[2], root |-> t[1], tail |-> <<>>]
           c == a \o leaf
<1>1. promote_full_tail(x, leaf) = p
  BY Zenon DEF promote_full_tail, vector
<1>2. a \in Seq(Int) /\ Len(a) \in Nat /\ x.len = Len(a) + Len(x.tail)
  BY VecFacts, Zenon
<1>3. TreeOf(x.root, x.shift, a)
  BY Zenon DEF Vec
<1>4. BF \in 1 .. BF /\ BF \in Nat
  BY BType
<1>5. Len(leaf) \in 1 .. BF
  BY <1>4, Zenon
<1>6. TreeOf(t[1], t[2], c)
  BY <1>3, <1>5, WithLeaf, Zenon
<1>7. Len(c) = Len(a) + BF
  BY <1>2
<1>8. <<>> \in Seq(Int) /\ Len(<<>>) = 0
  OBVIOUS
<1>9. Len(<<>>) <= BF /\ x.len + BF = Len(c) + Len(<<>>)
  <2> DEFINE n == Len(a)
             m == Len(c)
             k == x.len
  <2>1. n \in Nat /\ k = n + 0 /\ m = n + BF
    BY <1>2, <1>7, <1>8, Zenon
  <2> HIDE DEF n, m, k
  <2>2. 0 <= BF /\ k + BF = m + 0
    BY <1>4, <2>1
  <2> QED
    BY <1>8, <2>2, Zenon DEF m, k
<1> HIDE DEF t, c
<1> DEFINE q == <<>>
<1>12. q \in Seq(Int) /\ Len(q) <= BF /\ x.len + BF = Len(c) + Len(q)
  BY <1>8, <1>9, Zenon
<1> HIDE DEF q
<1> DEFINE ro == t[1]
           sh == t[2]
           k == x.len + BF
           z == [len |-> k, shift |-> sh, root |-> ro, tail |-> q]
<1> HIDE DEF ro, sh, k
<1>13. TreeOf(ro, sh, c) /\ k = Len(c) + Len(q)
  BY <1>6, <1>12, Zenon DEF ro, sh, k
<1>14. Vec(z, c) /\ z.tail = q
  BY <1>12, <1>13, VecOf, Zenon
<1>15. p = z
  BY Zenon DEF q, ro, sh, k
<1>10. Vec(p, c) /\ p.tail = <<>>
  BY <1>14, <1>15, Zenon DEF q
<1> HIDE DEF p
<1>11. p.shift \in Shifts /\ p \in Vectors(p.shift)
  BY <1>10, VecFacts, Zenon
<1> QED
  BY <1>1, <1>10, <1>11, Zenon DEF c

ChunkBody(g, a) ==
  [s \in Shifts |->
     [x \in Vectors(s) |->
        LET p == promote_full_tail(x, SubSeq(a, 1, BF))
        IN IF BF >= Len(a) THEN [x EXCEPT !.len = @ + Len(a), !.tail = a]
           ELSE g[SubSeq(a, BF + 1, Len(a))][p.shift][p]]]
Chunking == INSTANCE RecursiveFunctions WITH D <- Seq(Int), Rank <- LenRank, Body <- ChunkBody

\* What lies behind the first n elements, a shorter sequence.
LEMMA RestRank ==
    ASSUME NEW a \in Seq(Int), NEW n \in Nat, 0 < n, n <= Len(a)
    PROVE  /\ SubSeq(a, n + 1, Len(a)) \in Seq(Int)
           /\ LenRank(SubSeq(a, n + 1, Len(a))) < LenRank(a)
<1>1. SubSeq(a, n + 1, Len(a)) \in Seq(Int) /\ Len(SubSeq(a, n + 1, Len(a))) = Len(a) - n
  BY SplitAt, Zenon
<1>2. Len(a) \in Nat
  OBVIOUS
<1>3. Len(a) - n < Len(a)
  BY <1>2
<1> QED
  BY <1>1, <1>3, Zenon DEF LenRank

LEMMA ChunkIs == \A a \in Seq(Int) : from_chunks[a] = ChunkBody(from_chunks, a)
<1>1. from_chunks = CHOOSE g : g = [a \in Seq(Int) |-> ChunkBody(g, a)]
  BY Zenon DEF from_chunks, ChunkBody
<1>2. Chunking!Ranked
  BY DEF Chunking!Ranked, LenRank
<1>3. Chunking!Local
  <2> SUFFICES ASSUME NEW g, NEW h, NEW a \in Seq(Int),
                      \A t \in Seq(Int) : LenRank(t) < LenRank(a) => g[t] = h[t]
               PROVE  ChunkBody(g, a) = ChunkBody(h, a)
    BY Zenon DEF Chunking!Local
  <2>1. CASE BF >= Len(a)
    BY <2>1, Zenon DEF ChunkBody
  <2>2. CASE ~(BF >= Len(a))
    <3>1. BF \in Nat /\ 0 < BF /\ BF <= Len(a)
      BY <2>2, BType
    <3>2. /\ SubSeq(a, BF + 1, Len(a)) \in Seq(Int)
          /\ LenRank(SubSeq(a, BF + 1, Len(a))) < LenRank(a)
      BY <3>1, RestRank, Zenon
    <3>3. g[SubSeq(a, BF + 1, Len(a))] = h[SubSeq(a, BF + 1, Len(a))]
      BY <3>2, Zenon
    <3> QED
      BY <3>3, Zenon DEF ChunkBody
  <2> QED
    BY <2>1, <2>2
<1> QED
  BY <1>1, <1>2, <1>3, Chunking!RecursiveFunction, Zenon

\* Loading a behind what a vector without a tail holds.
Loads(a) == \A x, b : Vec(x, b) /\ x.tail = <<>> => Loaded(from_chunks[a][x.shift][x], b \o a)

LEMMA ChunkStep ==
    ASSUME NEW a \in Seq(Int), a # <<>>, \A c \in Seq(Int) : c # <<>> /\ Len(c) < Len(a) => Loads(c)
    PROVE  Loads(a)
<1> SUFFICES ASSUME NEW x, NEW b, Vec(x, b), x.tail = <<>>
             PROVE  Loaded(from_chunks[a][x.shift][x], b \o a)
  BY Zenon DEF Loads
<1> DEFINE first == SubSeq(a, 1, BF)
           rest == SubSeq(a, BF + 1, Len(a))
           p == promote_full_tail(x, first)
<1>1. x.shift \in Shifts /\ x \in Vectors(x.shift) /\ b \in Seq(Int) /\ Len(b) \in Nat
  BY VecFacts, Zenon
<1>2. /\ x.len = Len(b) + Len(x.tail) /\ x.len \in Nat
      /\ x = [len |-> x.len, shift |-> x.shift, root |-> x.root, tail |-> x.tail]
  BY VecFacts, Zenon
<1>3. from_chunks[a][x.shift][x] = IF BF >= Len(a) THEN [x EXCEPT !.len = @ + Len(a), !.tail = a]
                                   ELSE from_chunks[rest][p.shift][p]
  <2>1. from_chunks[a] = ChunkBody(from_chunks, a)
    BY ChunkIs, Zenon
  <2>2. ChunkBody(from_chunks, a)[x.shift][x] =
          IF BF >= Len(a) THEN [x EXCEPT !.len = @ + Len(a), !.tail = a] ELSE from_chunks[rest][p.shift][p]
    BY <1>1, Zenon DEF ChunkBody
  <2> QED
    BY <2>1, <2>2, Zenon
<1>4. Len(a) \in Nat /\ BF \in Nat /\ BF >= 2
  BY BType
<1>5. CASE BF >= Len(a)
  <2> DEFINE le == x.len + Len(a)
             sh == x.shift
             ro == x.root
             y == [len |-> le, shift |-> sh, root |-> ro, tail |-> a]
  <2>1. from_chunks[a][x.shift][x] = y
    BY <1>2, <1>3, <1>5, WithTail, Zenon
  <2>2. TreeOf(ro, sh, b)
    BY Zenon DEF Vec
  <2>3. Len(a) <= BF
    BY <1>4, <1>5
  <2>4. le = Len(b) + Len(a)
    <3>1. x.len = Len(b) + 0
      BY <1>2
    <3>2. Len(b) + 0 = Len(b)
      BY <1>1
    <3> QED
      BY <3>1, <3>2, Zenon
  <2> HIDE DEF le, sh, ro
  <2>5. Vec(y, b) /\ y.tail = a
    BY <2>2, <2>3, <2>4, VecOf, Zenon
  <2> HIDE DEF y
  <2>6. Loaded(y, b \o a)
    BY <2>5, Zenon DEF Loaded
  <2> QED
    BY <2>1, <2>6, Zenon
<1>6. CASE ~(BF >= Len(a))
  <2>1. BF <= Len(a) /\ BF < Len(a) /\ 0 < BF
    BY <1>4, <1>6
  <2>2. /\ first \in Seq(Int) /\ Len(first) = BF /\ rest \in Seq(Int) /\ Len(rest) = Len(a) - BF
        /\ a = first \o rest
    BY <1>4, <2>1, SplitAt, ZenonT(60)
  <2> HIDE DEF first, rest
  <2>3. Vec(p, b \o first) /\ p.tail = <<>>
    BY <2>2, Promote, Zenon
  <2>4. Len(rest) < Len(a) /\ Len(rest) # 0
    <3> DEFINE n == Len(rest)
               m == Len(a)
    <3>1. n = m - BF /\ BF < m /\ m \in Nat
      BY <1>4, <2>1, <2>2, Zenon
    <3> HIDE DEF n, m
    <3>2. n < m /\ n # 0
      BY <1>4, <2>1, <3>1
    <3> QED
      BY <3>2, Zenon DEF n, m
  <2>5. rest # <<>>
    BY <2>4
  <2>6. Loads(rest)
    BY <2>2, <2>4, <2>5, Zenon
  <2> HIDE DEF p
  <2>7. Loaded(from_chunks[rest][p.shift][p], (b \o first) \o rest)
    BY <2>3, <2>6, Zenon DEF Loads
  <2>8. (b \o first) \o rest = b \o a
    BY <1>1, <2>2, AssocAll, Zenon
  <2> QED
    BY <1>3, <1>6, <2>7, <2>8, Zenon
<1> QED
  BY <1>5, <1>6

LEMMA FromChunks == \A a \in Seq(Int) : a # <<>> => Loads(a)
<1> DEFINE N == {n \in Nat : \A a \in Seq(Int) : a # <<>> /\ Len(a) < n => Loads(a)}
<1>0. \A a \in Seq(Int) : Len(a) \in Nat
  OBVIOUS
<1>1. 0 \in N
  BY <1>0
<1>2. ASSUME NEW n \in Nat, n \in N PROVE n + 1 \in N
  <2> SUFFICES ASSUME NEW a \in Seq(Int), a # <<>>, Len(a) < n + 1 PROVE Loads(a)
    OBVIOUS
  <2>1. \A c \in Seq(Int) : c # <<>> /\ Len(c) < n => Loads(c)
    BY <1>2, Zenon
  <2>2. \A c \in Seq(Int) : Len(c) < Len(a) => Len(c) < n
    BY <1>0
  <2>3. \A c \in Seq(Int) : c # <<>> /\ Len(c) < Len(a) => Loads(c)
    BY <2>1, <2>2, Zenon
  <2> QED
    BY <2>3, ChunkStep, Zenon
<1> HIDE DEF N
<1>3. \A n \in Nat : n \in N
  BY <1>1, <1>2, OnNat!NatInduct
<1>4. ASSUME NEW a \in Seq(Int), a # <<>> PROVE Loads(a)
  <2>1. Len(a) + 1 \in Nat /\ Len(a) < Len(a) + 1
    BY <1>0
  <2>2. Len(a) + 1 \in N
    BY <1>3, <2>1, Zenon
  <2> QED
    BY <1>4, <2>1, <2>2, Zenon DEF N
<1> QED
  BY <1>4, Zenon

LEMMA FromArray ==
    ASSUME NEW a \in Seq(Int)
    PROVE  /\ a = <<>> => from_array(a) = EmptyVec
           /\ a # <<>> => Loaded(from_array(a), a)
<1>1. CASE a = <<>>
  BY <1>1, Zenon DEF from_array
<1>2. CASE a # <<>>
  <2>0. Vec(EmptyVec, <<>>) /\ EmptyVec.tail = <<>> /\ EmptyVec.shift = 0 /\ EmptyVec.root = Null
    BY EmptyIs, Zenon
  <2>8. EmptyVec = [len |-> EmptyVec.len, shift |-> EmptyVec.shift, root |-> EmptyVec.root, tail |-> EmptyVec.tail]
    BY <2>0, VecFacts, Zenon
  <2>9. <<>> \o a = a
    BY EmptyLeft, Zenon
  <2>1. CASE Len(a) <= BF
    <3> DEFINE n == Len(a)
               e == <<>>
               y == [len |-> n, shift |-> 0, root |-> Null, tail |-> a]
    <3>1. from_array(a) = [EmptyVec EXCEPT !.len = n, !.tail = a]
      BY <1>2, <2>1, Zenon DEF from_array
    <3>2. from_array(a) = y
      BY <2>0, <2>8, <3>1, WithTail, Zenon
    <3>3. TreeOf(Null, 0, e)
      BY Zenon DEF TreeOf
    <3>4. n = Len(e) + Len(a)
      OBVIOUS
    <3> HIDE DEF e, n
    <3>5. Vec(y, e) /\ y.tail = a
      BY <2>1, <3>3, <3>4, VecOf, Zenon
    <3> HIDE DEF y
    <3>6. Loaded(y, e \o a)
      BY <1>2, <3>5, Zenon DEF Loaded
    <3> QED
      BY <1>2, <2>9, <3>2, <3>6, Zenon DEF e
  <2>2. CASE ~(Len(a) <= BF)
    <3>1. from_array(a) = from_chunks[a][0][EmptyVec]
      BY <1>2, <2>2, Zenon DEF from_array
    <3>2. Loads(a)
      BY <1>2, FromChunks, Zenon
    <3>3. Loaded(from_chunks[a][EmptyVec.shift][EmptyVec], <<>> \o a)
      BY <2>0, <3>2, Zenon DEF Loads
    <3> QED
      BY <1>2, <2>0, <2>9, <3>1, <3>3, Zenon
  <2> QED
    BY <2>1, <2>2
<1> QED
  BY <1>1, <1>2

\* The vector that holds a, with an empty tail only when a is empty.
VecIs(x, a) == IF a = <<>> THEN x = EmptyVec ELSE Loaded(x, a)

LEMMA VecIsVec ==
    ASSUME NEW x, NEW a, VecIs(x, a)
    PROVE  \E d : Vec(x, d) /\ a = d \o x.tail /\ (x.tail = <<>> => a = <<>>)
<1>1. CASE a = <<>>
  <2>1. x = EmptyVec
    BY <1>1, Zenon DEF VecIs
  <2>2. Vec(EmptyVec, <<>>) /\ EmptyVec.tail = <<>>
    BY EmptyIs, Zenon
  <2>3. <<>> \o <<>> = <<>>
    OBVIOUS
  <2> QED
    BY <1>1, <2>1, <2>2, <2>3, Zenon
<1>2. CASE a # <<>>
  BY <1>2, Zenon DEF VecIs, Loaded
<1> QED
  BY <1>1, <1>2

LEMMA VecIsFacts ==
    ASSUME NEW x, NEW a, VecIs(x, a)
    PROVE  a \in Seq(Int) /\ x.len = Len(a) /\ to_array(x) = a /\ Len(a) \in Nat
<1>1. PICK d : Vec(x, d) /\ a = d \o x.tail
  BY VecIsVec, Zenon
<1>2. a \in Seq(Int) /\ x.len = Len(a) /\ to_array(x) = a
  BY <1>1, VecFacts, Zenon
<1> QED
  BY <1>2

LEMMA EmptyNotNonempty ==
    ASSUME NEW a \in Seq(Int), NEW b \in Seq(Int)
    PROVE  (b # <<>> => a \o b # <<>>) /\ (a # <<>> => a \o b # <<>>) /\ a \o b \in Seq(Int)
<1>1. a \o b \in Seq(Int) /\ Len(a \o b) = Len(a) + Len(b) /\ Len(a) \in Nat /\ Len(b) \in Nat
  OBVIOUS
<1>2. b # <<>> => Len(b) # 0
  BY EmptySeq
<1>3. a # <<>> => Len(a) # 0
  BY EmptySeq
<1>4. Len(<<>>) = 0
  OBVIOUS
<1>5. a \o b = <<>> => Len(a) + Len(b) = 0
  BY <1>1, <1>4, Zenon
<1>6. Len(a) + Len(b) = 0 => Len(a) = 0 /\ Len(b) = 0
  BY <1>1
<1> QED
  BY <1>1, <1>2, <1>3, <1>5, <1>6, Zenon

LEMMA PushIs ==
    ASSUME NEW x, NEW a, VecIs(x, a), NEW e \in Int
    PROVE  VecIs(push(x, e), a \o <<e>>)
<1>1. PICK d : Vec(x, d) /\ a = d \o x.tail
  BY VecIsVec, Zenon
<1>2. Loaded(push(x, e), a \o <<e>>)
  BY <1>1, PushLoads, Zenon
<1>3. a \in Seq(Int)
  BY VecIsFacts, Zenon
<1>4. a \o <<e>> # <<>>
  BY <1>3, FrontOfConcat, Zenon
<1> QED
  BY <1>2, <1>4, Zenon DEF VecIs

LEMMA FromArrayIs ==
    ASSUME NEW a \in Seq(Int)
    PROVE  VecIs(from_array(a), a)
BY FromArray, Zenon DEF VecIs

-----------------------------------------------------------------------------
(***************************************************************************)
(* The builder.  Partial: b holds a; Builder: its buffer is empty only     *)
(* when nothing was put into it.                                           *)
(***************************************************************************)
Partial(b, a) ==
  /\ b = [vec |-> b.vec, buf |-> b.buf]
  /\ b.vec.tail = <<>>
  /\ b.buf \in Seq(Int) /\ Len(b.buf) <= BF
  /\ \E d : Vec(b.vec, d) /\ a = d \o b.buf

Builder(b, a) == Partial(b, a) /\ (b.buf = <<>> => a = <<>>)

LEMMA PartialFacts ==
    ASSUME NEW b, NEW a, Partial(b, a)
    PROVE  /\ b \in Builders(b.vec.shift) /\ b.vec.shift \in Shifts
           /\ a \in Seq(Int) /\ b.buf \in Seq(Int) /\ Len(b.buf) \in Nat /\ Len(b.buf) <= BF
           /\ b = [vec |-> b.vec, buf |-> b.buf]
<1>1. b = [vec |-> b.vec, buf |-> b.buf] /\ b.buf \in Seq(Int) /\ Len(b.buf) <= BF
  BY Zenon DEF Partial
<1>2. PICK d : Vec(b.vec, d) /\ a = d \o b.buf
  BY Zenon DEF Partial
<1>3. d \in Seq(Int) /\ b.vec.shift \in Shifts /\ b.vec \in Vectors(b.vec.shift)
  BY <1>2, VecFacts, Zenon
<1>4. a \in Seq(Int)
  BY <1>1, <1>2, <1>3, EmptyNotNonempty, Zenon
<1>5. b \in Builders(b.vec.shift)
  <2> DEFINE V == Vectors(b.vec.shift)
             L == {u \in Seq(Int) : Len(u) <= BF}
             ve == b.vec
             bu == b.buf
  <2>1. ve \in V /\ bu \in L
    BY <1>1, <1>3, Zenon
  <2> HIDE DEF V, L, ve, bu
  <2>2. [vec |-> ve, buf |-> bu] \in [vec : V, buf : L]
    BY <2>1
  <2> QED
    BY <1>1, <2>2, Zenon DEF V, L, ve, bu, Builders
<1>6. Len(b.buf) \in Nat
  BY <1>1
<1> QED
  BY <1>1, <1>3, <1>4, <1>5, <1>6, Zenon

LEMMA PartialOf ==
    ASSUME NEW x, NEW d, Vec(x, d), x.tail = <<>>, NEW u \in Seq(Int), Len(u) <= BF
    PROVE  LET b == [vec |-> x, buf |-> u] IN Partial(b, d \o u) /\ b.vec = x /\ b.buf = u
<1> DEFINE b == [vec |-> x, buf |-> u]
<1>1. b.vec = x /\ b.buf = u /\ b = [vec |-> x, buf |-> u]
  OBVIOUS
<1> HIDE DEF b
<1>2. Partial(b, d \o u)
  BY <1>1, Zenon DEF Partial
<1> QED
  BY <1>1, <1>2, Zenon DEF b

LEMMA BuilderNew == Builder(builder_new, <<>>)
<1> DEFINE e == <<>>
           b == [vec |-> EmptyVec, buf |-> e]
<1>1. e \in Seq(Int) /\ Len(e) <= BF /\ e \o e = e
  BY BType
<1>2. Vec(EmptyVec, e) /\ EmptyVec.tail = <<>>
  BY EmptyIs, Zenon
<1>5. b = builder_new
  BY Zenon DEF builder_new
<1> HIDE DEF e
<1>3. Partial(b, e \o e)
  BY <1>1, <1>2, PartialOf, Zenon
<1> HIDE DEF b
<1>4. Builder(b, e)
  BY <1>1, <1>3, Zenon DEF Builder, e
<1> QED
  BY <1>4, <1>5, Zenon DEF e

LEMMA BuilderFrom ==
    ASSUME NEW x, NEW a, VecIs(x, a)
    PROVE  Builder(builder_from(x), a)
<1>1. PICK d : Vec(x, d) /\ a = d \o x.tail /\ (x.tail = <<>> => a = <<>>)
  BY VecIsVec, Zenon
<1> DEFINE le == tailoff(x)
           sh == x.shift
           ro == x.root
           ta == x.tail
           e == <<>>
           y == [len |-> le, shift |-> sh, root |-> ro, tail |-> e]
           b == [vec |-> y, buf |-> ta]
<1>2. /\ x = [len |-> x.len, shift |-> x.shift, root |-> x.root, tail |-> x.tail]
      /\ le = Len(d) /\ d \in Seq(Int) /\ Len(d) \in Nat
  BY <1>1, VecFacts, Zenon
<1>3. ta \in Seq(Int) /\ Len(ta) <= BF
  BY <1>1, VecFacts, Zenon
<1>4. builder_from(x) = b
  BY <1>2, WithTail, Zenon DEF builder_from
<1>5. TreeOf(ro, sh, d)
  BY <1>1, Zenon DEF Vec
<1>6. e \in Seq(Int) /\ Len(e) <= BF /\ Len(e) = 0
  BY BType
<1>7. Len(d) = Len(d) + 0
  BY <1>2
<1> HIDE DEF le, sh, ro, ta, e
<1>8. le = Len(d) + Len(e)
  BY <1>2, <1>6, <1>7, Zenon
<1>9. Vec(y, d) /\ y.tail = e
  BY <1>5, <1>6, <1>8, VecOf, Zenon
<1> HIDE DEF y
<1>10. Partial(b, d \o ta) /\ b.buf = ta
  BY <1>3, <1>9, PartialOf, Zenon DEF e
<1> HIDE DEF b
<1>11. Partial(b, a) /\ (b.buf = <<>> => a = <<>>)
  BY <1>1, <1>10, Zenon DEF ta
<1> QED
  BY <1>4, <1>11, Zenon DEF Builder

\* A full buffer becomes a leaf.
LEMMA WithRoom ==
    ASSUME NEW b, NEW a, Partial(b, a)
    PROVE  Partial(with_room(b), a) /\ Len(with_room(b).buf) < BF
<1>1. /\ a \in Seq(Int) /\ b.buf \in Seq(Int) /\ Len(b.buf) \in Nat /\ Len(b.buf) <= BF
  BY PartialFacts, Zenon
<1>2. CASE Len(b.buf) = BF
  <2>1. PICK d : Vec(b.vec, d) /\ a = d \o b.buf /\ b.vec.tail = <<>>
    BY Zenon DEF Partial
  <2> DEFINE p == promote_full_tail(b.vec, b.buf)
             e == <<>>
             c == [vec |-> p, buf |-> e]
  <2>2. Vec(p, a) /\ p.tail = <<>>
    BY <1>1, <1>2, <2>1, Promote, Zenon
  <2>3. with_room(b) = c
    BY <1>2, Zenon DEF with_room
  <2>4. e \in Seq(Int) /\ Len(e) <= BF /\ Len(e) < BF
    BY BType
  <2>5. a \o e = a
    BY <1>1, EmptyLeft, Zenon
  <2> HIDE DEF p, e
  <2>6. Partial(c, a \o e) /\ c.buf = e
    BY <2>2, <2>4, PartialOf, Zenon
  <2> HIDE DEF c
  <2> QED
    BY <2>3, <2>4, <2>5, <2>6, Zenon
<1>3. CASE Len(b.buf) # BF
  <2>1. with_room(b) = b
    BY <1>3, Zenon DEF with_room
  <2> DEFINE n == Len(b.buf)
  <2>2. n \in Nat /\ n <= BF /\ n # BF
    BY <1>1, <1>3, Zenon
  <2> HIDE DEF n
  <2>3. n < BF
    BY <2>2, BType
  <2> QED
    BY <2>1, <2>3, Zenon DEF n
<1> QED
  BY <1>2, <1>3

\* More in the buffer.
LEMMA Buffered ==
    ASSUME NEW b, NEW a, Partial(b, a), NEW u \in Seq(Int), Len(b.buf) + Len(u) <= BF, u # <<>>
    PROVE  LET c == [b EXCEPT !.buf = @ \o u] IN Builder(c, a \o u)
<1>1. PICK d : Vec(b.vec, d) /\ a = d \o b.buf /\ b.vec.tail = <<>>
  BY Zenon DEF Partial
<1>2. b = [vec |-> b.vec, buf |-> b.buf] /\ b.buf \in Seq(Int)
  BY PartialFacts, Zenon
<1> DEFINE ve == b.vec
           bu == b.buf
           t == bu \o u
           c == [vec |-> ve, buf |-> t]
<1>3. [b EXCEPT !.buf = t] = c
  <2> HIDE DEF t, ve, bu
  <2>1. b = [vec |-> ve, buf |-> bu]
    BY <1>2, Zenon DEF ve, bu
  <2> QED
    BY <2>1
<1>4. d \in Seq(Int)
  BY <1>1, VecFacts, Zenon
<1>5. t \in Seq(Int) /\ t # <<>>
  BY <1>2, EmptyNotNonempty, Zenon
<1>6. Len(t) <= BF
  <2> HIDE DEF bu
  <2>1. bu \in Seq(Int) /\ Len(bu) + Len(u) <= BF
    BY <1>2, Zenon DEF bu
  <2>2. Len(bu \o u) = Len(bu) + Len(u)
    BY <2>1
  <2> QED
    BY <2>1, <2>2, Zenon
<1>7. d \o t = a \o u
  BY <1>1, <1>2, <1>4, AssocAll, Zenon
<1> HIDE DEF t
<1>8. Partial(c, d \o t) /\ c.buf = t
  BY <1>1, <1>5, <1>6, PartialOf, Zenon
<1> HIDE DEF c
<1>9. Builder(c, a \o u)
  BY <1>5, <1>7, <1>8, Zenon DEF Builder
<1> QED
  BY <1>3, <1>9, Zenon DEF t, bu

LEMMA BuilderPush ==
    ASSUME NEW b, NEW a, Builder(b, a), NEW e \in Int
    PROVE  Builder(builder_push(b, e), a \o <<e>>)
<1>0. Partial(b, a)
  BY Zenon DEF Builder
<1>1. a \in Seq(Int) /\ b.buf \in Seq(Int) /\ Len(b.buf) \in Nat /\ Len(b.buf) <= BF
  BY <1>0, PartialFacts, Zenon
<1>2. <<e>> \in Seq(Int) /\ <<e>> # <<>> /\ Len(<<e>>) = 1
  OBVIOUS
<1>3. CASE Len(b.buf) < BF
  <2>1. Append(b.buf, e) = b.buf \o <<e>>
    BY <1>1, AppendIsConcat
  <2>2. builder_push(b, e) = [b EXCEPT !.buf = b.buf \o <<e>>]
    BY <1>3, <2>1, Zenon DEF builder_push
  <2>3. Len(b.buf) + Len(<<e>>) <= BF
    <3> DEFINE n == Len(b.buf)
    <3>1. n \in Nat /\ n < BF
      BY <1>1, <1>3, Zenon
    <3> HIDE DEF n
    <3>2. n + 1 <= BF
      BY <3>1, BType
    <3> QED
      BY <1>2, <3>2, Zenon DEF n
  <2> DEFINE u == <<e>>
  <2>4. u \in Seq(Int) /\ u # <<>> /\ Len(b.buf) + Len(u) <= BF
    BY <1>2, <2>3, Zenon
  <2> HIDE DEF u
  <2>5. Builder([b EXCEPT !.buf = b.buf \o u], a \o u)
    BY <1>0, <2>4, Buffered, Zenon
  <2> QED
    BY <2>2, <2>5, Zenon DEF u
<1>4. CASE ~(Len(b.buf) < BF)
  <2>1. Len(b.buf) = BF
    <3> DEFINE n == Len(b.buf)
    <3>1. n \in Nat /\ ~(n < BF) /\ n <= BF
      BY <1>1, <1>4, Zenon
    <3> HIDE DEF n
    <3>2. n = BF
      BY <3>1, BType
    <3> QED
      BY <3>2, Zenon DEF n
  <2>2. PICK d : Vec(b.vec, d) /\ a = d \o b.buf /\ b.vec.tail = <<>>
    BY <1>0, Zenon DEF Partial
  <2> DEFINE p == promote_full_tail(b.vec, b.buf)
             u == <<e>>
             c == [vec |-> p, buf |-> u]
  <2>3. Vec(p, a) /\ p.tail = <<>>
    BY <1>1, <2>1, <2>2, Promote, Zenon
  <2>4. builder_push(b, e) = c
    BY <1>4, Zenon DEF builder_push
  <2>6. 1 <= BF
    BY BType
  <2>5. u \in Seq(Int) /\ Len(u) <= BF /\ u # <<>>
    BY <1>2, <2>6, Zenon
  <2> HIDE DEF p, u
  <2>7. Partial(c, a \o u) /\ c.buf = u
    BY <2>3, <2>5, PartialOf, Zenon
  <2> HIDE DEF c
  <2>8. Builder(c, a \o u)
    BY <2>5, <2>7, Zenon DEF Builder
  <2> QED
    BY <2>4, <2>8, Zenon DEF u
<1> QED
  BY <1>3, <1>4

LEMMA BuilderFreeze ==
    ASSUME NEW b, NEW a, Builder(b, a)
    PROVE  VecIs(builder_freeze(b), a)
<1>0. Partial(b, a) /\ (b.buf = <<>> => a = <<>>)
  BY Zenon DEF Builder
<1>1. a \in Seq(Int) /\ b.buf \in Seq(Int) /\ Len(b.buf) \in Nat /\ Len(b.buf) <= BF
  BY <1>0, PartialFacts, Zenon
<1>2. PICK d : Vec(b.vec, d) /\ a = d \o b.buf /\ b.vec.tail = <<>>
  BY <1>0, Zenon DEF Partial
<1> DEFINE x == b.vec
<1>3. d \in Seq(Int) /\ Len(d) \in Nat /\ x.len = Len(d) + Len(x.tail)
  BY <1>2, VecFacts, Zenon
<1>4. x = [len |-> x.len, shift |-> x.shift, root |-> x.root, tail |-> x.tail]
  BY <1>2, VecFacts, Zenon
<1>9. TreeOf(x.root, x.shift, d)
  BY <1>2, Zenon DEF Vec
<1>10. Len(<<>>) = 0 /\ Len(d) + 0 = Len(d)
  BY <1>3
<1>11. x.len = Len(d)
  BY <1>2, <1>3, <1>10, Zenon
<1>5. CASE b.buf = <<>>
  <2>1. a = <<>> /\ builder_freeze(b) = x
    BY <1>0, <1>5, Zenon DEF builder_freeze
  <2>2. d \o <<>> = d
    BY <1>3, EmptyLeft, Zenon
  <2>3. d = <<>>
    BY <1>2, <1>5, <2>1, <2>2, Zenon
  <2>4. x.root = Null
    BY <1>9, <2>3, TreeFacts, Zenon
  <2>5. x.shift = 0
    BY <1>9, <2>4, Zenon DEF TreeOf
  <2>6. x.len = 0
    BY <1>10, <1>11, <2>3, Zenon
  <2>7. x = EmptyVec
    BY <1>2, <1>4, <2>4, <2>5, <2>6, Zenon DEF EmptyVec
  <2> QED
    BY <2>1, <2>7, Zenon DEF VecIs
<1>6. CASE b.buf # <<>>
  <2> DEFINE u == b.buf
             le == x.len + Len(u)
             sh == x.shift
             ro == x.root
             y == [len |-> le, shift |-> sh, root |-> ro, tail |-> u]
  <2>1. builder_freeze(b) = y
    BY <1>4, <1>6, WithTail, Zenon DEF builder_freeze
  <2>2. TreeOf(ro, sh, d) /\ u \in Seq(Int) /\ Len(u) <= BF /\ le = Len(d) + Len(u)
    BY <1>1, <1>9, <1>11, Zenon
  <2> HIDE DEF sh, ro, le, u
  <2>3. Vec(y, d) /\ y.tail = u
    BY <2>2, VecOf, Zenon
  <2> HIDE DEF y
  <2>4. Loaded(y, a)
    BY <1>2, <1>6, <2>3, Zenon DEF Loaded, u
  <2>5. a # <<>>
    BY <1>1, <1>2, <1>3, <1>6, EmptyNotNonempty, Zenon
  <2> QED
    BY <2>1, <2>4, <2>5, Zenon DEF VecIs
<1> QED
  BY <1>5, <1>6

\* How much of part goes into the buffer of b.
Fit(part, b) == IF Len(part) < BF - Len(with_room(b).buf) THEN Len(part) ELSE BF - Len(with_room(b).buf)
Rest(part, b) == SubSeq(part, Fit(part, b) + 1, Len(part))
Taken(part, b) == [with_room(b) EXCEPT !.buf = @ \o SubSeq(part, 1, Fit(part, b))]

RangeBody(g, part) ==
  [s \in Shifts |->
     [b \in Builders(s) |->
        IF part = <<>> THEN b ELSE g[Rest(part, b)][Taken(part, b).vec.shift][Taken(part, b)]]]
Ranging == INSTANCE RecursiveFunctions WITH D <- Seq(Int), Rank <- LenRank, Body <- RangeBody

LEMMA LeastOf ==
    ASSUME NEW n \in Nat, n # 0, NEW k \in Nat, k < BF, NEW f, f = IF n < BF - k THEN n ELSE BF - k
    PROVE  f \in Nat /\ 0 < f /\ f <= n /\ k + f <= BF
BY BType

LEMMA FitOf ==
    ASSUME NEW part \in Seq(Int), part # <<>>, NEW b, NEW k \in Nat, k < BF, k = Len(with_room(b).buf)
    PROVE  Fit(part, b) \in Nat /\ 0 < Fit(part, b) /\ Fit(part, b) <= Len(part) /\ k + Fit(part, b) <= BF
<1> DEFINE n == Len(part)
<1>1. n \in Nat /\ n # 0
  BY EmptySeq
<1>2. Fit(part, b) = IF n < BF - k THEN n ELSE BF - k
  BY Zenon DEF Fit
<1> DEFINE f == Fit(part, b)
<1> HIDE DEF n, f
<1>3. f = IF n < BF - k THEN n ELSE BF - k
  BY <1>2, Zenon DEF f
<1>4. f \in Nat /\ 0 < f /\ f <= n /\ k + f <= BF
  BY <1>1, <1>3, LeastOf, Zenon
<1> QED
  BY <1>4, Zenon DEF n, f

LEMMA FitType ==
    ASSUME NEW part \in Seq(Int), part # <<>>, NEW s, NEW b \in Builders(s)
    PROVE  Fit(part, b) \in Nat /\ 0 < Fit(part, b) /\ Fit(part, b) <= Len(part)
<1> DEFINE L == {u \in Seq(Int) : Len(u) <= BF}
           VV == Vectors(s)
           bu == b.buf
<1>1. bu \in L
  <2>1. b \in [vec : VV, buf : L]
    BY Zenon DEF Builders
  <2> HIDE DEF VV, L
  <2> QED
    BY <2>1
<1>2. bu \in Seq(Int) /\ Len(bu) <= BF
  BY <1>1
<1>3. Len(bu) \in Nat
  <2> HIDE DEF bu
  <2> QED
    BY <1>2
<1> DEFINE k == Len(with_room(b).buf)
<1>4. k \in Nat /\ k < BF
  <2>1. CASE Len(bu) = BF
    <3> DEFINE p == promote_full_tail(b.vec, b.buf)
    <3>1. with_room(b) = [vec |-> p, buf |-> <<>>]
      BY <2>1, Zenon DEF with_room
    <3> HIDE DEF p
    <3>2. [vec |-> p, buf |-> <<>>].buf = <<>> /\ Len(<<>>) = 0
      OBVIOUS
    <3>3. k = 0
      BY <3>1, <3>2, Zenon
    <3> HIDE DEF k
    <3> QED
      BY <3>3, BType
  <2>2. CASE Len(bu) # BF
    <3>1. with_room(b) = b
      BY <2>2, Zenon DEF with_room
    <3> DEFINE n == Len(bu)
    <3>2. n \in Nat /\ n <= BF /\ n # BF /\ k = n
      BY <1>2, <1>3, <2>2, <3>1, Zenon
    <3> HIDE DEF n, k
    <3> QED
      BY <3>2, BType
  <2> QED
    BY <2>1, <2>2
<1> HIDE DEF k
<1>5. k = Len(with_room(b).buf)
  BY Zenon DEF k
<1> QED
  BY <1>4, <1>5, FitOf, Zenon

LEMMA RangeIs == \A part \in Seq(Int) : builder_append_leaf_range[part] = RangeBody(builder_append_leaf_range, part)
<1>1. builder_append_leaf_range = CHOOSE g : g = [part \in Seq(Int) |-> RangeBody(g, part)]
  BY Zenon DEF builder_append_leaf_range, RangeBody, Fit, Rest, Taken
<1>2. Ranging!Ranked
  BY DEF Ranging!Ranked, LenRank
<1>3. Ranging!Local
  <2> SUFFICES ASSUME NEW g, NEW h, NEW part \in Seq(Int),
                      \A t \in Seq(Int) : LenRank(t) < LenRank(part) => g[t] = h[t]
               PROVE  RangeBody(g, part) = RangeBody(h, part)
    BY Zenon DEF Ranging!Local
  <2>1. CASE part = <<>>
    BY <2>1, Zenon DEF RangeBody
  <2>2. CASE part # <<>>
    <3>1. ASSUME NEW s \in Shifts, NEW b \in Builders(s) PROVE g[Rest(part, b)] = h[Rest(part, b)]
      <4> DEFINE n == Fit(part, b)
      <4>1. n \in Nat /\ 0 < n /\ n <= Len(part)
        BY <2>2, FitType, Zenon
      <4> HIDE DEF n
      <4>2. SubSeq(part, n + 1, Len(part)) \in Seq(Int) /\ LenRank(SubSeq(part, n + 1, Len(part))) < LenRank(part)
        BY <4>1, RestRank, Zenon
      <4> QED
        BY <4>2, Zenon DEF Rest, n
    <3> QED
      BY <3>1, Zenon DEF RangeBody
  <2> QED
    BY <2>1, <2>2
<1> QED
  BY <1>1, <1>2, <1>3, Ranging!RecursiveFunction, Zenon

\* Appending part to what a builder holds.
Appends(part) ==
  \A b, a : Builder(b, a) => Builder(builder_append_leaf_range[part][b.vec.shift][b], a \o part)

LEMMA RangeStep ==
    ASSUME NEW part \in Seq(Int), \A c \in Seq(Int) : Len(c) < Len(part) => Appends(c)
    PROVE  Appends(part)
<1> SUFFICES ASSUME NEW b, NEW a, Builder(b, a)
             PROVE  Builder(builder_append_leaf_range[part][b.vec.shift][b], a \o part)
  BY Zenon DEF Appends
<1> DEFINE d == Taken(part, b)
           rest == Rest(part, b)
<1>1. Partial(b, a)
  BY Zenon DEF Builder
<1>2. b \in Builders(b.vec.shift) /\ b.vec.shift \in Shifts /\ a \in Seq(Int)
  BY <1>1, PartialFacts, Zenon
<1>3. builder_append_leaf_range[part][b.vec.shift][b] =
        IF part = <<>> THEN b ELSE builder_append_leaf_range[rest][d.vec.shift][d]
  <2>1. builder_append_leaf_range[part] = RangeBody(builder_append_leaf_range, part)
    BY RangeIs, Zenon
  <2>2. RangeBody(builder_append_leaf_range, part)[b.vec.shift][b] =
          IF part = <<>> THEN b ELSE builder_append_leaf_range[rest][d.vec.shift][d]
    BY <1>2, Zenon DEF RangeBody
  <2> QED
    BY <2>1, <2>2, Zenon
<1>4. CASE part = <<>>
  <2>1. a \o <<>> = a
    BY <1>2, EmptyLeft, Zenon
  <2> QED
    BY <1>3, <1>4, <2>1, Zenon
<1>5. CASE part # <<>>
  <2> DEFINE n == Fit(part, b)
             c == with_room(b)
             k == Len(c.buf)
             first == SubSeq(part, 1, n)
  <2>1. Partial(c, a) /\ k < BF
    BY <1>1, WithRoom, Zenon
  <2>2. k \in Nat
    BY <2>1, PartialFacts, Zenon
  <2>3. n \in Nat /\ 0 < n /\ n <= Len(part) /\ k + n <= BF
    BY <1>5, <2>1, <2>2, FitOf, Zenon
  <2>4. d = [c EXCEPT !.buf = @ \o first]
    BY Zenon DEF Taken
  <2>5. rest = SubSeq(part, n + 1, Len(part))
    BY Zenon DEF Rest
  <2> HIDE DEF n, d, rest
  <2>6. /\ first \in Seq(Int) /\ Len(first) = n /\ rest \in Seq(Int) /\ Len(rest) = Len(part) - n
        /\ part = first \o rest
    BY <2>3, <2>5, SplitAt, ZenonT(60)
  <2>7. first # <<>> /\ Len(rest) < Len(part)
    <3> HIDE DEF first
    <3>1. Len(first) # 0
      BY <2>3, <2>6
    <3>2. first # <<>>
      BY <3>1
    <3> DEFINE m == Len(part)
               q == Len(rest)
    <3>3. m \in Nat
      OBVIOUS
    <3>4. q = m - n /\ n \in Nat /\ 0 < n
      BY <2>3, <2>6, Zenon
    <3> HIDE DEF m, q
    <3>5. q < m
      BY <3>3, <3>4
    <3> QED
      BY <3>2, <3>5, Zenon DEF m, q
  <2> HIDE DEF first, c
  <2>8. Len(c.buf) + Len(first) <= BF
    BY <2>3, <2>6, Zenon
  <2>9. Builder(d, a \o first)
    BY <2>1, <2>4, <2>6, <2>7, <2>8, Buffered, Zenon
  <2>10. Appends(rest)
    BY <2>6, <2>7, Zenon
  <2>11. Builder(builder_append_leaf_range[rest][d.vec.shift][d], (a \o first) \o rest)
    BY <2>9, <2>10, Zenon DEF Appends
  <2>12. (a \o first) \o rest = a \o part
    BY <1>2, <2>6, AssocAll, Zenon
  <2> QED
    BY <1>3, <1>5, <2>11, <2>12, Zenon
<1> QED
  BY <1>4, <1>5

LEMMA AppendRange == \A part \in Seq(Int) : Appends(part)
<1> DEFINE N == {n \in Nat : \A a \in Seq(Int) : Len(a) < n => Appends(a)}
<1>0. \A a \in Seq(Int) : Len(a) \in Nat
  OBVIOUS
<1>1. 0 \in N
  BY <1>0
<1>2. ASSUME NEW n \in Nat, n \in N PROVE n + 1 \in N
  <2> SUFFICES ASSUME NEW a \in Seq(Int), Len(a) < n + 1 PROVE Appends(a)
    OBVIOUS
  <2>1. \A c \in Seq(Int) : Len(c) < n => Appends(c)
    BY <1>2, Zenon
  <2>2. \A c \in Seq(Int) : Len(c) < Len(a) => Len(c) < n
    BY <1>0
  <2>3. \A c \in Seq(Int) : Len(c) < Len(a) => Appends(c)
    BY <2>1, <2>2, Zenon
  <2> QED
    BY <2>3, RangeStep, Zenon
<1> HIDE DEF N
<1>3. \A n \in Nat : n \in N
  BY <1>1, <1>2, OnNat!NatInduct
<1>4. ASSUME NEW a \in Seq(Int) PROVE Appends(a)
  <2>1. Len(a) + 1 \in Nat /\ Len(a) < Len(a) + 1
    BY <1>0
  <2>2. Len(a) + 1 \in N
    BY <1>3, <2>1, Zenon
  <2> QED
    BY <2>1, <2>2, Zenon DEF N
<1> QED
  BY <1>4, Zenon

ExtendRank(q) == q[1] * (BF + 1) + q[2]

\* p is what appends the children before, r what appends one child.
ExtendWith(q, p, r) ==
  [n \in Nodes[q[1]] |->
     [t \in Shifts |->
        [b \in Builders(t) |->
           LET before == p[n][t][b]
               c == n.children[q[2]]
           IN IF q[2] = 0 THEN b
              ELSE IF q[2] > child_count(n) THEN before
              ELSE IF q[1] = B THEN builder_append_leaf_range[c][before.vec.shift][before]
              ELSE r[c][before.vec.shift][before]]]]
ExtendBody(g, q) == ExtendWith(q, g[<<q[1], q[2] - 1>>], g[<<q[1] - B, BF>>])
Extending == INSTANCE RecursiveFunctions WITH D <- Inner \X (0 .. BF), Rank <- ExtendRank, Body <- ExtendBody

LEMMA RankBelow ==
    ASSUME NEW s \in Nat, NEW k \in Nat, NEW f \in Nat, NEW b \in Nat, b > 0, b <= s
    PROVE  (s - b) * (f + 1) + f < s * (f + 1) + k
<1> DEFINE u == s - b
           e == f + 1
<1>1. u \in Nat /\ s = u + b /\ e \in Nat /\ f < e
  OBVIOUS
<1> HIDE DEF u, e
<1>2. (u + b) * e = u * e + b * e /\ u * e \in Nat
  BY <1>1
<1>3. 1 * e <= b * e /\ b * e \in Nat
  <2>1. 1 \in Nat /\ 1 <= b
    OBVIOUS
  <2> QED
    BY <1>1, <2>1, ProductMonotone
<1>4. u * e + f < (u * e + b * e) + k
  BY <1>1, <1>2, <1>3
<1>5. u * e + f < s * e + k
  BY <1>1, <1>2, <1>4, Zenon
<1> QED
  BY <1>5, Zenon DEF u, e

LEMMA ExtendBelow ==
    ASSUME NEW q \in Inner \X (0 .. BF)
    PROVE  /\ q[1] \in Inner /\ q[2] \in 0 .. BF
           /\ q[2] # 0 => <<q[1], q[2] - 1>> \in Inner \X (0 .. BF) /\ ExtendRank(<<q[1], q[2] - 1>>) < ExtendRank(q)
           /\ q[1] # B => <<q[1] - B, BF>> \in Inner \X (0 .. BF) /\ ExtendRank(<<q[1] - B, BF>>) < ExtendRank(q)
<1> DEFINE s == q[1]
           k == q[2]
<1>1. s \in Inner /\ k \in 0 .. BF
  OBVIOUS
<1>2. s \in Nat /\ s >= B /\ BF \in Nat /\ B \in Nat /\ B > 0
  BY <1>1, InnerType, BType
<1> HIDE DEF s, k
<1>3. s * (BF + 1) \in Nat
  BY <1>2
<1>4. ASSUME k # 0
      PROVE  <<s, k - 1>> \in Inner \X (0 .. BF) /\ s * (BF + 1) + (k - 1) < s * (BF + 1) + k
  BY <1>1, <1>2, <1>3, <1>4
<1>5. ASSUME s # B
      PROVE  <<s - B, BF>> \in Inner \X (0 .. BF) /\ (s - B) * (BF + 1) + BF < s * (BF + 1) + k
  <2>1. s - B \in Inner /\ BF \in 0 .. BF
    BY <1>1, <1>2, <1>5, InnerType
  <2>2. k \in Nat /\ B <= s
    BY <1>1, <1>2
  <2>3. (s - B) * (BF + 1) + BF < s * (BF + 1) + k
    BY <1>2, <2>2, RankBelow, Zenon
  <2>4. <<s - B, BF>> \in Inner \X (0 .. BF)
    BY <2>1
  <2> QED
    BY <2>3, <2>4, Zenon
<1>6. ExtendRank(q) = s * (BF + 1) + k
  BY Zenon DEF ExtendRank, s, k
<1>7. ExtendRank(<<s, k - 1>>) = s * (BF + 1) + (k - 1)
  BY DEF ExtendRank
<1>8. ExtendRank(<<s - B, BF>>) = (s - B) * (BF + 1) + BF
  BY DEF ExtendRank
<1>9. k # 0 => <<s, k - 1>> \in Inner \X (0 .. BF) /\ ExtendRank(<<s, k - 1>>) < ExtendRank(q)
  BY <1>4, <1>6, <1>7, Zenon
<1>10. s # B => <<s - B, BF>> \in Inner \X (0 .. BF) /\ ExtendRank(<<s - B, BF>>) < ExtendRank(q)
  BY <1>5, <1>6, <1>8, Zenon
<1> QED
  BY <1>1, <1>9, <1>10, Zenon DEF s, k

LEMMA ExtendIs ==
    \A q \in Inner \X (0 .. BF) : builder_extend_node[q] = ExtendBody(builder_extend_node, q)
<1>1. builder_extend_node = CHOOSE g : g = [q \in Inner \X (0 .. BF) |-> ExtendBody(g, q)]
  BY Zenon DEF builder_extend_node, ExtendBody, ExtendWith
<1>2. Extending!Ranked
  <2> SUFFICES ASSUME NEW q \in Inner \X (0 .. BF) PROVE ExtendRank(q) \in Nat
    BY Zenon DEF Extending!Ranked
  <2>1. q[1] \in Nat /\ q[2] \in Nat /\ BF + 1 \in Nat
    BY InnerType, BType
  <2>2. q[1] * (BF + 1) \in Nat
    BY <2>1
  <2> QED
    BY <2>1, <2>2 DEF ExtendRank
<1>3. Extending!Local
  <2> SUFFICES ASSUME NEW g, NEW h, NEW q \in Inner \X (0 .. BF),
                      \A t \in Inner \X (0 .. BF) : ExtendRank(t) < ExtendRank(q) => g[t] = h[t]
               PROVE  ExtendBody(g, q) = ExtendBody(h, q)
    BY Zenon DEF Extending!Local
  <2>1. q[2] # 0 => g[<<q[1], q[2] - 1>>] = h[<<q[1], q[2] - 1>>]
    BY ExtendBelow, Zenon
  <2>2. q[1] # B => g[<<q[1] - B, BF>>] = h[<<q[1] - B, BF>>]
    BY ExtendBelow, Zenon
  <2>3. ASSUME q[2] = 0, NEW p, NEW r, NEW p2, NEW r2 PROVE ExtendWith(q, p, r) = ExtendWith(q, p2, r2)
    BY <2>3, ZenonT(60) DEF ExtendWith
  <2>4. ASSUME q[1] = B, NEW p, NEW r, NEW r2 PROVE ExtendWith(q, p, r) = ExtendWith(q, p, r2)
    BY <2>4, ZenonT(60) DEF ExtendWith
  <2>5. CASE q[2] = 0
    <3> DEFINE p == g[<<q[1], q[2] - 1>>]
               r == g[<<q[1] - B, BF>>]
               p2 == h[<<q[1], q[2] - 1>>]
               r2 == h[<<q[1] - B, BF>>]
    <3>1. ExtendBody(g, q) = ExtendWith(q, p, r) /\ ExtendBody(h, q) = ExtendWith(q, p2, r2)
      BY Zenon DEF ExtendBody
    <3> HIDE DEF p, r, p2, r2
    <3>2. ExtendWith(q, p, r) = ExtendWith(q, p2, r2)
      BY <2>3, <2>5
    <3> QED
      BY <3>1, <3>2, Zenon
  <2>6. CASE q[2] # 0 /\ q[1] = B
    BY <2>1, <2>4, <2>6, ZenonT(60) DEF ExtendBody
  <2>7. CASE q[2] # 0 /\ q[1] # B
    BY <2>1, <2>2, <2>7, Zenon DEF ExtendBody
  <2> QED
    BY <2>5, <2>6, <2>7, Zenon
<1> QED
  BY <1>1, <1>2, <1>3, Extending!RecursiveFunction, Zenon

ExtendsSo(s, k, n, b) ==
  LET before == builder_extend_node[<<s, k - 1>>][n][b.vec.shift][b]
      c == n.children[k]
  IN builder_extend_node[<<s, k>>][n][b.vec.shift][b] =
       IF k = 0 THEN b
       ELSE IF k > Len(n.children) THEN before
       ELSE IF s = B THEN builder_append_leaf_range[c][before.vec.shift][before]
       ELSE builder_extend_node[<<s - B, BF>>][c][before.vec.shift][before]

LEMMA ExtendStep ==
    ASSUME NEW s \in Inner, NEW k \in 0 .. BF, NEW n \in WellFormed[s], NEW b, NEW a, Builder(b, a)
    PROVE  ExtendsSo(s, k, n, b)
<1> DEFINE q == <<s, k>>
           t == b.vec.shift
           before == builder_extend_node[<<s, k - 1>>][n][b.vec.shift][b]
           c == n.children[k]
<1>1. q \in Inner \X (0 .. BF) /\ q[1] = s /\ q[2] = k
  OBVIOUS
<1>2. s \in Shifts
  BY InnerType
<1>3. n \in Nodes[s]
  BY <1>2, FormNodes
<1>4. Partial(b, a)
  BY Zenon DEF Builder
<1>5. b \in Builders(t) /\ t \in Shifts
  BY <1>4, PartialFacts, Zenon
<1>6. child_count(n) = Len(n.children)
  BY FormCount, Zenon
<1> HIDE DEF q
<1>7. builder_extend_node[q] = ExtendBody(builder_extend_node, q)
  BY <1>1, ExtendIs, Zenon
<1>8. n \in Nodes[q[1]]
  BY <1>1, <1>3, Zenon
<1>9. ExtendBody(builder_extend_node, q)[n][t][b] =
        LET be == builder_extend_node[<<q[1], q[2] - 1>>][n][t][b]
        IN IF q[2] = 0 THEN b
           ELSE IF q[2] > child_count(n) THEN be
           ELSE IF q[1] = B THEN builder_append_leaf_range[n.children[q[2]]][be.vec.shift][be]
           ELSE builder_extend_node[<<q[1] - B, BF>>][n.children[q[2]]][be.vec.shift][be]
  BY <1>5, <1>8, Zenon DEF ExtendBody, ExtendWith
<1>10. builder_extend_node[q][n][t][b] =
                IF k = 0 THEN b
                ELSE IF k > Len(n.children) THEN before
                ELSE IF s = B THEN builder_append_leaf_range[c][before.vec.shift][before]
                ELSE builder_extend_node[<<s - B, BF>>][c][before.vec.shift][before]
  BY <1>1, <1>6, <1>7, <1>9, Zenon
<1> QED
  BY <1>10, Zenon DEF q, ExtendsSo

\* The first children of n, at most k.
FirstOf(n, k) == SubSeq(n.children, 1, IF k <= Len(n.children) THEN k ELSE Len(n.children))

\* Appending the first k children of n, and all of n.
ExtendsUpto(s, n, k) ==
  \A b, a : Builder(b, a) =>
    Builder(builder_extend_node[<<s, k>>][n][b.vec.shift][b], a \o all(FirstOf(n, k), s - B))
ExtendsBy(s, n) ==
  \A b, a : Builder(b, a) =>
    Builder(builder_extend_node[<<s, BF>>][n][b.vec.shift][b], a \o elems(n, s))

LEMMA FirstNone ==
    ASSUME NEW s \in Inner, NEW n \in WellFormed[s]
    PROVE  all(FirstOf(n, 0), s - B) = <<>>
<1> DEFINE ch == n.children
           m == Len(ch)
<1>1. m \in 1 .. BF
  BY FormFields, Zenon
<1>2. 0 <= m
  <2> HIDE DEF m
  <2> QED
    BY <1>1, BType
<1>3. FirstOf(n, 0) = SubSeq(ch, 1, 0)
  BY <1>2, Zenon DEF FirstOf
<1>4. SubSeq(ch, 1, 0) = <<>>
  BY SubSeqEmpty
<1> QED
  BY <1>3, <1>4, AllEmpty, Zenon

LEMMA FirstAll ==
    ASSUME NEW s \in Inner, NEW n \in WellFormed[s]
    PROVE  all(FirstOf(n, BF), s - B) = elems(n, s)
<1> DEFINE ch == n.children
           m == Len(ch)
<1>1. m \in 1 .. BF /\ ch \in Seq(WellFormed[s - B])
  BY FormFields, Zenon
<1>2. BF <= m => BF = m
  <2>1. m \in 1 .. BF
    BY <1>1, Zenon
  <2> HIDE DEF m
  <2> QED
    BY <2>1, BType
<1>3. FirstOf(n, BF) = SubSeq(ch, 1, m)
  BY <1>2, Zenon DEF FirstOf
<1>4. SubSeq(ch, 1, m) = ch
  BY <1>1, PartWhole, Zenon
<1>5. elems(n, s) = all(ch, s - B)
  BY ElemsInner, Zenon
<1> QED
  BY <1>3, <1>4, <1>5, Zenon

LEMMA FirstNext ==
    ASSUME NEW s \in Inner, NEW n \in WellFormed[s], NEW k \in 1 .. BF
    PROVE  /\ k > Len(n.children) => FirstOf(n, k) = FirstOf(n, k - 1)
           /\ ~(k > Len(n.children)) =>
                /\ n.children[k] \in WellFormed[s - B]
                /\ all(FirstOf(n, k), s - B) = all(FirstOf(n, k - 1), s - B) \o elems(n.children[k], s - B)
           /\ all(FirstOf(n, k - 1), s - B) \in Seq(Int)
<1> DEFINE ch == n.children
           m == Len(ch)
           i == k - 1
           t == s - B
<1>1. m \in 1 .. BF /\ ch \in Seq(WellFormed[t]) /\ t \in Shifts
  BY FormFields, InnerType, Zenon
<1>2. m \in Nat /\ k \in Nat /\ i \in Nat /\ i + 1 = k
  <2>1. m \in 1 .. BF
    BY <1>1, Zenon
  <2> HIDE DEF m
  <2> QED
    BY <2>1, BType
<1>3. ASSUME k > m PROVE FirstOf(n, k) = FirstOf(n, k - 1)
  <2>1. ~(k <= m) /\ (i <= m => i = m)
    <3> HIDE DEF m
    <3> QED
      BY <1>2, <1>3
  <2>2. FirstOf(n, k) = SubSeq(ch, 1, m)
    BY <2>1, Zenon DEF FirstOf
  <2>3. FirstOf(n, i) = SubSeq(ch, 1, m)
    BY <2>1, Zenon DEF FirstOf
  <2> QED
    BY <2>2, <2>3, Zenon
<1>4. ASSUME ~(k > m)
      PROVE  /\ ch[k] \in WellFormed[t]
             /\ all(FirstOf(n, k), t) = all(FirstOf(n, i), t) \o elems(ch[k], t)
  <2>1. k <= m /\ i <= m /\ i < m
    <3> HIDE DEF m
    <3> QED
      BY <1>2, <1>4
  <2> DEFINE p == SubSeq(ch, 1, i)
             c == ch[i + 1]
  <2>2. FirstOf(n, k) = SubSeq(ch, 1, k)
    BY <2>1, Zenon DEF FirstOf
  <2>3. FirstOf(n, i) = p
    BY <2>1, Zenon DEF FirstOf
  <2>4. p \in Seq(WellFormed[t]) /\ c \in WellFormed[t] /\ SubSeq(ch, 1, i + 1) = p \o <<c>>
    BY <1>1, <1>2, <2>1, PrefixStep, Zenon
  <2>5. all(p \o <<c>>, t) = all(p, t) \o elems(c, t)
    BY <1>1, <2>4, ListSnoc, Zenon
  <2> QED
    BY <1>2, <2>2, <2>3, <2>4, <2>5, Zenon
<1>5. all(FirstOf(n, i), t) \in Seq(Int)
  <2> DEFINE j == IF i <= m THEN i ELSE m
  <2>1. j \in Nat /\ j <= m
    <3> HIDE DEF m
    <3> QED
      BY <1>2
  <2>2. FirstOf(n, i) = SubSeq(ch, 1, j)
    BY Zenon DEF FirstOf
  <2> HIDE DEF j
  <2>3. SubSeq(ch, 1, j) \in Seq(WellFormed[t])
    BY <1>1, <2>1, PrefixType, Zenon
  <2> QED
    BY <1>1, <2>2, <2>3, ListType, Zenon
<1> QED
  BY <1>3, <1>4, <1>5, Zenon

LEMMA ExtendNext ==
    ASSUME NEW s \in Inner, s # B => \A c \in WellFormed[s - B] : ExtendsBy(s - B, c),
           NEW n \in WellFormed[s], NEW k \in 1 .. BF, ExtendsUpto(s, n, k - 1)
    PROVE  ExtendsUpto(s, n, k)
<1> SUFFICES ASSUME NEW b, NEW a, Builder(b, a)
             PROVE  Builder(builder_extend_node[<<s, k>>][n][b.vec.shift][b], a \o all(FirstOf(n, k), s - B))
  BY Zenon DEF ExtendsUpto
<1> DEFINE t == s - B
           before == builder_extend_node[<<s, k - 1>>][n][b.vec.shift][b]
           c == n.children[k]
           p == all(FirstOf(n, k - 1), t)
           y == builder_extend_node[<<s, k>>][n][b.vec.shift][b]
<1>1. k \in 0 .. BF /\ k # 0
  BY BType
<1>2. y = IF k = 0 THEN b
          ELSE IF k > Len(n.children) THEN before
          ELSE IF s = B THEN builder_append_leaf_range[c][before.vec.shift][before]
          ELSE builder_extend_node[<<s - B, BF>>][c][before.vec.shift][before]
  <2>1. ExtendsSo(s, k, n, b)
    BY <1>1, ExtendStep, Zenon
  <2> QED
    BY <2>1, Zenon DEF ExtendsSo
<1>3. Builder(before, a \o p)
  BY Zenon DEF ExtendsUpto
<1>12. Partial(b, a)
  BY Zenon DEF Builder
<1>4. a \in Seq(Int)
  BY <1>12, PartialFacts, Zenon
<1>5. p \in Seq(Int)
  BY FirstNext, Zenon
<1> HIDE DEF before, y
<1>6. CASE k > Len(n.children)
  <2>1. FirstOf(n, k) = FirstOf(n, k - 1)
    BY <1>6, FirstNext, Zenon
  <2>2. y = before
    BY <1>1, <1>2, <1>6, Zenon
  <2> QED
    BY <1>3, <2>1, <2>2, Zenon DEF y
<1>7. CASE ~(k > Len(n.children))
  <2>1. c \in WellFormed[t] /\ all(FirstOf(n, k), t) = p \o elems(c, t)
    BY <1>7, FirstNext, Zenon
  <2>2. t \in Shifts
    BY InnerType
  <2>3. elems(c, t) \in Seq(Int)
    BY <2>1, <2>2, ElemsType, Zenon
  <2> DEFINE e == elems(c, t)
  <2>7. e \in Seq(Int)
    BY <2>3, Zenon
  <2> HIDE DEF p, c
  <2>4. Builder(y, (a \o p) \o e)
    <3>1. CASE s = B
      <4>1. t = 0
        BY <3>1, BType
      <4>2. e = c
        BY <4>1, ElemsLeaf, Zenon
      <4>3. Appends(c)
        BY <2>7, <4>2, AppendRange, Zenon
      <4>4. y = builder_append_leaf_range[c][before.vec.shift][before]
        BY <1>1, <1>2, <1>7, <3>1, Zenon
      <4>5. Builder(builder_append_leaf_range[c][before.vec.shift][before], (a \o p) \o c)
        BY <1>3, <4>3, Zenon DEF Appends
      <4> QED
        BY <4>2, <4>4, <4>5, Zenon
    <3>2. CASE s # B
      <4>1. ExtendsBy(t, c)
        BY <2>1, <3>2, Zenon
      <4>2. y = builder_extend_node[<<t, BF>>][c][before.vec.shift][before]
        BY <1>1, <1>2, <1>7, <3>2, Zenon
      <4>3. Builder(builder_extend_node[<<t, BF>>][c][before.vec.shift][before], (a \o p) \o e)
        BY <1>3, <4>1, Zenon DEF ExtendsBy
      <4> QED
        BY <4>2, <4>3, Zenon
    <3> QED
      BY <3>1, <3>2
  <2> HIDE DEF e
  <2>5. (a \o p) \o e = a \o (p \o e)
    BY <1>4, <1>5, <2>7, AssocAll, Zenon
  <2>6. all(FirstOf(n, k), t) = p \o e
    BY <2>1, Zenon DEF e
  <2> QED
    BY <2>4, <2>5, <2>6, Zenon DEF y
<1> QED
  BY <1>6, <1>7

LEMMA ExtendLevel ==
    ASSUME NEW s \in Inner, s # B => \A c \in WellFormed[s - B] : ExtendsBy(s - B, c),
           NEW n \in WellFormed[s]
    PROVE  ExtendsBy(s, n)
<1> DEFINE P == {k \in Nat : k <= BF => ExtendsUpto(s, n, k)}
<1>1. 0 \in P
  <2>1. ASSUME NEW b, NEW a, Builder(b, a)
        PROVE  Builder(builder_extend_node[<<s, 0>>][n][b.vec.shift][b], a \o all(FirstOf(n, 0), s - B))
    <3>1. 0 \in 0 .. BF
      BY BType
    <3>2. builder_extend_node[<<s, 0>>][n][b.vec.shift][b] = b
      <4>1. ExtendsSo(s, 0, n, b)
        BY <2>1, <3>1, ExtendStep, Zenon
      <4> QED
        BY <4>1, Zenon DEF ExtendsSo
    <3>3. all(FirstOf(n, 0), s - B) = <<>>
      BY FirstNone, Zenon
    <3>4. Partial(b, a)
      BY <2>1, Zenon DEF Builder
    <3>5. a \in Seq(Int)
      BY <3>4, PartialFacts, Zenon
    <3>6. a \o <<>> = a
      BY <3>5, EmptyLeft, Zenon
    <3> QED
      BY <2>1, <3>2, <3>3, <3>6, Zenon
  <2>2. ExtendsUpto(s, n, 0)
    BY <2>1, Zenon DEF ExtendsUpto
  <2> QED
    BY <2>2
<1>2. ASSUME NEW k \in Nat, k \in P PROVE k + 1 \in P
  <2> SUFFICES ASSUME k + 1 <= BF PROVE ExtendsUpto(s, n, k + 1)
    OBVIOUS
  <2>1. k <= BF /\ k + 1 \in 1 .. BF /\ (k + 1) - 1 = k
    BY BType
  <2>2. ExtendsUpto(s, n, k)
    BY <1>2, <2>1, Zenon
  <2>3. ExtendsUpto(s, n, (k + 1) - 1)
    BY <2>1, <2>2, Zenon
  <2> QED
    BY <2>1, <2>3, ExtendNext, Zenon
<1> HIDE DEF P
<1>3. \A k \in Nat : k \in P
  BY <1>1, <1>2, OnNat!NatInduct
<1>4. BF \in Nat /\ BF <= BF
  BY BType
<1>5. ExtendsUpto(s, n, BF)
  BY <1>3, <1>4, Zenon DEF P
<1>6. all(FirstOf(n, BF), s - B) = elems(n, s)
  BY FirstAll, Zenon
<1> QED
  BY <1>5, <1>6, Zenon DEF ExtendsUpto, ExtendsBy

LEMMA ExtendNode == \A s \in Inner : \A n \in WellFormed[s] : ExtendsBy(s, n)
<1> DEFINE P == {s \in Inner : \A n \in WellFormed[s] : ExtendsBy(s, n)}
<1>1. B \in P
  BY BInner, ExtendLevel, Zenon
<1>2. ASSUME NEW s \in Inner, s # B, s - B \in P PROVE s \in P
  <2>1. \A c \in WellFormed[s - B] : ExtendsBy(s - B, c)
    BY <1>2, Zenon
  <2> QED
    BY <2>1, ExtendLevel, Zenon
<1> HIDE DEF P
<1>3. \A s \in Inner : s \in P
  BY <1>1, <1>2, InnerInduct, Zenon
<1> QED
  BY <1>3, Zenon DEF P

LEMMA BuilderExtend ==
    ASSUME NEW b, NEW a, Builder(b, a), NEW x, NEW c, VecIs(x, c)
    PROVE  Builder(builder_extend(b, x), a \o c)
<1>1. PICK d : Vec(x, d) /\ c = d \o x.tail
  BY VecIsVec, Zenon
<1> DEFINE inner == IF tailoff(x) = 0 THEN b
                    ELSE builder_extend_node[<<x.shift, BF>>][x.root][b.vec.shift][b]
           u == x.tail
<1>2. d \in Seq(Int) /\ Len(d) \in Nat /\ u \in Seq(Int) /\ tailoff(x) = Len(d)
  BY <1>1, VecFacts, Zenon
<1>3. TreeOf(x.root, x.shift, d)
  BY <1>1, Zenon DEF Vec
<1>4. Partial(b, a)
  BY Zenon DEF Builder
<1>5. a \in Seq(Int)
  BY <1>4, PartialFacts, Zenon
<1>6. Builder(inner, a \o d)
  <2>1. CASE d = <<>>
    <3>1. Len(<<>>) = 0
      OBVIOUS
    <3>2. inner = b
      BY <1>2, <2>1, <3>1, Zenon
    <3>3. a \o <<>> = a
      BY <1>5, EmptyLeft, Zenon
    <3> QED
      BY <2>1, <3>2, <3>3, Zenon
  <2>2. CASE d # <<>>
    <3>1. Len(d) # 0
      BY <1>2, <2>2, EmptySeq
    <3>2. inner = builder_extend_node[<<x.shift, BF>>][x.root][b.vec.shift][b]
      BY <1>2, <3>1, Zenon
    <3>3. x.root # Null
      BY <1>3, <2>2, Zenon DEF TreeOf
    <3>4. x.shift \in Inner /\ x.root \in WellFormed[x.shift] /\ elems(x.root, x.shift) = d
      BY <1>3, <3>3, Zenon DEF TreeOf
    <3>5. ExtendsBy(x.shift, x.root)
      BY <3>4, ExtendNode, Zenon
    <3> QED
      BY <3>2, <3>4, <3>5, Zenon DEF ExtendsBy
  <2> QED
    BY <2>1, <2>2
<1> HIDE DEF inner, u
<1>7. Appends(u)
  BY <1>2, AppendRange, Zenon
<1>8. Builder(builder_append_leaf_range[u][inner.vec.shift][inner], (a \o d) \o u)
  BY <1>6, <1>7, Zenon DEF Appends
<1>9. (a \o d) \o u = a \o c
  BY <1>1, <1>2, <1>5, AssocAll, Zenon DEF u
<1>10. CASE x.len = 0
  <2>1. builder_extend(b, x) = b
    BY <1>10, Zenon DEF builder_extend
  <2>2. c \in Seq(Int) /\ x.len = Len(c)
    BY VecIsFacts, Zenon
  <2>3. c = <<>>
    BY <1>10, <2>2, EmptySeq
  <2>4. a \o <<>> = a
    BY <1>5, EmptyLeft, Zenon
  <2> QED
    BY <2>1, <2>3, <2>4, Zenon
<1>11. CASE x.len # 0
  <2>1. builder_extend(b, x) = builder_append_leaf_range[u][inner.vec.shift][inner]
    BY <1>11, Zenon DEF builder_extend, u, inner
  <2> QED
    BY <1>8, <1>9, <2>1, Zenon
<1> QED
  BY <1>10, <1>11

LEMMA TwoTrees ==
    ASSUME NEW l, NEW ls, NEW x, TreeOf(l, ls, x), l # Null,
           NEW r, NEW rs, NEW y, TreeOf(r, rs, y), r # Null
    PROVE  LET t == concat_trees[<<ls, rs>>][l][r]
           IN TreeOf(t[1], t[2], x \o y) /\ t[1] # Null /\ t[2] \in Inner
<1> DEFINE t == concat_trees[<<ls, rs>>][l][r]
<1>1. ls \in Inner /\ l \in WellFormed[ls] /\ elems(l, ls) = x
  BY Zenon DEF TreeOf
<1>2. rs \in Inner /\ r \in WellFormed[rs] /\ elems(r, rs) = y
  BY Zenon DEF TreeOf
<1>3. Merges(ls, rs)
  BY <1>1, <1>2, ConcatTrees, Zenon
<1>4. Merged(t, Higher(ls, rs), x \o y)
  BY <1>1, <1>2, <1>3, Zenon DEF Merges
<1>5. Higher(ls, rs) \in Inner
  BY <1>1, <1>2, Zenon DEF Higher
<1> QED
  BY <1>4, <1>5, MergedTree, Zenon

\* The whole vector as one tree.
LEMMA TailInTree ==
    ASSUME NEW x, NEW a, Loaded(x, a)
    PROVE  LET t == IF x.root = Null THEN <<wrap_leaf(x.tail), B>>
                    ELSE concat_trees[<<x.shift, B>>][x.root][wrap_leaf(x.tail)]
           IN TreeOf(t[1], t[2], a) /\ t[1] # Null /\ t[2] \in Inner
<1> DEFINE r == wrap_leaf(x.tail)
           u == x.tail
           t == IF x.root = Null THEN <<r, B>> ELSE concat_trees[<<x.shift, B>>][x.root][r]
<1>1. PICK d : Vec(x, d) /\ a = d \o u
  BY Zenon DEF Loaded
<1>2. u \in Seq(Int) /\ Len(u) \in 1 .. BF
  BY LoadedFacts, Zenon
<1>3. r \in WellFormed[B] /\ elems(r, B) = u /\ B \in Inner
  BY <1>2, WrapLeaf, BInner, Zenon
<1>4. r # Null
  BY <1>3, FormFields, Zenon
<1>5. TreeOf(r, B, u)
  BY <1>3, <1>4, Zenon DEF TreeOf
<1>6. TreeOf(x.root, x.shift, d)
  BY <1>1, Zenon DEF Vec
<1> HIDE DEF r
<1>7. TreeOf(t[1], t[2], a) /\ t[1] # Null /\ t[2] \in Inner
  <2>1. CASE x.root = Null
    <3>1. d = <<>>
      BY <1>6, <2>1, Zenon DEF TreeOf
    <3>2. <<>> \o u = u
      BY <1>2, EmptyLeft, Zenon
    <3>3. t = <<r, B>>
      BY <2>1, Zenon
    <3>4. <<r, B>>[1] = r /\ <<r, B>>[2] = B
      OBVIOUS
    <3> HIDE DEF t
    <3> QED
      BY <1>1, <1>3, <1>4, <1>5, <3>1, <3>2, <3>3, <3>4, Zenon
  <2>2. CASE x.root # Null
    <3> DEFINE z == concat_trees[<<x.shift, B>>][x.root][r]
    <3>1. TreeOf(z[1], z[2], d \o u) /\ z[1] # Null /\ z[2] \in Inner
      BY <1>4, <1>5, <1>6, <2>2, TwoTrees, Zenon
    <3>2. t = z
      BY <2>2, Zenon
    <3> HIDE DEF t, z
    <3> QED
      BY <1>1, <3>1, <3>2, Zenon
  <2> QED
    BY <2>1, <2>2
<1> QED
  BY <1>7, Zenon DEF r

LEMMA ConcatVec ==
    ASSUME NEW x, NEW a, VecIs(x, a), NEW y, NEW c, VecIs(y, c)
    PROVE  VecIs(concat(x, y), a \o c)
<1>1. a \in Seq(Int) /\ x.len = Len(a) /\ c \in Seq(Int) /\ y.len = Len(c)
  BY VecIsFacts, Zenon
<1>2. CASE c = <<>>
  <2>1. Len(<<>>) = 0
    OBVIOUS
  <2>2. concat(x, y) = x
    BY <1>1, <1>2, <2>1, Zenon DEF concat, vector
  <2>3. a \o <<>> = a
    BY <1>1, EmptyLeft, Zenon
  <2> QED
    BY <1>2, <2>2, <2>3, Zenon
<1>3. CASE c # <<>> /\ a = <<>>
  <2>1. Len(<<>>) = 0
    OBVIOUS
  <2>4. Len(c) # 0
    BY <1>1, <1>3, EmptySeq
  <2>2. concat(x, y) = y
    BY <1>1, <1>3, <2>1, <2>4, Zenon DEF concat, vector
  <2>3. <<>> \o c = c
    BY <1>1, EmptyLeft, Zenon
  <2> QED
    BY <1>3, <2>2, <2>3, Zenon
<1>4. CASE c # <<>> /\ a # <<>> /\ y.root = Null
  <2>1. Len(c) # 0 /\ Len(a) # 0
    BY <1>1, <1>4, EmptySeq
  <2>2. concat(x, y) = builder_freeze(builder_extend(builder_from(x), y))
    BY <1>1, <1>4, <2>1, Zenon DEF concat, vector
  <2>3. Builder(builder_from(x), a)
    BY BuilderFrom, Zenon
  <2>4. Builder(builder_extend(builder_from(x), y), a \o c)
    BY <2>3, BuilderExtend, Zenon
  <2>5. VecIs(builder_freeze(builder_extend(builder_from(x), y)), a \o c)
    BY <2>4, BuilderFreeze, Zenon
  <2> QED
    BY <2>2, <2>5, Zenon
<1>5. CASE c # <<>> /\ a # <<>> /\ y.root # Null
  <2> DEFINE left == IF x.root = Null THEN <<wrap_leaf(x.tail), B>>
                     ELSE concat_trees[<<x.shift, B>>][x.root][wrap_leaf(x.tail)]
             t == concat_trees[<<left[2], y.shift>>][left[1]][y.root]
             u == y.tail
             le == x.len + y.len
             z == [len |-> le, shift |-> t[2], root |-> t[1], tail |-> u]
  <2>1. Len(c) # 0 /\ Len(a) # 0
    BY <1>1, <1>5, EmptySeq
  <2>2. concat(x, y) = z
    BY <1>1, <1>5, <2>1, Zenon DEF concat, vector
  <2>3. Loaded(x, a) /\ Loaded(y, c)
    BY <1>5, Zenon DEF VecIs
  <2>4. TreeOf(left[1], left[2], a) /\ left[1] # Null
    BY <2>3, TailInTree, Zenon
  <2>5. PICK d : Vec(y, d) /\ u # <<>> /\ c = d \o u
    BY <2>3, Zenon DEF Loaded
  <2>6. d \in Seq(Int) /\ u \in Seq(Int) /\ Len(u) <= BF
    BY <2>5, VecFacts, Zenon
  <2>7. TreeOf(y.root, y.shift, d)
    BY <2>5, Zenon DEF Vec
  <2> HIDE DEF left
  <2>8. TreeOf(t[1], t[2], a \o d)
    BY <1>5, <2>4, <2>7, TwoTrees, Zenon
  <2>9. (a \o d) \o u = a \o c
    BY <1>1, <2>5, <2>6, AssocAll, Zenon
  <2>10. le = Len(a \o d) + Len(u)
    <3> HIDE DEF u
    <3>1. Len(a \o d) = Len(a) + Len(d) /\ Len(c) = Len(d) + Len(u)
      BY <1>1, <2>5, <2>6
    <3>2. Len(a) \in Nat /\ Len(d) \in Nat /\ Len(u) \in Nat
      BY <1>1, <2>6
    <3>3. Len(a) + (Len(d) + Len(u)) = (Len(a) + Len(d)) + Len(u)
      BY <3>2
    <3> QED
      BY <1>1, <3>1, <3>3, Zenon
  <2> DEFINE ro == t[1]
             sh == t[2]
             e == a \o d
  <2>11. TreeOf(ro, sh, e) /\ le = Len(e) + Len(u)
    BY <2>8, <2>10, Zenon
  <2>12. z = [len |-> le, shift |-> sh, root |-> ro, tail |-> u]
    BY Zenon
  <2>13. e \o u = a \o c
    BY <2>9, Zenon
  <2> HIDE DEF ro, sh, e, t, u, le, z
  <2>14. Vec(z, e) /\ z.tail = u
    BY <2>6, <2>11, <2>12, VecOf, Zenon
  <2>15. Loaded(z, a \o c)
    BY <2>5, <2>13, <2>14, Zenon DEF Loaded
  <2>16. a \o c # <<>>
    BY <1>1, <1>5, EmptyNotNonempty, Zenon
  <2> QED
    BY <2>2, <2>15, <2>16, Zenon DEF VecIs
<1> QED
  BY <1>2, <1>3, <1>4, <1>5, Zenon
=============================================================================
