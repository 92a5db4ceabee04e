------------------------ MODULE PersistentDictProofs ------------------------
(***************************************************************************)
(* Theorems about PersistentDict, for every set of hashes and values, any  *)
(* width of a hash and of its fragments.  First that the recursive         *)
(* functions are what their definitions say, then what the compact array   *)
(* of a node holds at a fragment, then, by induction on the levels below a *)
(* node, what get answers after set and remove, and last the dictionary.   *)
(***************************************************************************)
EXTENDS PersistentDict, TLAPS, FiniteSetTheorems

-----------------------------------------------------------------------------
(***************************************************************************)
(* Numbers.                                                                *)
(***************************************************************************)
\* A power of two is positive.
LEMMA PowerPositive ==
    ASSUME NEW n \in Nat
    PROVE  2^n \in Nat /\ 2^n > 0
<1> DEFINE S == 1 .. n
<1>1. IsFiniteSet(S) /\ Cardinality(S) = n
  <2>1. 1 \in Int /\ n \in Int
    OBVIOUS
  <2>2. IsFiniteSet(S) /\ Cardinality(S) = IF 1 > n THEN 0 ELSE n - 1 + 1
    BY <2>1, FS_Interval, Zenon
  <2> QED
    BY <2>2
<1> HIDE DEF S
<1>2. IsFiniteSet(SUBSET S) /\ Cardinality(SUBSET S) = 2^n
  BY <1>1, FS_SUBSET
<1>3. Cardinality(SUBSET S) # 0
  BY <1>2, FS_EmptySet, Zenon
<1>4. Cardinality(SUBSET S) \in Nat
  BY <1>2, FS_CardinalityType
<1> QED
  BY <1>2, <1>3, <1>4

LEMMA LevelsType == Levels \in Nat \ {0}
<1>1. Bits \in Nat /\ HashBits \in Nat /\ Bits > 0 /\ HashBits > 0
  BY HashAssumption
<1>2. HashBits + Bits - 1 \in Nat /\ HashBits + Bits - 1 >= Bits
  BY <1>1
<1> DEFINE q == (HashBits + Bits - 1) \div Bits
<1>3. ASSUME NEW a \in Nat, NEW b \in Nat, b > 0, a >= b PROVE a \div b \in Nat /\ a \div b # 0
  BY <1>3
<1> QED
  BY <1>1, <1>2, <1>3 DEF Levels

LEMMA FragmentType ==
    ASSUME NEW h \in Hashes, NEW depth \in Nat
    PROVE  fragment(h, depth) \in Frags
<1>1. Bits \in Nat /\ depth * Bits \in Nat /\ h \in Nat
  <2>1. 2^HashBits \in Nat
    BY HashAssumption, PowerPositive
  <2> QED
    BY <2>1, HashAssumption
<1> DEFINE m == 2^Bits   p == 2^(depth * Bits)
<1>2. m \in Nat /\ m > 0
  BY <1>1, PowerPositive
<1>3. p \in Nat /\ p > 0
  BY <1>1, PowerPositive
<1> HIDE DEF m, p
<1>4. (h \div p) % m \in 0 .. (m - 1)
  BY <1>1, <1>2, <1>3
<1> QED
  BY <1>4 DEF fragment, Frags, m, p

LEMMA FragsFinite == IsFiniteSet(Frags) /\ Frags \subseteq Nat
<1>1. Bits \in Nat
  BY HashAssumption
<1>2. 2^Bits - 1 \in Int /\ 0 \in Int
  BY <1>1, PowerPositive
<1>3. IsFiniteSet(Frags)
  BY <1>2, FS_Interval, Zenon DEF Frags
<1>4. Frags \subseteq Nat
  BY <1>2 DEF Frags
<1> QED
  BY <1>3, <1>4

LEMMA KeysType ==
    ASSUME NEW k \in Keys
    PROVE  k[1] \in Hashes /\ k = <<k[1], k[2]>>
BY DEF Keys

-----------------------------------------------------------------------------
(***************************************************************************)
(* The recursive functions.                                                *)
(***************************************************************************)
TypeBody(g, l) ==
  IF l = 0 THEN {}
  ELSE {n \in [type : {"node"}, bitmap : SUBSET Frags,
               entries : Seq(EntryType \cup CollisionType \cup g[l - 1])] :
          Cardinality(n.bitmap) = Len(n.entries)}

NatRank(l) == l

Types == INSTANCE RecursiveFunctions WITH D <- Nat, Rank <- NatRank, Body <- TypeBody

LEMMA NodeTypeIs == \A l \in Nat : NodeType[l] = TypeBody(NodeType, l)
<1>1. NodeType = CHOOSE g : g = [l \in Nat |-> TypeBody(g, l)]
  BY Zenon DEF NodeType, TypeBody
<1>2. Types!Ranked
  BY Zenon DEF Types!Ranked, NatRank
<1>3. Types!Local
  <2> SUFFICES ASSUME NEW g, NEW h, NEW l \in Nat, \A t \in Nat : NatRank(t) < NatRank(l) => g[t] = h[t]
               PROVE  TypeBody(g, l) = TypeBody(h, l)
    BY Zenon DEF Types!Local
  <2>1. CASE l = 0
    BY <2>1, Zenon DEF TypeBody
  <2>2. CASE l # 0
    <3>1. l - 1 \in Nat /\ NatRank(l - 1) < NatRank(l)
      BY <2>2 DEF NatRank
    <3>2. g[l - 1] = h[l - 1]
      BY <3>1, Zenon
    <3> QED
      BY <3>2, Zenon DEF TypeBody
  <2> QED
    BY <2>1, <2>2
<1> QED
  BY <1>1, <1>2, <1>3, Types!RecursiveFunction, Zenon

-----------------------------------------------------------------------------
(***************************************************************************)
(* The compact arrays.                                                     *)
(***************************************************************************)
\* The fragments of a bitmap below one are finitely many.
LEMMA PopFinite ==
    ASSUME NEW B \in SUBSET Frags, NEW f \in Frags
    PROVE  /\ IsFiniteSet(B)
           /\ IsFiniteSet({g \in B : g < f})
           /\ popcount(B, f) \in Nat
           /\ popcount(B, f) <= Cardinality(B)
           /\ Cardinality(B) \in Nat
<1>1. IsFiniteSet(B)
  BY FragsFinite, FS_Subset, Zenon
<1>2. {g \in B : g < f} \subseteq B
  OBVIOUS
<1>3. IsFiniteSet({g \in B : g < f}) /\ Cardinality({g \in B : g < f}) <= Cardinality(B)
  BY <1>1, <1>2, FS_Subset, Zenon
<1> QED
  BY <1>1, <1>3, FS_CardinalityType, Zenon DEF popcount

\* A fragment of a bitmap has more below it than every smaller one.
LEMMA PopBelow ==
    ASSUME NEW B \in SUBSET Frags, NEW f \in Frags, NEW g \in B, g < f
    PROVE  popcount(B, g) < popcount(B, f)
<1> DEFINE P == {e \in B : e < g}   Q == {e \in B : e < f}
<1>1. B \subseteq Nat /\ f \in Nat /\ g \in Nat /\ g \in Frags
  BY FragsFinite
<1>2. P \subseteq Q /\ g \in Q /\ g \notin P
  <2>1. ASSUME NEW e \in P PROVE e \in B /\ e < f
    BY <1>1, <2>1
  <2>2. ~(g < g)
    BY <1>1
  <2> QED
    BY <2>1, <2>2, Zenon
<1>3. P # Q
  BY <1>2, Zenon
<1>4. IsFiniteSet(Q)
  BY PopFinite, Zenon
<1>5. IsFiniteSet(P) /\ Cardinality(P) <= Cardinality(Q) /\ Cardinality(Q) # Cardinality(P)
  BY <1>2, <1>3, <1>4, FS_Subset, Zenon
<1>6. Cardinality(P) \in Nat /\ Cardinality(Q) \in Nat
  BY <1>4, <1>5, FS_CardinalityType
<1>7. Cardinality(P) < Cardinality(Q)
  BY <1>5, <1>6
<1> QED
  BY <1>7, Zenon DEF popcount

\* A smaller fragment has no more below it.
LEMMA PopUpTo ==
    ASSUME NEW B \in SUBSET Frags, NEW f \in Frags, NEW g \in Frags, f < g
    PROVE  popcount(B, f) <= popcount(B, g)
<1> DEFINE P == {e \in B : e < f}   Q == {e \in B : e < g}
<1>1. B \subseteq Nat /\ f \in Nat /\ g \in Nat
  BY FragsFinite
<1>2. P \subseteq Q
  <2>1. ASSUME NEW e \in P PROVE e \in B /\ e < g
    BY <1>1, <2>1
  <2> QED
    BY <2>1
<1>3. IsFiniteSet(Q)
  BY PopFinite, Zenon
<1>4. Cardinality(P) <= Cardinality(Q)
  BY <1>2, <1>3, FS_Subset, Zenon
<1> QED
  BY <1>4, Zenon DEF popcount

\* A fragment of a bitmap has a place in the array, and no other has it.
LEMMA PopPlace ==
    ASSUME NEW B \in SUBSET Frags, NEW f \in B
    PROVE  /\ popcount(B, f) \in Nat
           /\ popcount(B, f) < Cardinality(B)
           /\ \A g \in B : g # f => popcount(B, g) # popcount(B, f)
<1>1. f \in Frags /\ IsFiniteSet(B) /\ popcount(B, f) \in Nat
  BY PopFinite
<1>2. popcount(B, f) < Cardinality(B)
  <2> DEFINE P == {e \in B : e < f}
  <2>1. P \subseteq B /\ f \notin P
    BY <1>1, FragsFinite
  <2>2. P # B
    BY <2>1, Zenon
  <2>3. Cardinality(P) <= Cardinality(B) /\ Cardinality(B) # Cardinality(P)
    BY <1>1, <2>1, <2>2, FS_Subset, Zenon
  <2>4. popcount(B, f) <= Cardinality(B) /\ Cardinality(B) # popcount(B, f)
    BY <2>3, Zenon DEF popcount
  <2>5. Cardinality(B) \in Nat
    BY <1>1, FS_CardinalityType
  <2> QED
    BY <1>1, <2>4, <2>5
<1>3. ASSUME NEW g \in B, g # f PROVE popcount(B, g) # popcount(B, f)
  <2>1. g \in Frags /\ g \in Nat /\ f \in Nat
    BY FragsFinite
  <2>2. popcount(B, g) \in Nat
    BY <2>1, PopFinite
  <2>3. CASE g < f
    BY <1>1, <2>1, <2>2, <2>3, PopBelow
  <2>4. CASE f < g
    BY <1>1, <2>1, <2>2, <2>4, PopBelow
  <2> QED
    BY <1>3, <2>1, <2>3, <2>4
<1> QED
  BY <1>1, <1>2, <1>3

\* What one more fragment adds to the counts.
LEMMA PopInsert ==
    ASSUME NEW B \in SUBSET Frags, NEW f \in Frags, f \notin B, NEW g \in Frags
    PROVE  /\ popcount(B \cup {f}, g) = popcount(B, g) + IF f < g THEN 1 ELSE 0
           /\ Cardinality(B \cup {f}) = Cardinality(B) + 1
<1> DEFINE P == {e \in B : e < g}   Q == {e \in B \cup {f} : e < g}
<1>1. f \in Nat /\ g \in Nat /\ IsFiniteSet(B) /\ IsFiniteSet(P) /\ f \notin P
  BY PopFinite, FragsFinite
<1>2. CASE f < g
  <2>1. Q = P \cup {f}
    BY <1>1, <1>2
  <2>2. Cardinality(Q) = Cardinality(P) + 1
    BY <1>1, <2>1, FS_AddElement, Zenon
  <2>3. Cardinality(B \cup {f}) = Cardinality(B) + 1
    BY <1>1, FS_AddElement, Zenon
  <2>4. popcount(B \cup {f}, g) = popcount(B, g) + 1
    BY <2>2, Zenon DEF popcount
  <2> QED
    BY <1>2, <2>3, <2>4
<1>3. CASE ~(f < g)
  <2>1. Q = P
    BY <1>1, <1>3
  <2>2. Cardinality(P) \in Nat
    BY <1>1, FS_CardinalityType
  <2>3. Cardinality(B \cup {f}) = Cardinality(B) + 1
    BY <1>1, FS_AddElement, Zenon
  <2>4. popcount(B \cup {f}, g) = popcount(B, g) /\ popcount(B, g) \in Nat
    BY <2>1, <2>2, Zenon DEF popcount
  <2> QED
    BY <1>3, <2>3, <2>4
<1> QED
  BY <1>2, <1>3

\* Parts and joins of sequences, element by element.
LEMMA PartElements ==
    ASSUME NEW S, NEW a \in Seq(S), NEW m \in 1 .. Len(a) + 1, NEW n \in m - 1 .. Len(a)
    PROVE  /\ SubSeq(a, m, n) \in Seq(S) /\ Len(SubSeq(a, m, n)) = n - m + 1
           /\ \A i \in 1 .. n - m + 1 : SubSeq(a, m, n)[i] = a[m + i - 1]
OBVIOUS

LEMMA JoinElements ==
    ASSUME NEW S, NEW s \in Seq(S), NEW t \in Seq(S)
    PROVE  /\ s \o t \in Seq(S) /\ Len(s \o t) = Len(s) + Len(t)
           /\ \A i \in 1 .. Len(s) : (s \o t)[i] = s[i]
           /\ \A i \in 1 .. Len(t) : (s \o t)[Len(s) + i] = t[i]
OBVIOUS

\* A sequence between two others.
LEMMA MiddleElements ==
    ASSUME NEW S, NEW l \in Seq(S), NEW x \in S, NEW r \in Seq(S)
    PROVE  /\ l \o <<x>> \o r \in Seq(S)
           /\ Len(l \o <<x>> \o r) = Len(l) + 1 + Len(r)
           /\ \A i \in 1 .. Len(l) : (l \o <<x>> \o r)[i] = l[i]
           /\ (l \o <<x>> \o r)[Len(l) + 1] = x
           /\ \A i \in 1 .. Len(r) : (l \o <<x>> \o r)[Len(l) + 1 + i] = r[i]
<1> DEFINE m == l \o <<x>>
<1>1. <<x>> \in Seq(S) /\ Len(<<x>>) = 1 /\ <<x>>[1] = x
  OBVIOUS
<1>2. /\ m \in Seq(S) /\ Len(m) = Len(l) + 1
      /\ \A i \in 1 .. Len(l) : m[i] = l[i]
      /\ m[Len(l) + 1] = x
  OBVIOUS
<1> HIDE DEF m
<1>a. m \in Seq(S) /\ r \in Seq(S)
  BY <1>2
<1>3. /\ m \o r \in Seq(S) /\ Len(m \o r) = Len(m) + Len(r)
      /\ \A i \in 1 .. Len(m) : (m \o r)[i] = m[i]
      /\ \A i \in 1 .. Len(r) : (m \o r)[Len(m) + i] = r[i]
  BY <1>a, JoinElements
<1> DEFINE w == m \o r
<1> HIDE DEF w
<1>4. /\ w \in Seq(S) /\ Len(w) = Len(m) + Len(r)
      /\ \A i \in 1 .. Len(m) : w[i] = m[i]
      /\ \A i \in 1 .. Len(r) : w[Len(m) + i] = r[i]
  BY <1>3 DEF w
<1>5. Len(l) \in Nat /\ Len(r) \in Nat
  OBVIOUS
<1>6. /\ w \in Seq(S)
      /\ Len(w) = Len(l) + 1 + Len(r)
      /\ \A i \in 1 .. Len(l) : w[i] = l[i]
      /\ w[Len(l) + 1] = x
      /\ \A i \in 1 .. Len(r) : w[Len(l) + 1 + i] = r[i]
  BY <1>2, <1>4, <1>5
<1> QED
  BY <1>6 DEF w, m

\* What the array functions return, element by element.
LEMMA InsertElements ==
    ASSUME NEW S, NEW a \in Seq(S), NEW at \in 0 .. Len(a), NEW x \in S
    PROVE  /\ arr_insert_at(a, at, x) \in Seq(S)
           /\ Len(arr_insert_at(a, at, x)) = Len(a) + 1
           /\ arr_insert_at(a, at, x)[at + 1] = x
           /\ \A i \in 1 .. at : arr_insert_at(a, at, x)[i] = a[i]
           /\ \A i \in (at + 1) .. Len(a) : arr_insert_at(a, at, x)[i + 1] = a[i]
<1> DEFINE l == SubSeq(a, 1, at)  r == SubSeq(a, at + 1, Len(a))  w == l \o <<x>> \o r
<1>0. Len(a) \in Nat /\ at \in Nat
  OBVIOUS
<1>1. l \in Seq(S) /\ Len(l) = at /\ \A i \in 1 .. at : l[i] = a[i]
  BY PartElements
<1>2. r \in Seq(S) /\ Len(r) = Len(a) - at /\ \A i \in 1 .. Len(a) - at : r[i] = a[at + i]
  BY PartElements
<1> HIDE DEF l, r
<1>a. l \in Seq(S) /\ r \in Seq(S)
  BY <1>1, <1>2
<1>3. /\ w \in Seq(S)
      /\ Len(w) = Len(l) + 1 + Len(r)
      /\ \A i \in 1 .. Len(l) : w[i] = l[i]
      /\ w[Len(l) + 1] = x
      /\ \A i \in 1 .. Len(r) : w[Len(l) + 1 + i] = r[i]
  BY <1>a, MiddleElements
<1> HIDE DEF w
<1>4. arr_insert_at(a, at, x) = w
  BY DEF arr_insert_at, l, r, w
<1>5. w \in Seq(S) /\ Len(w) = Len(a) + 1 /\ w[at + 1] = x /\ \A i \in 1 .. at : w[i] = a[i]
  BY <1>0, <1>1, <1>2, <1>3
<1>6. ASSUME NEW i \in (at + 1) .. Len(a) PROVE w[i + 1] = a[i]
  <2>1. i - at \in 1 .. Len(r) /\ Len(l) + 1 + (i - at) = i + 1 /\ at + (i - at) = i
    BY <1>0, <1>1, <1>2
  <2>2. w[Len(l) + 1 + (i - at)] = r[i - at] /\ r[i - at] = a[at + (i - at)]
    BY <1>1, <1>2, <1>3, <2>1
  <2> QED
    BY <2>1, <2>2, Zenon
<1> QED
  BY <1>4, <1>5, <1>6

LEMMA ReplaceElements ==
    ASSUME NEW S, NEW a \in Seq(S), NEW at \in 0 .. (Len(a) - 1), NEW x \in S
    PROVE  /\ arr_replace_at(a, at, x) \in Seq(S)
           /\ Len(arr_replace_at(a, at, x)) = Len(a)
           /\ arr_replace_at(a, at, x)[at + 1] = x
           /\ \A i \in DOMAIN a : i # at + 1 => arr_replace_at(a, at, x)[i] = a[i]
<1> DEFINE l == SubSeq(a, 1, at)  r == SubSeq(a, at + 2, Len(a))  w == l \o <<x>> \o r
<1>0. Len(a) \in Nat /\ at \in Nat
  OBVIOUS
<1>1. l \in Seq(S) /\ Len(l) = at /\ \A i \in 1 .. at : l[i] = a[i]
  BY PartElements
<1>2. r \in Seq(S) /\ Len(r) = Len(a) - at - 1 /\ \A i \in 1 .. Len(a) - at - 1 : r[i] = a[at + 1 + i]
  BY PartElements
<1> HIDE DEF l, r
<1>a. l \in Seq(S) /\ r \in Seq(S)
  BY <1>1, <1>2
<1>3. /\ w \in Seq(S)
      /\ Len(w) = Len(l) + 1 + Len(r)
      /\ \A i \in 1 .. Len(l) : w[i] = l[i]
      /\ w[Len(l) + 1] = x
      /\ \A i \in 1 .. Len(r) : w[Len(l) + 1 + i] = r[i]
  BY <1>a, MiddleElements
<1> HIDE DEF w
<1>4. arr_replace_at(a, at, x) = w
  BY DEF arr_replace_at, l, r, w
<1>5. w \in Seq(S) /\ Len(w) = Len(a) /\ w[at + 1] = x /\ \A i \in 1 .. at : w[i] = a[i]
  BY <1>0, <1>1, <1>2, <1>3
<1>6. ASSUME NEW i \in (at + 2) .. Len(a) PROVE w[i] = a[i]
  <2>1. i - at - 1 \in 1 .. Len(r) /\ Len(l) + 1 + (i - at - 1) = i /\ at + 1 + (i - at - 1) = i
    BY <1>0, <1>1, <1>2
  <2>2. w[Len(l) + 1 + (i - at - 1)] = r[i - at - 1] /\ r[i - at - 1] = a[at + 1 + (i - at - 1)]
    BY <1>1, <1>2, <1>3, <2>1
  <2> QED
    BY <2>1, <2>2, Zenon
<1>7. \A i \in DOMAIN a : i # at + 1 => i \in 1 .. at \/ i \in (at + 2) .. Len(a)
  BY <1>0
<1> QED
  BY <1>4, <1>5, <1>6, <1>7, Zenon

LEMMA RemoveElements ==
    ASSUME NEW S, NEW a \in Seq(S), NEW at \in 0 .. (Len(a) - 1)
    PROVE  /\ arr_remove_at(a, at) \in Seq(S)
           /\ Len(arr_remove_at(a, at)) = Len(a) - 1
           /\ \A i \in 1 .. at : arr_remove_at(a, at)[i] = a[i]
           /\ \A i \in (at + 2) .. Len(a) : arr_remove_at(a, at)[i - 1] = a[i]
<1> DEFINE l == SubSeq(a, 1, at)  r == SubSeq(a, at + 2, Len(a))  w == l \o r
<1>0. Len(a) \in Nat /\ at \in Nat
  OBVIOUS
<1>1. l \in Seq(S) /\ Len(l) = at /\ \A i \in 1 .. at : l[i] = a[i]
  BY PartElements
<1>2. r \in Seq(S) /\ Len(r) = Len(a) - at - 1 /\ \A i \in 1 .. Len(a) - at - 1 : r[i] = a[at + 1 + i]
  BY PartElements
<1> HIDE DEF l, r
<1>a. l \in Seq(S) /\ r \in Seq(S)
  BY <1>1, <1>2
<1>3. /\ w \in Seq(S)
      /\ Len(w) = Len(l) + Len(r)
      /\ \A i \in 1 .. Len(l) : w[i] = l[i]
      /\ \A i \in 1 .. Len(r) : w[Len(l) + i] = r[i]
  BY <1>a, JoinElements
<1> HIDE DEF w
<1>4. arr_remove_at(a, at) = w
  BY DEF arr_remove_at, l, r, w
<1>5. w \in Seq(S) /\ Len(w) = Len(a) - 1 /\ \A i \in 1 .. at : w[i] = a[i]
  BY <1>0, <1>1, <1>2, <1>3
<1>6. ASSUME NEW i \in (at + 2) .. Len(a) PROVE w[i - 1] = a[i]
  <2>0. Len(r) = Len(a) - at - 1 /\ Len(l) = at
    BY <1>1, <1>2
  <2>1. i - at - 1 \in 1 .. Len(r) /\ Len(l) + (i - at - 1) = i - 1 /\ at + 1 + (i - at - 1) = i
    BY <1>0, <2>0
  <2>2. w[Len(l) + (i - at - 1)] = r[i - at - 1] /\ r[i - at - 1] = a[at + 1 + (i - at - 1)]
    BY <1>1, <1>2, <1>3, <2>1
  <2> QED
    BY <2>1, <2>2, Zenon
<1> QED
  BY <1>4, <1>5, <1>6

-----------------------------------------------------------------------------
(***************************************************************************)
(* A node as a function from the fragments of its bitmap to slots.         *)
(***************************************************************************)
NodesOf(S) == {n \in [type : {"node"}, bitmap : SUBSET Frags, entries : Seq(S)] :
                 Cardinality(n.bitmap) = Len(n.entries)}
At(n, f) == n.entries[popcount(n.bitmap, f) + 1]

LEMMA NodeFields ==
    ASSUME NEW S, NEW n \in NodesOf(S)
    PROVE  /\ n.type = "node" /\ n.bitmap \in SUBSET Frags /\ n.entries \in Seq(S)
           /\ Cardinality(n.bitmap) = Len(n.entries)
           /\ n = Node(n.bitmap, n.entries)
BY DEF NodesOf, Node

LEMMA NodeIs ==
    ASSUME NEW S, NEW B \in SUBSET Frags, NEW a \in Seq(S), Cardinality(B) = Len(a)
    PROVE  Node(B, a) \in NodesOf(S) /\ Node(B, a).bitmap = B /\ Node(B, a).entries = a
BY DEF NodesOf, Node

LEMMA AtType ==
    ASSUME NEW S, NEW n \in NodesOf(S), NEW f \in n.bitmap
    PROVE  /\ At(n, f) \in S
           /\ f \in Frags
           /\ popcount(n.bitmap, f) \in 0 .. (Len(n.entries) - 1)
<1>1. n.bitmap \in SUBSET Frags /\ n.entries \in Seq(S) /\ Cardinality(n.bitmap) = Len(n.entries)
  BY NodeFields
<1>2. popcount(n.bitmap, f) \in Nat /\ popcount(n.bitmap, f) < Cardinality(n.bitmap)
  BY <1>1, PopPlace
<1> QED
  BY <1>1, <1>2 DEF At

\* A node with a slot at a new fragment, and with a fragment less.
Inserted(n, f, x) == Node(n.bitmap \cup {f}, arr_insert_at(n.entries, popcount(n.bitmap, f), x))
Removed(n, f) == Node(n.bitmap \ {f}, arr_remove_at(n.entries, popcount(n.bitmap, f)))

\* A slot at a new fragment.
LEMMA AtInserted ==
    ASSUME NEW S, NEW n \in NodesOf(S), NEW f \in Frags, f \notin n.bitmap, NEW x \in S,
           NEW m, m = Inserted(n, f, x)
    PROVE  /\ m \in NodesOf(S)
           /\ m.bitmap = n.bitmap \cup {f}
           /\ At(m, f) = x
           /\ \A g \in n.bitmap : At(m, g) = At(n, g)
<1> DEFINE B == n.bitmap   a == n.entries   p == popcount(B, f)   w == arr_insert_at(a, p, x)
<1>1. B \in SUBSET Frags /\ a \in Seq(S) /\ Cardinality(B) = Len(a) /\ f \notin B
  BY NodeFields
<1> HIDE DEF B, a
<1>2. p \in 0 .. Len(a)
  <2>1. p \in Nat /\ p <= Cardinality(B) /\ Cardinality(B) \in Nat
    BY <1>1, PopFinite
  <2> QED
    BY <1>1, <2>1
<1>3. /\ w \in Seq(S) /\ Len(w) = Len(a) + 1 /\ w[p + 1] = x
      /\ \A i \in 1 .. p : w[i] = a[i]
      /\ \A i \in (p + 1) .. Len(a) : w[i + 1] = a[i]
  <2>1. a \in Seq(S) /\ p \in 0 .. Len(a) /\ x \in S
    BY <1>1, <1>2
  <2> HIDE DEF p, w
  <2>2. arr_insert_at(a, p, x) \in Seq(S) /\ Len(arr_insert_at(a, p, x)) = Len(a) + 1
    BY <2>1, InsertElements
  <2>3. arr_insert_at(a, p, x)[p + 1] = x
    BY <2>1, InsertElements
  <2>4. \A i \in 1 .. p : arr_insert_at(a, p, x)[i] = a[i]
    BY <2>1, InsertElements
  <2>5. \A i \in (p + 1) .. Len(a) : arr_insert_at(a, p, x)[i + 1] = a[i]
    BY <2>1, InsertElements
  <2> QED
    BY <2>2, <2>3, <2>4, <2>5, Zenon DEF w
<1>4. Cardinality(B \cup {f}) = Cardinality(B) + 1 /\ popcount(B \cup {f}, f) = p
  <2>1. f \in Nat /\ p \in Nat
    BY <1>2, FragsFinite
  <2>2. ~(f < f)
    BY <2>1
  <2>3. popcount(B \cup {f}, f) = p + 0
    BY <1>1, <2>2, PopInsert, Zenon
  <2>4. Cardinality(B \cup {f}) = Cardinality(B) + 1
    BY <1>1, PopInsert
  <2> QED
    BY <2>1, <2>3, <2>4
<1>5. m = Node(B \cup {f}, w)
  BY Zenon DEF B, a, Inserted
<1>6. B \cup {f} \in SUBSET Frags /\ Cardinality(B \cup {f}) = Len(w)
  BY <1>1, <1>3, <1>4
<1> HIDE DEF w
<1>7. m \in NodesOf(S) /\ m.bitmap = B \cup {f} /\ m.entries = w
  <2>1. w \in Seq(S)
    BY <1>3
  <2> DEFINE C == B \cup {f}
  <2>2. C \in SUBSET Frags /\ Cardinality(C) = Len(w)
    BY <1>6
  <2> HIDE DEF C
  <2>3. Node(C, w) \in NodesOf(S) /\ Node(C, w).bitmap = C /\ Node(C, w).entries = w
    BY <2>1, <2>2, NodeIs
  <2> QED
    BY <1>5, <2>3, Zenon DEF C
<1>8. At(m, f) = x
  BY <1>3, <1>4, <1>7, Zenon DEF At
<1>9. ASSUME NEW g \in B PROVE At(m, g) = a[popcount(B, g) + 1]
  <2>1. g \in Frags /\ g \in Nat /\ f \in Nat /\ g # f
    BY <1>1, FragsFinite
  <2>2. popcount(B, g) \in Nat /\ popcount(B, g) < Cardinality(B)
    BY <1>1, PopPlace
  <2>3. popcount(B \cup {f}, g) = popcount(B, g) + IF f < g THEN 1 ELSE 0
    BY <1>1, <2>1, PopInsert, Zenon
  <2> DEFINE q == popcount(B, g)
  <2>4. CASE f < g
    <3>1. p <= q /\ popcount(B \cup {f}, g) = q + 1
      BY <1>1, <2>1, <2>3, <2>4, PopUpTo, Zenon
    <3>2. q + 1 \in (p + 1) .. Len(a)
      BY <1>1, <1>2, <2>2, <3>1
    <3>3. w[q + 1 + 1] = a[q + 1]
      BY <1>3, <3>2, Zenon
    <3> QED
      BY <1>7, <3>1, <3>3, Zenon DEF At
  <2>5. CASE g < f
    <3>1. q < p
      BY <1>1, <2>1, <2>5, PopBelow, Zenon
    <3>2. popcount(B \cup {f}, g) = q
      BY <2>1, <2>2, <2>3, <2>5
    <3>3. q + 1 \in 1 .. p
      BY <1>2, <2>2, <3>1
    <3>4. w[q + 1] = a[q + 1]
      BY <1>3, <3>3, Zenon
    <3> QED
      BY <1>7, <3>2, <3>4, Zenon DEF At
  <2> QED
    BY <2>1, <2>4, <2>5
<1> QED
  BY <1>7, <1>8, <1>9, Zenon DEF At, B, a

\* Another slot at a fragment.
LEMMA AtReplaced ==
    ASSUME NEW S, NEW n \in NodesOf(S), NEW f \in n.bitmap, NEW x \in S,
           NEW m, m = Node(n.bitmap, arr_replace_at(n.entries, popcount(n.bitmap, f), x))
    PROVE  /\ m \in NodesOf(S)
           /\ m.bitmap = n.bitmap
           /\ At(m, f) = x
           /\ \A g \in n.bitmap : g # f => At(m, g) = At(n, g)
<1> DEFINE B == n.bitmap   a == n.entries   p == popcount(B, f)   w == arr_replace_at(a, p, x)
<1>1. B \in SUBSET Frags /\ a \in Seq(S) /\ Cardinality(B) = Len(a) /\ f \in B
  BY NodeFields
<1>2. p \in 0 .. (Len(a) - 1)
  BY AtType
<1> HIDE DEF B, a
<1>3. /\ w \in Seq(S) /\ Len(w) = Len(a) /\ w[p + 1] = x
      /\ \A i \in DOMAIN a : i # p + 1 => w[i] = a[i]
  BY <1>1, <1>2, ReplaceElements
<1> HIDE DEF w
<1>4. m = Node(B, w)
  BY Zenon DEF B, a, w
<1>5. m \in NodesOf(S) /\ m.bitmap = B /\ m.entries = w
  BY <1>1, <1>3, <1>4, NodeIs
<1>6. At(m, f) = x
  BY <1>3, <1>5, Zenon DEF At
<1>7. ASSUME NEW g \in B, g # f PROVE At(m, g) = a[popcount(B, g) + 1]
  <2> DEFINE q == popcount(B, g)
  <2>1. q \in Nat /\ q < Cardinality(B) /\ p \in Nat /\ q # p
    BY <1>1, <1>7, PopPlace
  <2>2. q + 1 \in DOMAIN a /\ q + 1 # p + 1
    BY <1>1, <2>1
  <2> QED
    BY <1>3, <1>5, <2>2, Zenon DEF At
<1> QED
  BY <1>5, <1>6, <1>7, Zenon DEF At, B, a

\* A fragment less.
LEMMA AtRemoved ==
    ASSUME NEW S, NEW n \in NodesOf(S), NEW f \in n.bitmap,
           NEW m, m = Removed(n, f)
    PROVE  /\ m \in NodesOf(S)
           /\ m.bitmap = n.bitmap \ {f}
           /\ \A g \in n.bitmap \ {f} : At(m, g) = At(n, g)
<1> DEFINE B == n.bitmap   a == n.entries   p == popcount(B, f)   w == arr_remove_at(a, p)
           A == B \ {f}
<1>1. B \in SUBSET Frags /\ a \in Seq(S) /\ Cardinality(B) = Len(a) /\ f \in B
  BY NodeFields
<1>2. p \in 0 .. (Len(a) - 1)
  BY AtType
<1> HIDE DEF B, a
<1>3. /\ w \in Seq(S) /\ Len(w) = Len(a) - 1
      /\ \A i \in 1 .. p : w[i] = a[i]
      /\ \A i \in (p + 2) .. Len(a) : w[i - 1] = a[i]
  BY <1>1, <1>2, RemoveElements
<1>4. A \in SUBSET Frags /\ f \notin A /\ f \in Frags /\ B = A \cup {f}
  BY <1>1
<1> HIDE DEF A
<1>5. Cardinality(A) \in Nat /\ Cardinality(B) = Cardinality(A) + 1
  BY <1>4, PopInsert, PopFinite, Zenon
<1>6. Cardinality(A) = Len(w)
  BY <1>1, <1>3, <1>5
<1> HIDE DEF w
<1>7. m = Node(A, w)
  BY Zenon DEF B, a, w, A, Removed
<1>8. m \in NodesOf(S) /\ m.bitmap = A /\ m.entries = w
  BY <1>3, <1>4, <1>6, <1>7, NodeIs
<1>9. ASSUME NEW g \in A PROVE At(m, g) = a[popcount(B, g) + 1]
  <2> DEFINE q == popcount(A, g)   r == popcount(B, g)
  <2>1. g \in Frags /\ g \in Nat /\ f \in Nat /\ g # f /\ g \in B
    BY <1>4, FragsFinite
  <2>2. q \in Nat /\ r \in Nat /\ r < Cardinality(B)
    BY <1>1, <1>4, <2>1, PopPlace
  <2>3. r = q + IF f < g THEN 1 ELSE 0
    BY <1>4, <2>1, PopInsert, Zenon
  <2>4. CASE f < g
    <3>1. p < r
      BY <1>1, <1>4, <2>1, <2>4, PopBelow, Zenon
    <3> HIDE DEF r, q
    <3>2. r = q + 1
      BY <2>3, <2>4
    <3> DEFINE i == r + 1
    <3>3. i \in (p + 2) .. Len(a) /\ i - 1 = q + 1
      BY <1>1, <1>2, <2>2, <3>1, <3>2
    <3> HIDE DEF i
    <3>4. w[i - 1] = a[i]
      BY <1>3, <3>3, Zenon
    <3> QED
      BY <1>8, <3>3, <3>4, Zenon DEF At, r, q, i
  <2>5. CASE g < f
    <3>1. r < p
      BY <1>1, <1>4, <2>1, <2>5, PopBelow, Zenon
    <3> HIDE DEF r, q
    <3>2. r = q
      BY <2>1, <2>2, <2>3, <2>5
    <3>3. r + 1 \in 1 .. p
      BY <1>2, <2>2, <3>1
    <3>4. w[r + 1] = a[r + 1]
      BY <1>3, <3>3, Zenon
    <3> QED
      BY <1>8, <3>2, <3>4, Zenon DEF At, r, q
  <2> QED
    BY <2>1, <2>4, <2>5
<1> QED
  BY <1>8, <1>9, Zenon DEF At, A, B, a

-----------------------------------------------------------------------------
(***************************************************************************)
(* Nodes by the number of their levels.                                    *)
(***************************************************************************)
Slots(l) == EntryType \cup CollisionType \cup NodeType[l - 1]

LEMMA NoLevels == NodeType[0] = {}
<1>1. NodeType[0] = TypeBody(NodeType, 0)
  BY NodeTypeIs
<1> QED
  BY <1>1 DEF TypeBody

LEMMA NodeTypeNodes ==
    ASSUME NEW l \in Nat \ {0}
    PROVE  NodeType[l] = NodesOf(Slots(l))
<1>1. NodeType[l] = TypeBody(NodeType, l)
  BY NodeTypeIs
<1>2. l # 0
  OBVIOUS
<1> QED
  BY <1>1, <1>2, Zenon DEF TypeBody, NodesOf, Slots

LEMMA NodeIsNode ==
    ASSUME NEW l \in Nat, NEW n \in NodeType[l]
    PROVE  l # 0 /\ n.type = "node" /\ n \in NodesOf(Slots(l))
<1>1. l # 0
  BY NoLevels
<1>2. n \in NodesOf(Slots(l))
  BY <1>1, NodeTypeNodes
<1> QED
  BY <1>1, <1>2, NodeFields

LEMMA SlotKinds ==
    ASSUME NEW l \in Nat \ {0}, NEW slot \in Slots(l)
    PROVE  \/ slot.type = "entry" /\ slot \in EntryType
           \/ slot.type = "collision" /\ slot \in CollisionType
           \/ slot.type = "node" /\ slot \in NodeType[l - 1] /\ l - 1 \in Nat \ {0}
<1>1. CASE slot \in EntryType
  BY <1>1 DEF EntryType
<1>2. CASE slot \in CollisionType
  BY <1>2 DEF CollisionType
<1>3. CASE slot \in NodeType[l - 1]
  <2>1. l - 1 \in Nat
    OBVIOUS
  <2> QED
    BY <1>3, <2>1, NodeIsNode
<1> QED
  BY <1>1, <1>2, <1>3 DEF Slots

LEMMA NodesOfMono ==
    ASSUME NEW S, NEW T, S \subseteq T
    PROVE  NodesOf(S) \subseteq NodesOf(T)
<1> SUFFICES ASSUME NEW n \in NodesOf(S) PROVE n \in NodesOf(T)
  OBVIOUS
<1>1. n \in [type : {"node"}, bitmap : SUBSET Frags, entries : Seq(S)] /\ Cardinality(n.bitmap) = Len(n.entries)
  BY DEF NodesOf
<1>2. n.entries \in Seq(T)
  BY <1>1
<1> QED
  BY <1>1, <1>2 DEF NodesOf

LEMMA NodeTypeGrows == \A l \in Nat : NodeType[l] \subseteq NodeType[l + 1]
<1> DEFINE S == {l \in Nat : NodeType[l] \subseteq NodeType[l + 1]}
<1>1. 0 \in S
  BY NoLevels
<1>2. ASSUME NEW l \in Nat, l \in S PROVE l + 1 \in S
  <2>1. l + 1 \in Nat \ {0} /\ l + 1 + 1 \in Nat \ {0} /\ l + 1 - 1 = l /\ l + 1 + 1 - 1 = l + 1
    OBVIOUS
  <2>2. Slots(l + 1) \subseteq Slots(l + 1 + 1)
    BY <1>2, <2>1 DEF Slots
  <2>3. NodesOf(Slots(l + 1)) \subseteq NodesOf(Slots(l + 1 + 1))
    BY <2>2, NodesOfMono
  <2> QED
    BY <2>1, <2>3, NodeTypeNodes
<1> HIDE DEF S
<1>3. \A l \in Nat : l \in S
  BY <1>1, <1>2, Types!NatInduct
<1> QED
  BY <1>3 DEF S

LEMMA NodeTypeUpTo ==
    ASSUME NEW l \in Nat, NEW m \in Nat, l <= m
    PROVE  NodeType[l] \subseteq NodeType[m]
<1> DEFINE S == {i \in Nat : NodeType[l] \subseteq NodeType[l + i]}
<1>1. 0 \in S
  <2>1. l + 0 = l
    OBVIOUS
  <2> QED
    BY <2>1
<1>2. ASSUME NEW i \in Nat, i \in S PROVE i + 1 \in S
  <2>1. l + i \in Nat /\ l + (i + 1) = l + i + 1 /\ i + 1 \in Nat
    OBVIOUS
  <2>2. NodeType[l + i] \subseteq NodeType[l + i + 1]
    BY <2>1, NodeTypeGrows
  <2>3. NodeType[l] \subseteq NodeType[l + (i + 1)]
    BY <1>2, <2>1, <2>2, Zenon
  <2> QED
    BY <2>1, <2>3
<1> HIDE DEF S
<1>3. \A i \in Nat : i \in S
  BY <1>1, <1>2, Types!NatInduct
<1>4. m - l \in Nat /\ l + (m - l) = m
  OBVIOUS
<1>5. NodeType[l] \subseteq NodeType[l + (m - l)]
  BY <1>3, <1>4, Zenon DEF S
<1> QED
  BY <1>4, <1>5, Zenon

\* The calls on a node with enough levels.
LEMMA CallIs ==
    ASSUME NEW l \in 1 .. Levels, NEW n \in NodeType[l], NEW h \in Hashes, NEW k \in Keys
    PROVE  [node |-> n, depth |-> Levels - l, hash |-> h, key |-> k] \in Calls
<1>1. Levels \in Nat /\ l \in Nat /\ l <= Levels /\ Levels - l \in 0 .. Levels - 1 /\ Levels - (Levels - l) = l
  BY LevelsType
<1>2. n \in NodeType[Levels]
  BY <1>1, NodeTypeUpTo
<1> QED
  BY <1>1, <1>2 DEF Calls

LEMMA SetCallIs ==
    ASSUME NEW l \in 1 .. Levels, NEW n \in NodeType[l], NEW h \in Hashes, NEW k \in Keys, NEW x \in Values
    PROVE  [node |-> n, depth |-> Levels - l, hash |-> h, key |-> k, val |-> x] \in SetCalls
<1>1. Levels \in Nat /\ l \in Nat /\ l <= Levels /\ Levels - l \in 0 .. Levels - 1 /\ Levels - (Levels - l) = l
  BY LevelsType
<1>2. n \in NodeType[Levels]
  BY <1>1, NodeTypeUpTo
<1> QED
  BY <1>1, <1>2 DEF SetCalls

-----------------------------------------------------------------------------
(***************************************************************************)
(* What one call of get, set and remove does.                              *)
(***************************************************************************)
CallRank(c) == Levels - c.depth
Frag(c) == fragment(c.hash, c.depth)

LEMMA CallFields ==
    ASSUME NEW c \in Calls
    PROVE  /\ c.depth \in 0 .. Levels - 1 /\ c.hash \in Hashes /\ c.key \in Keys
           /\ CallRank(c) \in Nat \ {0} /\ CallRank(c) <= Levels
           /\ c.node \in NodesOf(Slots(CallRank(c)))
           /\ Frag(c) \in Frags
           /\ c = [node |-> c.node, depth |-> c.depth, hash |-> c.hash, key |-> c.key]
<1>1. /\ c \in [node : NodeType[Levels], depth : 0 .. Levels - 1, hash : Hashes, key : Keys]
      /\ c.node \in NodeType[Levels - c.depth]
  BY DEF Calls
<1>2. c.depth \in 0 .. Levels - 1 /\ c.hash \in Hashes /\ c.key \in Keys
  BY <1>1
<1>3. CallRank(c) \in Nat \ {0} /\ c.depth \in Nat /\ CallRank(c) <= Levels
  BY <1>2, LevelsType DEF CallRank
<1>4. c.node \in NodesOf(Slots(CallRank(c)))
  BY <1>1, <1>3, NodeTypeNodes, Zenon DEF CallRank
<1>5. Frag(c) \in Frags
  BY <1>2, <1>3, FragmentType DEF Frag
<1>6. c = [node |-> c.node, depth |-> c.depth, hash |-> c.hash, key |-> c.key]
  BY <1>1
<1> QED
  BY <1>2, <1>3, <1>4, <1>5, <1>6

LEMMA SetCallFields ==
    ASSUME NEW c \in SetCalls
    PROVE  /\ c.depth \in 0 .. Levels - 1 /\ c.hash \in Hashes /\ c.key \in Keys /\ c.val \in Values
           /\ CallRank(c) \in Nat \ {0} /\ CallRank(c) <= Levels
           /\ c.node \in NodesOf(Slots(CallRank(c)))
           /\ Frag(c) \in Frags
           /\ c = [node |-> c.node, depth |-> c.depth, hash |-> c.hash, key |-> c.key, val |-> c.val]
<1>1. /\ c \in [node : NodeType[Levels], depth : 0 .. Levels - 1, hash : Hashes, key : Keys, val : Values]
      /\ c.node \in NodeType[Levels - c.depth]
  BY DEF SetCalls
<1>2. c.depth \in 0 .. Levels - 1 /\ c.hash \in Hashes /\ c.key \in Keys /\ c.val \in Values
  BY <1>1
<1>3. CallRank(c) \in Nat \ {0} /\ c.depth \in Nat /\ CallRank(c) <= Levels
  BY <1>2, LevelsType DEF CallRank
<1>4. c.node \in NodesOf(Slots(CallRank(c)))
  BY <1>1, <1>3, NodeTypeNodes, Zenon DEF CallRank
<1>5. Frag(c) \in Frags
  BY <1>2, <1>3, FragmentType DEF Frag
<1>6. c = [node |-> c.node, depth |-> c.depth, hash |-> c.hash, key |-> c.key, val |-> c.val]
  BY <1>1
<1> QED
  BY <1>2, <1>3, <1>4, <1>5, <1>6

\* The slot that a call looks at, by its kind.
LEMMA SlotOf ==
    ASSUME NEW r \in Nat \ {0}, NEW n \in NodesOf(Slots(r)), NEW f \in n.bitmap
    PROVE  LET slot == n.entries[popcount(n.bitmap, f) + 1]
           IN /\ slot = At(n, f)
              /\ popcount(n.bitmap, f) \in 0 .. (Len(n.entries) - 1)
              /\ \/ slot.type = "entry" /\ slot \in EntryType
                 \/ slot.type = "collision" /\ slot \in CollisionType
                 \/ slot.type = "node" /\ slot \in NodeType[r - 1] /\ r - 1 \in Nat \ {0}
<1>1. At(n, f) \in Slots(r) /\ popcount(n.bitmap, f) \in 0 .. (Len(n.entries) - 1)
  BY AtType
<1>2. n.entries[popcount(n.bitmap, f) + 1] = At(n, f)
  BY DEF At
<1> DEFINE slot == n.entries[popcount(n.bitmap, f) + 1]
<1>3. slot \in Slots(r) /\ slot = At(n, f)
  BY <1>1, <1>2
<1> HIDE DEF slot
<1>4. \/ slot.type = "entry" /\ slot \in EntryType
      \/ slot.type = "collision" /\ slot \in CollisionType
      \/ slot.type = "node" /\ slot \in NodeType[r - 1] /\ r - 1 \in Nat \ {0}
  BY <1>3, SlotKinds
<1> QED
  BY <1>1, <1>3, <1>4, Zenon DEF slot

\* A call one level down.
LEMMA BelowIs ==
    ASSUME NEW c \in Calls, NEW s \in NodeType[CallRank(c) - 1], CallRank(c) - 1 # 0
    PROVE  /\ Below(c, s) \in Calls
           /\ CallRank(Below(c, s)) = CallRank(c) - 1
           /\ Below(c, s) = [node |-> s, depth |-> c.depth + 1, hash |-> c.hash, key |-> c.key]
<1> DEFINE l == CallRank(c) - 1
<1>1. /\ c.depth \in 0 .. Levels - 1 /\ c.hash \in Hashes /\ c.key \in Keys
      /\ CallRank(c) \in Nat \ {0} /\ CallRank(c) <= Levels
      /\ c = [node |-> c.node, depth |-> c.depth, hash |-> c.hash, key |-> c.key]
  BY CallFields
<1>2. l \in 1 .. Levels /\ Levels - l = c.depth + 1
  BY <1>1, LevelsType DEF CallRank
<1>3. Below(c, s) = [node |-> s, depth |-> c.depth + 1, hash |-> c.hash, key |-> c.key]
  BY DEF Below
<1> HIDE DEF l
<1>4. s \in NodeType[l]
  BY DEF l
<1>5. [node |-> s, depth |-> Levels - l, hash |-> c.hash, key |-> c.key] \in Calls
  BY <1>1, <1>2, <1>4, CallIs
<1>6. Below(c, s) \in Calls
  BY <1>2, <1>3, <1>5, Zenon
<1>7. Below(c, s).depth = c.depth + 1
  BY <1>3
<1>8. CallRank(Below(c, s)) = CallRank(c) - 1
  BY <1>1, <1>7, LevelsType DEF CallRank
<1> QED
  BY <1>3, <1>6, <1>8

LEMMA SetBelowIs ==
    ASSUME NEW c \in SetCalls, NEW s \in NodeType[CallRank(c) - 1], CallRank(c) - 1 # 0
    PROVE  /\ SetBelow(c, s) \in SetCalls
           /\ CallRank(SetBelow(c, s)) = CallRank(c) - 1
           /\ SetBelow(c, s) = [node |-> s, depth |-> c.depth + 1, hash |-> c.hash, key |-> c.key, val |-> c.val]
<1> DEFINE l == CallRank(c) - 1
<1>1. /\ c.depth \in 0 .. Levels - 1 /\ c.hash \in Hashes /\ c.key \in Keys /\ c.val \in Values
      /\ CallRank(c) \in Nat \ {0} /\ CallRank(c) <= Levels
      /\ c = [node |-> c.node, depth |-> c.depth, hash |-> c.hash, key |-> c.key, val |-> c.val]
  BY SetCallFields
<1>2. l \in 1 .. Levels /\ Levels - l = c.depth + 1
  BY <1>1, LevelsType DEF CallRank
<1>3. SetBelow(c, s) = [node |-> s, depth |-> c.depth + 1, hash |-> c.hash, key |-> c.key, val |-> c.val]
  BY DEF SetBelow
<1> HIDE DEF l
<1>4. s \in NodeType[l]
  BY DEF l
<1>5. [node |-> s, depth |-> Levels - l, hash |-> c.hash, key |-> c.key, val |-> c.val] \in SetCalls
  BY <1>1, <1>2, <1>4, SetCallIs
<1>6. SetBelow(c, s) \in SetCalls
  BY <1>2, <1>3, <1>5, Zenon
<1>7. SetBelow(c, s).depth = c.depth + 1
  BY <1>3
<1>8. CallRank(SetBelow(c, s)) = CallRank(c) - 1
  BY <1>1, <1>7, LevelsType DEF CallRank
<1> QED
  BY <1>3, <1>6, <1>8

GetBody(g, c) ==
  LET n == c.node
      frag == fragment(c.hash, c.depth)
      idx == popcount(n.bitmap, frag)
      slot == n.entries[idx + 1]
  IN IF n = Null \/ c.depth >= Levels \/ frag \notin n.bitmap \/ idx >= Len(n.entries) THEN NoValue
     ELSE get_at_slot(slot, c, g[Below(c, slot)])

Gets == INSTANCE RecursiveFunctions WITH D <- Calls, Rank <- CallRank, Body <- GetBody

LEMMA NullNode == Null.bitmap = {} /\ Null.entries = <<>> /\ Null.type = "node" /\ Len(Null.entries) = 0
BY DEF Null, Node

\* What get does at a node, case by case.
LEMMA GetCases ==
    ASSUME NEW c \in Calls, NEW g
    PROVE  /\ Frag(c) \notin c.node.bitmap => GetBody(g, c) = NoValue
           /\ Frag(c) \in c.node.bitmap =>
                LET slot == At(c.node, Frag(c))
                IN /\ slot.type = "entry" =>
                        GetBody(g, c) = IF slot.hash = c.hash /\ slot.key = c.key THEN slot.val ELSE NoValue
                   /\ slot.type = "node" => GetBody(g, c) = g[Below(c, slot)]
                   /\ slot.type = "collision" => GetBody(g, c) = collision_get(slot, c.key)
<1> DEFINE n == c.node
           f == Frag(c)
           idx == popcount(n.bitmap, f)
           slot == n.entries[idx + 1]
<1>1. /\ c.depth \in 0 .. Levels - 1
      /\ CallRank(c) \in Nat \ {0}
      /\ n \in NodesOf(Slots(CallRank(c)))
  BY CallFields
<1>2. ~(c.depth >= Levels)
  BY <1>1, LevelsType
<1>3. fragment(c.hash, c.depth) = f
  BY DEF Frag
<1>4. CASE f \notin n.bitmap
  BY <1>3, <1>4, Zenon DEF GetBody
<1>5. CASE f \in n.bitmap
  <2>1. slot = At(n, f) /\ idx \in 0 .. (Len(n.entries) - 1)
    BY <1>1, <1>5, SlotOf, Zenon
  <2>2. n # Null
    BY <1>5, NullNode, Zenon
  <2>3. n.entries \in Seq(Slots(CallRank(c)))
    BY <1>1, NodeFields
  <2>4. ~(idx >= Len(n.entries))
    BY <2>1, <2>3
  <2>5. GetBody(g, c) = get_at_slot(slot, c, g[Below(c, slot)])
    BY <1>2, <1>3, <1>5, <2>2, <2>4, Zenon DEF GetBody
  <2> HIDE DEF slot
  <2>6. /\ slot.type = "entry" =>
             GetBody(g, c) = IF slot.hash = c.hash /\ slot.key = c.key THEN slot.val ELSE NoValue
        /\ slot.type = "node" => GetBody(g, c) = g[Below(c, slot)]
        /\ slot.type = "collision" => GetBody(g, c) = collision_get(slot, c.key)
    BY <2>5 DEF get_at_slot
  <2> QED
    BY <1>5, <2>1, <2>6, Zenon
<1> QED
  BY <1>4, <1>5

LEMMA GetIs == \A c \in Calls : get_from[c] = GetBody(get_from, c)
<1>1. get_from = CHOOSE g : g = [c \in Calls |-> GetBody(g, c)]
  BY Zenon DEF get_from, GetBody
<1>2. Gets!Ranked
  <2> SUFFICES ASSUME NEW c \in Calls PROVE CallRank(c) \in Nat
    BY Zenon DEF Gets!Ranked
  <2> QED
    BY CallFields
<1>3. Gets!Local
  <2> SUFFICES ASSUME NEW g, NEW h, NEW c \in Calls,
                      \A t \in Calls : CallRank(t) < CallRank(c) => g[t] = h[t]
               PROVE  GetBody(g, c) = GetBody(h, c)
    BY Zenon DEF Gets!Local
  <2>1. CASE Frag(c) \notin c.node.bitmap
    BY <2>1, GetCases, Zenon
  <2>2. CASE Frag(c) \in c.node.bitmap
    <3> DEFINE slot == At(c.node, Frag(c))
    <3>1. CallRank(c) \in Nat \ {0} /\ c.node \in NodesOf(Slots(CallRank(c)))
      BY CallFields
    <3>2. slot \in Slots(CallRank(c))
      BY <2>2, <3>1, AtType
    <3>3. /\ slot.type = "entry" =>
               GetBody(g, c) = IF slot.hash = c.hash /\ slot.key = c.key THEN slot.val ELSE NoValue
          /\ slot.type = "node" => GetBody(g, c) = g[Below(c, slot)]
          /\ slot.type = "collision" => GetBody(g, c) = collision_get(slot, c.key)
      BY <2>2, GetCases, Zenon
    <3>4. /\ slot.type = "entry" =>
               GetBody(h, c) = IF slot.hash = c.hash /\ slot.key = c.key THEN slot.val ELSE NoValue
          /\ slot.type = "node" => GetBody(h, c) = h[Below(c, slot)]
          /\ slot.type = "collision" => GetBody(h, c) = collision_get(slot, c.key)
      BY <2>2, GetCases, Zenon
    <3> HIDE DEF slot
    <3>5. CASE slot.type = "node" /\ slot \in NodeType[CallRank(c) - 1] /\ CallRank(c) - 1 \in Nat \ {0}
      <4>1. Below(c, slot) \in Calls /\ CallRank(Below(c, slot)) = CallRank(c) - 1
        BY <3>5, BelowIs
      <4>2. CallRank(Below(c, slot)) < CallRank(c)
        BY <3>1, <4>1
      <4>3. g[Below(c, slot)] = h[Below(c, slot)]
        BY <4>1, <4>2, Zenon
      <4> QED
        BY <3>3, <3>4, <3>5, <4>3, Zenon
    <3>6. CASE slot.type = "entry"
      BY <3>3, <3>4, <3>6, Zenon
    <3>7. CASE slot.type = "collision"
      BY <3>3, <3>4, <3>7, Zenon
    <3> QED
      BY <3>1, <3>2, <3>5, <3>6, <3>7, SlotKinds
  <2> QED
    BY <2>1, <2>2
<1> QED
  BY <1>1, <1>2, <1>3, Gets!RecursiveFunction, Zenon

SetBody(g, c) ==
  LET n == c.node
      frag == fragment(c.hash, c.depth)
      idx == popcount(n.bitmap, frag)
      slot == n.entries[idx + 1]
      alone == set_at_null(slot.hash, c.depth + 1, slot.key, slot.val)
      changed == set_at_slot(slot, c, g[SetBelow(c, alone)], g[SetBelow(c, slot)])
  IN IF n = Null THEN set_at_null(c.hash, c.depth, c.key, c.val)
     ELSE IF frag \notin n.bitmap
     THEN Node(n.bitmap \cup {frag}, arr_insert_at(n.entries, idx, Entry(c.key, c.val)))
     ELSE IF idx >= Len(n.entries) THEN Node(n.bitmap, Append(n.entries, Entry(c.key, c.val)))
     ELSE Node(n.bitmap, arr_replace_at(n.entries, idx, changed))

Sets == INSTANCE RecursiveFunctions WITH D <- SetCalls, Rank <- CallRank, Body <- SetBody

\* The slot that set puts at a fragment.
NewSlot(g, c) ==
  LET slot == At(c.node, Frag(c))
      alone == set_at_null(slot.hash, c.depth + 1, slot.key, slot.val)
  IN set_at_slot(slot, c, g[SetBelow(c, alone)], g[SetBelow(c, slot)])

\* What set does at a node: it inserts at a fragment or replaces there.
LEMMA SetCases ==
    ASSUME NEW c \in SetCalls, NEW g
    PROVE  LET n == c.node
               f == Frag(c)
           IN /\ f \notin n.bitmap =>
                   SetBody(g, c) = Node(n.bitmap \cup {f},
                                        arr_insert_at(n.entries, popcount(n.bitmap, f), Entry(c.key, c.val)))
              /\ f \in n.bitmap =>
                   SetBody(g, c) = Node(n.bitmap, arr_replace_at(n.entries, popcount(n.bitmap, f), NewSlot(g, c)))
<1> DEFINE n == c.node
           f == Frag(c)
           idx == popcount(n.bitmap, f)
<1>1. /\ CallRank(c) \in Nat \ {0}
      /\ n \in NodesOf(Slots(CallRank(c)))
      /\ f \in Frags
  BY SetCallFields
<1>2. fragment(c.hash, c.depth) = f
  BY DEF Frag
<1>3. CASE f \in n.bitmap
  <2>1. idx \in 0 .. (Len(n.entries) - 1)
    BY <1>1, <1>3, SlotOf, Zenon
  <2>2. n # Null
    BY <1>3, NullNode, Zenon
  <2>3. n.entries \in Seq(Slots(CallRank(c)))
    BY <1>1, NodeFields
  <2>4. ~(idx >= Len(n.entries))
    BY <2>1, <2>3
  <2> QED
    BY <1>2, <1>3, <2>2, <2>4, Zenon DEF SetBody, NewSlot, At
<1>4. CASE f \notin n.bitmap /\ n # Null
  BY <1>2, <1>4, Zenon DEF SetBody
<1>5. CASE n = Null
  <2>1. n.bitmap = {} /\ n.entries = <<>>
    BY <1>5, NullNode
  <2>2. SetBody(g, c) = Node({f}, <<Entry(c.key, c.val)>>)
    BY <1>2, <1>5, Zenon DEF SetBody, set_at_null
  <2>3. idx = 0
    <3>1. {e \in n.bitmap : e < f} = {}
      BY <2>1
    <3> QED
      BY <3>1, FS_EmptySet, Zenon DEF popcount
  <2>4. arr_insert_at(<<>>, 0, Entry(c.key, c.val)) = <<Entry(c.key, c.val)>>
    <3> DEFINE x == Entry(c.key, c.val)
    <3> HIDE DEF x
    <3>1. SubSeq(<<>>, 1, 0) = <<>> /\ SubSeq(<<>>, 0 + 1, 0) = <<>> /\ Len(<<>>) = 0
      OBVIOUS
    <3>2. <<>> \o <<x>> \o <<>> = <<x>>
      OBVIOUS
    <3> QED
      BY <3>1, <3>2, Zenon DEF arr_insert_at, x
  <2>5. n.bitmap \cup {f} = {f} /\ f \notin n.bitmap
    BY <2>1
  <2> QED
    BY <2>1, <2>2, <2>3, <2>4, <2>5, Zenon
<1> QED
  BY <1>3, <1>4, <1>5

\* An entry of one level down.
LEMMA AloneIs ==
    ASSUME NEW l \in Nat \ {0}, NEW depth \in Nat, NEW k \in Keys, NEW x \in Values, NEW h \in Hashes
    PROVE  /\ set_at_null(h, depth, k, x) \in NodeType[l]
           /\ set_at_null(h, depth, k, x).bitmap = {fragment(h, depth)}
           /\ At(set_at_null(h, depth, k, x), fragment(h, depth)) = Entry(k, x)
           /\ Entry(k, x) \in EntryType
<1> DEFINE f == fragment(h, depth)   n == set_at_null(h, depth, k, x)
<1>1. f \in Frags
  BY FragmentType
<1>2. Entry(k, x) \in EntryType /\ Entry(k, x) \in Slots(l)
  BY KeysType DEF Entry, EntryType, Slots
<1> HIDE DEF f
<1>3. n = Node({f}, <<Entry(k, x)>>)
  BY Zenon DEF set_at_null, f
<1>4. {f} \in SUBSET Frags /\ <<Entry(k, x)>> \in Seq(Slots(l)) /\ Len(<<Entry(k, x)>>) = 1
  BY <1>1, <1>2
<1>5. Cardinality({f}) = 1
  BY FS_Singleton
<1>6. n \in NodesOf(Slots(l)) /\ n.bitmap = {f} /\ n.entries = <<Entry(k, x)>>
  <2> DEFINE B == {f}   a == <<Entry(k, x)>>
  <2>1. B \in SUBSET Frags /\ a \in Seq(Slots(l)) /\ Cardinality(B) = Len(a)
    BY <1>4, <1>5
  <2> HIDE DEF B, a
  <2>2. Node(B, a) \in NodesOf(Slots(l)) /\ Node(B, a).bitmap = B /\ Node(B, a).entries = a
    BY <2>1, NodeIs
  <2> QED
    BY <1>3, <2>2, Zenon DEF B, a
<1>7. popcount({f}, f) = 0
  <2>1. f \in Nat
    BY <1>1, FragsFinite
  <2>2. {e \in {f} : e < f} = {}
    BY <2>1
  <2> QED
    BY <2>2, FS_EmptySet, Zenon DEF popcount
<1>8. At(n, f) = Entry(k, x)
  BY <1>6, <1>7 DEF At
<1> QED
  BY <1>2, <1>6, <1>8, NodeTypeNodes, Zenon DEF f

LEMMA EntryFields ==
    ASSUME NEW e \in EntryType
    PROVE  e.type = "entry" /\ e.hash \in Hashes /\ e.key \in Keys /\ e.val \in Values
BY DEF EntryType

LEMMA SetIs == \A c \in SetCalls : set_from[c] = SetBody(set_from, c)
<1>1. set_from = CHOOSE g : g = [c \in SetCalls |-> SetBody(g, c)]
  BY Zenon DEF set_from, SetBody
<1>2. Sets!Ranked
  <2> SUFFICES ASSUME NEW c \in SetCalls PROVE CallRank(c) \in Nat
    BY Zenon DEF Sets!Ranked
  <2> QED
    BY SetCallFields
<1>3. Sets!Local
  <2> SUFFICES ASSUME NEW g, NEW h, NEW c \in SetCalls,
                      \A t \in SetCalls : CallRank(t) < CallRank(c) => g[t] = h[t]
               PROVE  SetBody(g, c) = SetBody(h, c)
    BY Zenon DEF Sets!Local
  <2>1. CASE Frag(c) \notin c.node.bitmap
    BY <2>1, SetCases, Zenon
  <2>2. CASE Frag(c) \in c.node.bitmap
    <3> DEFINE slot == At(c.node, Frag(c))
               alone == set_at_null(slot.hash, c.depth + 1, slot.key, slot.val)
               l == CallRank(c) - 1
    <3> SUFFICES NewSlot(g, c) = NewSlot(h, c)
      BY <2>2, SetCases, Zenon
    <3>1. /\ CallRank(c) \in Nat \ {0} /\ c.node \in NodesOf(Slots(CallRank(c)))
          /\ c.depth \in Nat /\ c.depth \in 0 .. Levels - 1
      BY SetCallFields, LevelsType
    <3>2. slot \in Slots(CallRank(c))
      BY <2>2, <3>1, AtType
    <3>3. /\ NewSlot(g, c) = set_at_slot(slot, c, g[SetBelow(c, alone)], g[SetBelow(c, slot)])
          /\ NewSlot(h, c) = set_at_slot(slot, c, h[SetBelow(c, alone)], h[SetBelow(c, slot)])
      BY Zenon DEF NewSlot
    <3> HIDE DEF slot, alone
    <3>4. ASSUME NEW s \in NodeType[l], l # 0 PROVE g[SetBelow(c, s)] = h[SetBelow(c, s)]
      <4>1. SetBelow(c, s) \in SetCalls /\ CallRank(SetBelow(c, s)) = CallRank(c) - 1
        BY <3>4, SetBelowIs
      <4>2. CallRank(SetBelow(c, s)) < CallRank(c)
        BY <3>1, <4>1
      <4> QED
        BY <4>1, <4>2, Zenon
    <3>5. CASE slot.type = "node" /\ slot \in NodeType[CallRank(c) - 1] /\ CallRank(c) - 1 \in Nat \ {0}
      <4>1. g[SetBelow(c, slot)] = h[SetBelow(c, slot)]
        BY <3>4, <3>5
      <4>2. ASSUME NEW p, NEW b PROVE set_at_slot(slot, c, p, b) = b
        BY <3>5 DEF set_at_slot
      <4> QED
        BY <3>3, <4>1, <4>2, Zenon
    <3>6. CASE slot.type = "entry" /\ slot \in EntryType
      <4>1. ASSUME NEW p, NEW b PROVE set_at_slot(slot, c, p, b) = set_at_entry(slot, c, p)
        BY <3>6 DEF set_at_slot
      <4>2. CASE c.depth >= Levels - 1 \/ slot.hash = c.hash
        <5>1. ASSUME NEW p, NEW q PROVE set_at_entry(slot, c, p) = set_at_entry(slot, c, q)
          BY <4>2 DEF set_at_entry
        <5> QED
          BY <3>3, <4>1, <5>1, Zenon
      <4>3. CASE ~(c.depth >= Levels - 1)
        <5>1. l \in Nat \ {0} /\ c.depth + 1 \in Nat
          BY <3>1, <4>3, LevelsType DEF CallRank
        <5>2. slot.hash \in Hashes /\ slot.key \in Keys /\ slot.val \in Values
          BY <3>6, EntryFields
        <5>3. alone \in NodeType[l]
          BY <5>1, <5>2, AloneIs DEF alone
        <5>4. g[SetBelow(c, alone)] = h[SetBelow(c, alone)]
          BY <3>4, <5>1, <5>3
        <5> QED
          BY <3>3, <4>1, <5>4, Zenon
      <4> QED
        BY <4>2, <4>3
    <3>7. CASE slot.type = "collision"
      <4>1. ASSUME NEW p, NEW b PROVE set_at_slot(slot, c, p, b) = collision_set(slot, c.key, c.val)
        BY <3>7 DEF set_at_slot
      <4> QED
        BY <3>3, <4>1, Zenon
    <3> QED
      BY <3>1, <3>2, <3>5, <3>6, <3>7, SlotKinds
  <2> QED
    BY <2>1, <2>2
<1> QED
  BY <1>1, <1>2, <1>3, Sets!RecursiveFunction, Zenon

RemoveBody(g, c) ==
  LET n == c.node
      frag == fragment(c.hash, c.depth)
      idx == popcount(n.bitmap, frag)
      slot == n.entries[idx + 1]
  IN IF n = Null \/ frag \notin n.bitmap THEN n
     ELSE remove_at_slot(n, frag, idx, c, g[Below(c, slot)])

Removes == INSTANCE RecursiveFunctions WITH D <- Calls, Rank <- CallRank, Body <- RemoveBody

\* What remove does at a node, case by case.
LEMMA RemoveCases ==
    ASSUME NEW c \in Calls, NEW g
    PROVE  LET n == c.node
               f == Frag(c)
               idx == popcount(n.bitmap, f)
               slot == At(n, f)
           IN /\ f \notin n.bitmap => RemoveBody(g, c) = n
              /\ f \in n.bitmap =>
                   /\ slot.type = "entry" => RemoveBody(g, c) = remove_at_entry(n, f, idx, c.hash, c.key)
                   /\ slot.type = "node" => RemoveBody(g, c) = remove_at_node(n, f, idx, g[Below(c, slot)])
                   /\ slot.type = "collision" => RemoveBody(g, c) = remove_at_collision(n, idx, c.key)
<1> DEFINE n == c.node
           f == Frag(c)
           idx == popcount(n.bitmap, f)
           slot == At(n, f)
<1>1. fragment(c.hash, c.depth) = f
  BY DEF Frag
<1>2. CASE f \notin n.bitmap
  BY <1>1, <1>2, Zenon DEF RemoveBody
<1>3. CASE f \in n.bitmap
  <2>1. n # Null
    BY <1>3, NullNode, Zenon
  <2>2. n.entries[idx + 1] = slot
    BY DEF At
  <2>3. RemoveBody(g, c) = remove_at_slot(n, f, idx, c, g[Below(c, slot)])
    BY <1>1, <1>3, <2>1, <2>2, Zenon DEF RemoveBody
  <2>4. ASSUME NEW b
        PROVE  /\ slot.type = "entry" => remove_at_slot(n, f, idx, c, b) = remove_at_entry(n, f, idx, c.hash, c.key)
               /\ slot.type = "node" => remove_at_slot(n, f, idx, c, b) = remove_at_node(n, f, idx, b)
               /\ slot.type = "collision" => remove_at_slot(n, f, idx, c, b) = remove_at_collision(n, idx, c.key)
    <3> HIDE DEF slot, idx, f
    <3> QED
      BY <2>2 DEF remove_at_slot
  <2> QED
    BY <1>3, <2>3, <2>4, Zenon
<1> QED
  BY <1>2, <1>3

LEMMA RemoveIs == \A c \in Calls : remove_from[c] = RemoveBody(remove_from, c)
<1>1. remove_from = CHOOSE g : g = [c \in Calls |-> RemoveBody(g, c)]
  BY Zenon DEF remove_from, RemoveBody
<1>2. Removes!Ranked
  <2> SUFFICES ASSUME NEW c \in Calls PROVE CallRank(c) \in Nat
    BY Zenon DEF Removes!Ranked
  <2> QED
    BY CallFields
<1>3. Removes!Local
  <2> SUFFICES ASSUME NEW g, NEW h, NEW c \in Calls,
                      \A t \in Calls : CallRank(t) < CallRank(c) => g[t] = h[t]
               PROVE  RemoveBody(g, c) = RemoveBody(h, c)
    BY Zenon DEF Removes!Local
  <2>1. CASE Frag(c) \notin c.node.bitmap
    BY <2>1, RemoveCases, Zenon
  <2>2. CASE Frag(c) \in c.node.bitmap
    <3> DEFINE slot == At(c.node, Frag(c))
    <3>1. CallRank(c) \in Nat \ {0} /\ c.node \in NodesOf(Slots(CallRank(c)))
      BY CallFields
    <3>2. slot \in Slots(CallRank(c))
      BY <2>2, <3>1, AtType
    <3>3. CASE slot.type = "node" /\ slot \in NodeType[CallRank(c) - 1] /\ CallRank(c) - 1 \in Nat \ {0}
      <4>1. Below(c, slot) \in Calls /\ CallRank(Below(c, slot)) = CallRank(c) - 1
        <5> HIDE DEF slot
        <5> QED
          BY <3>3, BelowIs
      <4>2. CallRank(Below(c, slot)) < CallRank(c)
        BY <3>1, <4>1
      <4>3. g[Below(c, slot)] = h[Below(c, slot)]
        BY <4>1, <4>2, Zenon
      <4> QED
        BY <2>2, <3>3, <4>3, RemoveCases, Zenon
    <3>4. CASE slot.type = "entry"
      BY <2>2, <3>4, RemoveCases, Zenon
    <3>5. CASE slot.type = "collision"
      BY <2>2, <3>5, RemoveCases, Zenon
    <3> HIDE DEF slot
    <3> QED
      BY <3>1, <3>2, <3>3, <3>4, <3>5, SlotKinds
  <2> QED
    BY <2>1, <2>2
<1> QED
  BY <1>1, <1>2, <1>3, Removes!RecursiveFunction, Zenon

ShapeBody(g, l) ==
  IF l = 0 THEN {}
  ELSE {s \in [node : NodeType[l], path : Seq(Frags)] :
          \A f \in s.node.bitmap :
            GoodSlot(s.node.entries[popcount(s.node.bitmap, f) + 1], Append(s.path, f), g[l - 1])}

Shapes == INSTANCE RecursiveFunctions WITH D <- Nat, Rank <- NatRank, Body <- ShapeBody

LEMMA ShapedIs == \A l \in Nat : Shaped[l] = ShapeBody(Shaped, l)
<1>1. Shaped = CHOOSE g : g = [l \in Nat |-> ShapeBody(g, l)]
  BY Zenon DEF Shaped, ShapeBody
<1>2. Shapes!Ranked
  BY Zenon DEF Shapes!Ranked, NatRank
<1>3. Shapes!Local
  <2> SUFFICES ASSUME NEW g, NEW h, NEW l \in Nat, \A t \in Nat : NatRank(t) < NatRank(l) => g[t] = h[t]
               PROVE  ShapeBody(g, l) = ShapeBody(h, l)
    BY Zenon DEF Shapes!Local
  <2>1. CASE l = 0
    BY <2>1, Zenon DEF ShapeBody
  <2>2. CASE l # 0
    <3>1. l - 1 \in Nat /\ NatRank(l - 1) < NatRank(l)
      BY <2>2 DEF NatRank
    <3>2. g[l - 1] = h[l - 1]
      BY <3>1, Zenon
    <3> QED
      BY <3>2, Zenon DEF ShapeBody
  <2> QED
    BY <2>1, <2>2
<1> QED
  BY <1>1, <1>2, <1>3, Shapes!RecursiveFunction, Zenon

\* A node with its path is shaped when every slot of it is good.
LEMMA ShapedNode ==
    ASSUME NEW l \in Nat \ {0}, NEW n, NEW path
    PROVE  [node |-> n, path |-> path] \in Shaped[l] <=>
             /\ n \in NodesOf(Slots(l))
             /\ path \in Seq(Frags)
             /\ \A f \in n.bitmap : GoodSlot(At(n, f), Append(path, f), Shaped[l - 1])
<1> DEFINE s == [node |-> n, path |-> path]
<1>1. Shaped[l] = ShapeBody(Shaped, l) /\ l # 0
  BY ShapedIs
<1>2. s.node = n /\ s.path = path
  OBVIOUS
<1>3. s \in [node : NodeType[l], path : Seq(Frags)] <=> n \in NodeType[l] /\ path \in Seq(Frags)
  OBVIOUS
<1> HIDE DEF s
<1>4. s \in Shaped[l] <=>
        /\ s \in [node : NodeType[l], path : Seq(Frags)]
        /\ \A f \in s.node.bitmap :
             GoodSlot(s.node.entries[popcount(s.node.bitmap, f) + 1], Append(s.path, f), Shaped[l - 1])
  BY <1>1, Zenon DEF ShapeBody
<1> QED
  BY <1>2, <1>3, <1>4, NodeTypeNodes, Zenon DEF s, At

LEMMA NoneShaped == Shaped[0] = {}
<1>1. Shaped[0] = ShapeBody(Shaped, 0)
  BY ShapedIs
<1> QED
  BY <1>1 DEF ShapeBody

KeptRank(c) == c.upto
KeptBody(g, c) ==
  LET before == g[[c EXCEPT !.upto = @ - 1]]
      last == c.order[c.upto]
  IN IF c.upto = 0 THEN <<>> ELSE IF last = c.key THEN before ELSE Append(before, last)

Keeps == INSTANCE RecursiveFunctions WITH D <- KeptCalls, Rank <- KeptRank, Body <- KeptBody

LEMMA KeptIs == \A c \in KeptCalls : kept[c] = KeptBody(kept, c)
<1>1. kept = CHOOSE g : g = [c \in KeptCalls |-> KeptBody(g, c)]
  BY Zenon DEF kept, KeptBody, KeptCalls
<1>2. Keeps!Ranked
  <2> SUFFICES ASSUME NEW c \in KeptCalls PROVE KeptRank(c) \in Nat
    BY Zenon DEF Keeps!Ranked
  <2> QED
    BY DEF KeptCalls, KeptRank
<1>3. Keeps!Local
  <2> SUFFICES ASSUME NEW g, NEW h, NEW c \in KeptCalls,
                      \A t \in KeptCalls : KeptRank(t) < KeptRank(c) => g[t] = h[t]
               PROVE  KeptBody(g, c) = KeptBody(h, c)
    BY Zenon DEF Keeps!Local
  <2>1. CASE c.upto = 0
    BY <2>1, Zenon DEF KeptBody
  <2>2. CASE c.upto # 0
    <3> DEFINE b == [c EXCEPT !.upto = @ - 1]
    <3>1. b \in KeptCalls /\ KeptRank(b) < KeptRank(c)
      BY <2>2 DEF KeptCalls, KeptRank
    <3>2. g[b] = h[b]
      BY <3>1, Zenon
    <3> QED
      BY <3>2, Zenon DEF KeptBody
  <2> QED
    BY <2>1, <2>2
<1> QED
  BY <1>1, <1>2, <1>3, Keeps!RecursiveFunction, Zenon

-----------------------------------------------------------------------------
(***************************************************************************)
(* Collision lists.                                                        *)
(***************************************************************************)
Unique(es) == \A i, j \in DOMAIN es : es[i].key = es[j].key => i = j
AllOn(es, path) == \A i \in DOMAIN es : On(path, es[i].key) /\ es[i].hash = es[i].key[1]
Look(es, k) == IF Places(es, k) = {} THEN NoValue ELSE es[FirstPlace(es, k)].val

LEMMA CollisionFields ==
    ASSUME NEW c \in CollisionType
    PROVE  /\ c.type = "collision" /\ c.hash \in Hashes /\ c.entries \in Seq(EntryType)
           /\ \A es \in Seq(EntryType) :
                /\ [c EXCEPT !.entries = es] \in CollisionType
                /\ [c EXCEPT !.entries = es].type = "collision"
                /\ [c EXCEPT !.entries = es].entries = es
BY DEF CollisionType

LEMMA CollisionGood ==
    ASSUME NEW c \in CollisionType, NEW path, NEW S
    PROVE  GoodSlot(c, path, S) <=> Len(c.entries) >= 2 /\ Unique(c.entries) /\ AllOn(c.entries, path)
<1>1. c.type = "collision"
  BY CollisionFields
<1> QED
  BY <1>1 DEF GoodSlot, Unique, AllOn

LEMMA EntryGood ==
    ASSUME NEW e \in EntryType, NEW path, NEW S
    PROVE  GoodSlot(e, path, S) <=> On(path, e.key) /\ e.hash = e.key[1]
<1>1. e.type = "entry"
  BY EntryFields
<1> QED
  BY <1>1 DEF GoodSlot

LEMMA NodeGood ==
    ASSUME NEW n, n.type = "node", NEW path, NEW S
    PROVE  GoodSlot(n, path, S) <=> n # Null /\ [node |-> n, path |-> path] \in S
BY DEF GoodSlot

\* The place of a key that is in a list once.
LEMMA LookAt ==
    ASSUME NEW es \in Seq(EntryType), Unique(es), NEW i \in DOMAIN es
    PROVE  /\ FirstPlace(es, es[i].key) = i
           /\ Places(es, es[i].key) # {}
           /\ Look(es, es[i].key) = es[i].val
<1> DEFINE k == es[i].key
<1>1. i \in Nat
  OBVIOUS
<1>2. \A j : j \in Places(es, k) <=> j = i
  BY DEF Unique, Places
<1> HIDE DEF k
<1>3. i <= i
  BY <1>1
<1>4. \A j \in Places(es, k) : i <= j
  BY <1>2, <1>3
<1>5. i \in Places(es, k)
  BY <1>2
<1>6. FirstPlace(es, k) \in Places(es, k)
  BY <1>4, <1>5, Zenon DEF FirstPlace
<1>7. FirstPlace(es, k) = i /\ Places(es, k) # {}
  BY <1>2, <1>6
<1> QED
  BY <1>7, Zenon DEF Look, k

LEMMA LookNone ==
    ASSUME NEW es, NEW k, \A i \in DOMAIN es : es[i].key # k
    PROVE  Places(es, k) = {} /\ Look(es, k) = NoValue
<1>1. Places(es, k) = {}
  BY DEF Places
<1> QED
  BY <1>1 DEF Look

\* Two lists answer alike for a key when they have the same entries of it.
LEMMA LookSame ==
    ASSUME NEW es \in Seq(EntryType), Unique(es), NEW fs \in Seq(EntryType), Unique(fs), NEW k,
           \A i \in DOMAIN es : es[i].key = k => \E j \in DOMAIN fs : fs[j] = es[i],
           \A j \in DOMAIN fs : fs[j].key = k => \E i \in DOMAIN es : es[i] = fs[j]
    PROVE  Look(es, k) = Look(fs, k)
<1>1. CASE \E i \in DOMAIN es : es[i].key = k
  <2>1. PICK i \in DOMAIN es : es[i].key = k
    BY <1>1
  <2>2. PICK j \in DOMAIN fs : fs[j] = es[i]
    BY <2>1, Zenon
  <2>3. Look(es, es[i].key) = es[i].val
    BY LookAt
  <2>4. Look(fs, fs[j].key) = fs[j].val
    BY LookAt
  <2> QED
    BY <2>1, <2>2, <2>3, <2>4, Zenon
<1>2. CASE ~ \E i \in DOMAIN es : es[i].key = k
  <2>1. \A j \in DOMAIN fs : fs[j].key # k
    BY <1>2, Zenon
  <2>2. Look(es, k) = NoValue
    BY <1>2, LookNone, Zenon
  <2>3. Look(fs, k) = NoValue
    BY <2>1, LookNone, Zenon
  <2> QED
    BY <2>2, <2>3
<1> QED
  BY <1>1, <1>2

LEMMA NewEntry ==
    ASSUME NEW k \in Keys, NEW x \in Values
    PROVE  /\ Entry(k, x) \in EntryType /\ Entry(k, x).type = "entry"
           /\ Entry(k, x).key = k /\ Entry(k, x).val = x /\ Entry(k, x).hash = k[1]
BY KeysType DEF Entry, EntryType

\* One more entry of a list.
LEMMA ListAppend ==
    ASSUME NEW es \in Seq(EntryType), Unique(es), NEW path, AllOn(es, path),
           NEW k \in Keys, On(path, k), NEW x \in Values, Places(es, k) = {}
    PROVE  LET fs == Append(es, Entry(k, x))
           IN /\ fs \in Seq(EntryType) /\ Len(fs) = Len(es) + 1 /\ Unique(fs) /\ AllOn(fs, path)
              /\ Look(fs, k) = x
              /\ \A j : j # k => Look(fs, j) = Look(es, j)
<1> DEFINE e == Entry(k, x)   fs == Append(es, e)
<1>a. \A i \in DOMAIN es : es[i].key # k
  BY DEF Places
<1>1. e \in EntryType /\ e.key = k /\ e.val = x /\ e.hash = k[1]
  BY NewEntry
<1> HIDE DEF e
<1>3. /\ fs \in Seq(EntryType) /\ Len(fs) = Len(es) + 1
      /\ fs[Len(es) + 1] = e /\ \A i \in 1 .. Len(es) : fs[i] = es[i]
  BY <1>1
<1> HIDE DEF fs
<1>4. DOMAIN fs = 1 .. Len(es) + 1 /\ DOMAIN es = 1 .. Len(es) /\ Len(es) \in Nat
  BY <1>3
<1>5. Unique(fs)
  <2> SUFFICES ASSUME NEW i \in DOMAIN fs, NEW j \in DOMAIN fs, fs[i].key = fs[j].key PROVE i = j
    BY DEF Unique
  <2>1. CASE i \in DOMAIN es /\ j \in DOMAIN es
    BY <1>3, <1>4, <2>1 DEF Unique
  <2>2. CASE i \in DOMAIN es /\ j = Len(es) + 1
    BY <1>a, <1>1, <1>3, <1>4, <2>2
  <2>3. CASE i = Len(es) + 1 /\ j \in DOMAIN es
    BY <1>a, <1>1, <1>3, <1>4, <2>3
  <2>4. i \in DOMAIN es \/ i = Len(es) + 1
    BY <1>4
  <2>5. j \in DOMAIN es \/ j = Len(es) + 1
    BY <1>4
  <2> QED
    BY <2>1, <2>2, <2>3, <2>4, <2>5
<1>6. AllOn(fs, path)
  <2> SUFFICES ASSUME NEW i \in DOMAIN fs PROVE On(path, fs[i].key) /\ fs[i].hash = fs[i].key[1]
    BY DEF AllOn
  <2>1. CASE i \in DOMAIN es
    BY <1>3, <1>4, <2>1 DEF AllOn
  <2>2. CASE i = Len(es) + 1
    BY <1>1, <1>3, <2>2
  <2> QED
    BY <1>4, <2>1, <2>2
<1>7. Len(es) + 1 \in DOMAIN fs
  BY <1>4
<1>8. Look(fs, k) = x
  BY <1>1, <1>3, <1>5, <1>7, LookAt
<1>9. ASSUME NEW j, j # k PROVE Look(fs, j) = Look(es, j)
  <2>1. ASSUME NEW i \in DOMAIN fs, fs[i].key = j PROVE \E p \in DOMAIN es : es[p] = fs[i]
    BY <1>1, <1>3, <1>4, <1>9, <2>1
  <2>2. ASSUME NEW i \in DOMAIN es, es[i].key = j PROVE \E p \in DOMAIN fs : fs[p] = es[i]
    BY <1>3, <1>4
  <2> QED
    BY <1>3, <1>5, <2>1, <2>2, LookSame
<1> QED
  BY <1>3, <1>5, <1>6, <1>8, <1>9, Zenon DEF fs, e

\* Another entry of a key that is in a list.
LEMMA ListReplace ==
    ASSUME NEW es \in Seq(EntryType), Unique(es), NEW path, AllOn(es, path),
           NEW at \in DOMAIN es, NEW k \in Keys, es[at].key = k, NEW x \in Values,
           NEW fs, fs = arr_replace_at(es, at - 1, Entry(k, x))
    PROVE  /\ fs \in Seq(EntryType) /\ Len(fs) = Len(es) /\ Unique(fs) /\ AllOn(fs, path)
           /\ Look(fs, k) = x
           /\ \A j : j # k => Look(fs, j) = Look(es, j)
<1> DEFINE e == Entry(k, x)
<1>1. e \in EntryType /\ e.key = k /\ e.val = x /\ e.hash = k[1]
  BY NewEntry
<1> HIDE DEF e
<1>2. fs = arr_replace_at(es, at - 1, e)
  BY DEF e
<1>3. at - 1 \in 0 .. (Len(es) - 1) /\ at - 1 + 1 = at
  OBVIOUS
<1>4. /\ fs \in Seq(EntryType) /\ Len(fs) = Len(es)
      /\ fs[at] = e /\ \A i \in DOMAIN es : i # at => fs[i] = es[i]
  <2> DEFINE p == at - 1
  <2>1. p \in 0 .. (Len(es) - 1) /\ p + 1 = at /\ fs = arr_replace_at(es, p, e)
    BY <1>2, <1>3
  <2> HIDE DEF p
  <2>2. fs \in Seq(EntryType) /\ Len(fs) = Len(es) /\ fs[p + 1] = e
    BY <1>1, <2>1, ReplaceElements
  <2>3. \A i \in DOMAIN es : i # p + 1 => fs[i] = es[i]
    BY <1>1, <2>1, ReplaceElements
  <2> QED
    BY <2>1, <2>2, <2>3, Zenon
<1>5. DOMAIN fs = DOMAIN es
  BY <1>4
<1>6. \A i \in DOMAIN es : fs[i].key = es[i].key
  BY <1>1, <1>4
<1>7. Unique(fs)
  BY <1>5, <1>6 DEF Unique
<1>8. AllOn(fs, path)
  <2> SUFFICES ASSUME NEW i \in DOMAIN es PROVE On(path, fs[i].key) /\ fs[i].hash = fs[i].key[1]
    BY <1>5 DEF AllOn
  <2>1. On(path, es[i].key) /\ es[i].hash = es[i].key[1]
    BY DEF AllOn
  <2>2. CASE i = at
    BY <1>1, <1>4, <2>1, <2>2
  <2>3. CASE i # at
    BY <1>4, <2>1, <2>3
  <2> QED
    BY <2>2, <2>3
<1>9. Look(fs, k) = x
  BY <1>1, <1>4, <1>5, <1>7, LookAt
<1>10. ASSUME NEW j, j # k PROVE Look(fs, j) = Look(es, j)
  <2>1. \A i \in DOMAIN fs : fs[i].key = j => \E p \in DOMAIN es : es[p] = fs[i]
    BY <1>1, <1>4, <1>5, <1>10
  <2>2. \A i \in DOMAIN es : es[i].key = j => \E p \in DOMAIN fs : fs[p] = es[i]
    BY <1>4, <1>5, <1>10
  <2>3. fs \in Seq(EntryType) /\ Unique(fs)
    BY <1>4, <1>7
  <2> QED
    BY <2>1, <2>2, <2>3, LookSame
<1> QED
  BY <1>4, <1>7, <1>8, <1>9, <1>10

\* An entry less.
LEMMA ListRemove ==
    ASSUME NEW es \in Seq(EntryType), Unique(es), NEW path, AllOn(es, path),
           NEW at \in DOMAIN es, NEW k, es[at].key = k,
           NEW fs, fs = arr_remove_at(es, at - 1)
    PROVE  /\ fs \in Seq(EntryType) /\ Len(fs) = Len(es) - 1 /\ Unique(fs) /\ AllOn(fs, path)
           /\ Look(fs, k) = NoValue
           /\ \A j : j # k => Look(fs, j) = Look(es, j)
<1> DEFINE p == at - 1   up(i) == IF i <= p THEN i ELSE i + 1
<1>1. p \in 0 .. (Len(es) - 1) /\ p + 1 = at /\ fs = arr_remove_at(es, p) /\ p + 2 = at + 1 /\ p \in Nat
  OBVIOUS
<1> HIDE DEF p
<1>2. fs \in Seq(EntryType) /\ Len(fs) = Len(es) - 1
  BY <1>1, RemoveElements
<1>3. \A i \in 1 .. p : fs[i] = es[i]
  BY <1>1, RemoveElements
<1>4. \A i \in (p + 2) .. Len(es) : fs[i - 1] = es[i]
  BY <1>1, RemoveElements
<1>5. DOMAIN fs = 1 .. Len(es) - 1 /\ DOMAIN es = 1 .. Len(es) /\ Len(es) \in Nat
  BY <1>2
<1>6. ASSUME NEW i \in DOMAIN fs
      PROVE  up(i) \in DOMAIN es /\ fs[i] = es[up(i)] /\ up(i) # at
  <2>1. CASE i <= p
    BY <1>1, <1>3, <1>5, <2>1
  <2>2. CASE ~(i <= p)
    <3> DEFINE q == i + 1
    <3>1. q \in (p + 2) .. Len(es) /\ q - 1 = i /\ q = i + 1
      BY <1>1, <1>5, <2>2
    <3> HIDE DEF q
    <3>2. fs[q - 1] = es[q]
      BY <1>4, <3>1, Zenon
    <3>3. fs[i] = es[q]
      BY <3>1, <3>2, Zenon
    <3> QED
      BY <1>1, <1>5, <2>2, <3>1, <3>3
  <2> QED
    BY <2>1, <2>2
<1>7. \A i, j \in DOMAIN fs : up(i) = up(j) => i = j
  BY <1>1, <1>5
<1>8. ASSUME NEW i \in DOMAIN es, i # at PROVE \E q \in DOMAIN fs : fs[q] = es[i]
  <2>1. CASE i <= p
    BY <1>1, <1>3, <1>5, <2>1
  <2>2. CASE ~(i <= p)
    <3>1. i \in (p + 2) .. Len(es) /\ i - 1 \in DOMAIN fs
      BY <1>1, <1>5, <1>8, <2>2
    <3> QED
      BY <1>4, <3>1, Zenon
  <2> QED
    BY <2>1, <2>2
<1> HIDE DEF up
<1>9. Unique(fs)
  <2> SUFFICES ASSUME NEW i \in DOMAIN fs, NEW j \in DOMAIN fs, fs[i].key = fs[j].key PROVE i = j
    BY DEF Unique
  <2>1. es[up(i)].key = es[up(j)].key /\ up(i) \in DOMAIN es /\ up(j) \in DOMAIN es
    BY <1>6, Zenon
  <2>2. up(i) = up(j)
    BY <2>1, Zenon DEF Unique
  <2> QED
    BY <1>7, <2>2, Zenon
<1>10. AllOn(fs, path)
  <2> SUFFICES ASSUME NEW i \in DOMAIN fs PROVE On(path, fs[i].key) /\ fs[i].hash = fs[i].key[1]
    BY DEF AllOn
  <2> QED
    BY <1>6, Zenon DEF AllOn
<1>11. Look(fs, k) = NoValue
  <2>1. ASSUME NEW i \in DOMAIN fs PROVE fs[i].key # k
    BY <1>6, Zenon DEF Unique
  <2> QED
    BY <2>1, LookNone, Zenon
<1>12. ASSUME NEW j, j # k PROVE Look(fs, j) = Look(es, j)
  <2>1. \A i \in DOMAIN fs : fs[i].key = j => \E q \in DOMAIN es : es[q] = fs[i]
    BY <1>6, Zenon
  <2>2. \A i \in DOMAIN es : es[i].key = j => \E q \in DOMAIN fs : fs[q] = es[i]
    BY <1>8, <1>12, Zenon
  <2> QED
    BY <1>2, <1>9, <2>1, <2>2, LookSame
<1> QED
  BY <1>2, <1>9, <1>10, <1>11, <1>12

\* Setting a key of a collision.
LEMMA CollisionSet ==
    ASSUME NEW c \in CollisionType, NEW path, NEW S, GoodSlot(c, path, S),
           NEW k \in Keys, On(path, k), NEW x \in Values,
           NEW m, m = collision_set(c, k, x)
    PROVE  /\ m \in CollisionType /\ m.type = "collision" /\ GoodSlot(m, path, S)
           /\ collision_get(m, k) = x
           /\ \A j : j # k => collision_get(m, j) = collision_get(c, j)
<1> DEFINE es == c.entries
           fs == IF Places(es, k) = {} THEN Append(es, Entry(k, x))
                 ELSE arr_replace_at(es, FirstPlace(es, k) - 1, Entry(k, x))
<1>1. es \in Seq(EntryType) /\ Len(es) >= 2 /\ Unique(es) /\ AllOn(es, path)
  BY CollisionFields, CollisionGood
<1>2. /\ fs \in Seq(EntryType) /\ Len(fs) >= Len(es) /\ Unique(fs) /\ AllOn(fs, path)
      /\ Look(fs, k) = x
      /\ \A j : j # k => Look(fs, j) = Look(es, j)
  <2> HIDE DEF es
  <2>1. Len(es) \in Nat
    BY <1>1
  <2>2. CASE Places(es, k) = {}
    <3>a. es \in Seq(EntryType) /\ Unique(es) /\ AllOn(es, path) /\ On(path, k) /\ k \in Keys /\ x \in Values
      BY <1>1
    <3>1. LET gs == Append(es, Entry(k, x))
          IN /\ gs \in Seq(EntryType) /\ Len(gs) = Len(es) + 1 /\ Unique(gs) /\ AllOn(gs, path)
             /\ Look(gs, k) = x
             /\ \A j : j # k => Look(gs, j) = Look(es, j)
      BY <2>2, <3>a, ListAppend
    <3>2. fs = Append(es, Entry(k, x))
      BY <2>2
    <3> HIDE DEF fs
    <3>3. /\ fs \in Seq(EntryType) /\ Len(fs) = Len(es) + 1 /\ Unique(fs) /\ AllOn(fs, path)
          /\ Look(fs, k) = x
          /\ \A j : j # k => Look(fs, j) = Look(es, j)
      BY <3>1, <3>2, Zenon
    <3>6. Len(fs) >= Len(es)
      BY <2>1, <3>3
    <3> QED
      BY <3>3, <3>6
  <2>3. CASE Places(es, k) # {}
    <3>1. PICK i \in DOMAIN es : es[i].key = k
      BY <2>3 DEF Places
    <3>2. FirstPlace(es, k) = i
      BY <1>1, <3>1, LookAt
    <3>3. fs = arr_replace_at(es, i - 1, Entry(k, x))
      BY <2>3, <3>2, Zenon
    <3> HIDE DEF fs
    <3>4. /\ fs \in Seq(EntryType) /\ Len(fs) = Len(es) /\ Unique(fs) /\ AllOn(fs, path)
          /\ Look(fs, k) = x
          /\ \A j : j # k => Look(fs, j) = Look(es, j)
      BY <1>1, <3>1, <3>3, ListReplace
    <3>5. Len(fs) >= Len(es)
      BY <2>1, <3>4
    <3> QED
      BY <3>4, <3>5
  <2> QED
    BY <2>2, <2>3
<1>3. m = [c EXCEPT !.entries = fs]
  BY DEF collision_set
<1> HIDE DEF fs
<1>4. m \in CollisionType /\ m.type = "collision" /\ m.entries = fs
  BY <1>2, <1>3, CollisionFields
<1>5. Len(fs) >= 2
  <2>1. Len(fs) \in Nat /\ Len(es) \in Nat /\ Len(fs) >= Len(es)
    BY <1>1, <1>2
  <2> QED
    BY <1>1, <2>1
<1>6. GoodSlot(m, path, S)
  BY <1>2, <1>4, <1>5, CollisionGood
<1>7. \A j : collision_get(m, j) = Look(fs, j) /\ collision_get(c, j) = Look(es, j)
  BY <1>4, Zenon DEF collision_get, Look
<1> QED
  BY <1>2, <1>4, <1>6, <1>7, Zenon

-----------------------------------------------------------------------------
(***************************************************************************)
(* What get answers for a key with its own hash.                           *)
(***************************************************************************)
Got(n, depth, k) == get_from[[node |-> n, depth |-> depth, hash |-> k[1], key |-> k]]
SlotGot(slot, depth, k) ==
  CASE slot.type = "entry" -> IF slot.hash = k[1] /\ slot.key = k THEN slot.val ELSE NoValue
    [] slot.type = "node" -> Got(slot, depth + 1, k)
    [] slot.type = "collision" -> collision_get(slot, k)

LEMMA SlotGotIs ==
    ASSUME NEW slot, NEW depth, NEW k
    PROVE  /\ slot.type = "entry" =>
                SlotGot(slot, depth, k) = IF slot.hash = k[1] /\ slot.key = k THEN slot.val ELSE NoValue
           /\ slot.type = "node" => SlotGot(slot, depth, k) = Got(slot, depth + 1, k)
           /\ slot.type = "collision" => SlotGot(slot, depth, k) = Look(slot.entries, k)
BY DEF SlotGot, collision_get, Look

LEMMA GotIs ==
    ASSUME NEW l \in 1 .. Levels, NEW n \in NodesOf(Slots(l)), NEW k \in Keys,
           NEW f, f = fragment(k[1], Levels - l)
    PROVE  /\ f \notin n.bitmap => Got(n, Levels - l, k) = NoValue
           /\ f \in n.bitmap => Got(n, Levels - l, k) = SlotGot(At(n, f), Levels - l, k)
<1> DEFINE depth == Levels - l
           c == [node |-> n, depth |-> depth, hash |-> k[1], key |-> k]
           slot == At(n, f)
<1>1. l \in Nat \ {0} /\ n \in NodeType[l] /\ k[1] \in Hashes
  BY LevelsType, NodeTypeNodes, KeysType
<1>2. c \in Calls
  BY <1>1, CallIs
<1>3. c.node = n /\ c.depth = depth /\ c.hash = k[1] /\ c.key = k
  OBVIOUS
<1>4. Frag(c) = f
  BY <1>3 DEF Frag
<1>5. Got(n, depth, k) = GetBody(get_from, c)
  BY <1>2, GetIs DEF Got
<1> SUFFICES /\ f \notin n.bitmap => Got(n, depth, k) = NoValue
             /\ f \in n.bitmap => Got(n, depth, k) = SlotGot(slot, depth, k)
  BY Zenon
<1> HIDE DEF c, depth
<1>6. CASE f \notin n.bitmap
  BY <1>2, <1>3, <1>4, <1>5, <1>6, GetCases, Zenon
<1>7. CASE f \in n.bitmap
  <2>1. /\ slot.type = "entry" =>
             GetBody(get_from, c) = IF slot.hash = c.hash /\ slot.key = c.key THEN slot.val ELSE NoValue
        /\ slot.type = "node" => GetBody(get_from, c) = get_from[Below(c, slot)]
        /\ slot.type = "collision" => GetBody(get_from, c) = collision_get(slot, c.key)
    BY <1>2, <1>3, <1>4, <1>7, GetCases, Zenon
  <2>2. slot.type \in {"entry", "node", "collision"}
    <3>1. slot \in Slots(l)
      BY <1>7, AtType
    <3> HIDE DEF slot
    <3> QED
      BY <1>1, <3>1, SlotKinds
  <2>3. Below(c, slot) = [node |-> slot, depth |-> depth + 1, hash |-> k[1], key |-> k]
    BY <1>3, Zenon DEF Below
  <2> SUFFICES Got(n, depth, k) = SlotGot(slot, depth, k)
    BY <1>7, Zenon
  <2> HIDE DEF slot
  <2>a. /\ slot.type = "entry" =>
             SlotGot(slot, depth, k) = IF slot.hash = k[1] /\ slot.key = k THEN slot.val ELSE NoValue
        /\ slot.type = "node" => SlotGot(slot, depth, k) = Got(slot, depth + 1, k)
        /\ slot.type = "collision" => SlotGot(slot, depth, k) = collision_get(slot, k)
    BY DEF SlotGot
  <2>4. CASE slot.type = "entry"
    BY <1>3, <1>5, <2>1, <2>4, <2>a, Zenon
  <2>5. CASE slot.type = "node"
    BY <1>3, <1>5, <2>1, <2>3, <2>5, <2>a, Zenon DEF Got
  <2>6. CASE slot.type = "collision"
    BY <1>3, <1>5, <2>1, <2>6, <2>a, Zenon
  <2> QED
    BY <2>2, <2>4, <2>5, <2>6
<1> QED
  BY <1>6, <1>7, Zenon

LEMMA OnAppend ==
    ASSUME NEW path \in Seq(Frags), NEW f \in Frags, NEW k
    PROVE  On(Append(path, f), k) <=> On(path, k) /\ fragment(k[1], Len(path)) = f
<1> DEFINE p == Append(path, f)
<1>1. /\ DOMAIN p = 1 .. Len(path) + 1 /\ DOMAIN path = 1 .. Len(path) /\ Len(path) \in Nat
      /\ p[Len(path) + 1] = f /\ \A i \in 1 .. Len(path) : p[i] = path[i]
  OBVIOUS
<1> HIDE DEF p
<1>2. (Len(path) + 1) - 1 = Len(path) /\ Len(path) + 1 \in DOMAIN p
  BY <1>1
<1>3. \A i \in DOMAIN p : i \in DOMAIN path \/ i = Len(path) + 1
  BY <1>1
<1>4. DOMAIN path \subseteq DOMAIN p
  BY <1>1
<1>5. On(p, k) => On(path, k) /\ fragment(k[1], Len(path)) = f
  <2> SUFFICES ASSUME \A i \in DOMAIN p : fragment(k[1], i - 1) = p[i]
               PROVE  (\A i \in DOMAIN path : fragment(k[1], i - 1) = path[i]) /\ fragment(k[1], Len(path)) = f
    BY Zenon DEF On
  <2>1. fragment(k[1], (Len(path) + 1) - 1) = f
    BY <1>1, <1>2, Zenon
  <2>2. ASSUME NEW i \in DOMAIN path PROVE fragment(k[1], i - 1) = path[i]
    <3>1. p[i] = path[i] /\ i \in DOMAIN p
      BY <1>1, <1>4, Zenon
    <3> QED
      BY <3>1, Zenon
  <2> QED
    BY <1>2, <2>1, <2>2, Zenon
<1>6. On(path, k) /\ fragment(k[1], Len(path)) = f => On(p, k)
  <2> SUFFICES ASSUME \A i \in DOMAIN path : fragment(k[1], i - 1) = path[i], fragment(k[1], Len(path)) = f,
                      NEW i \in DOMAIN p
               PROVE  fragment(k[1], i - 1) = p[i]
    BY Zenon DEF On
  <2>1. CASE i \in DOMAIN path
    BY <1>1, <2>1, Zenon
  <2>2. CASE i = Len(path) + 1
    BY <1>1, <1>2, <2>2, Zenon
  <2> QED
    BY <1>3, <2>1, <2>2, Zenon
<1> QED
  BY <1>5, <1>6 DEF p

-----------------------------------------------------------------------------
(***************************************************************************)
(* Setting a key.                                                          *)
(***************************************************************************)
SetAt(n, l, k, x) == node_set(n, k[1], Levels - l, k, x)

\* The promise of set for nodes of l levels: the node stays in shape, the
\* key has the value and the other keys keep theirs.
SetWorks(l) ==
  \A n, path : \A k \in Keys, x \in Values :
    [node |-> n, path |-> path] \in Shaped[l] /\ Len(path) = Levels - l /\ On(path, k) =>
      /\ SetAt(n, l, k, x) # Null
      /\ [node |-> SetAt(n, l, k, x), path |-> path] \in Shaped[l]
      /\ Got(SetAt(n, l, k, x), Levels - l, k) = x
      /\ \A j \in Keys : j # k => Got(SetAt(n, l, k, x), Levels - l, j) = Got(n, Levels - l, j)

\* The slot new for the slot old, at the path of the key.
SlotSet(new, old, l, path, k, x) ==
  /\ new \in Slots(l)
  /\ GoodSlot(new, path, Shaped[l - 1])
  /\ SlotGot(new, Levels - l, k) = x
  /\ \A j \in Keys : j # k => SlotGot(new, Levels - l, j) = SlotGot(old, Levels - l, j)

\* The key's own entry.
LEMMA SetOwnEntry ==
    ASSUME NEW l \in 1 .. Levels, NEW path, NEW k \in Keys, On(path, k), NEW x \in Values,
           NEW old \in EntryType, GoodSlot(old, path, Shaped[l - 1]), old.key = k
    PROVE  SlotSet(Entry(k, x), old, l, path, k, x)
<1> DEFINE e == Entry(k, x)
<1>1. e \in EntryType /\ e.type = "entry" /\ e.key = k /\ e.val = x /\ e.hash = k[1]
  BY NewEntry
<1> HIDE DEF e
<1>2. e \in Slots(l)
  BY <1>1 DEF Slots
<1>3. GoodSlot(e, path, Shaped[l - 1])
  BY <1>1, EntryGood
<1>4. SlotGot(e, Levels - l, k) = x
  BY <1>1, SlotGotIs
<1>5. ASSUME NEW j \in Keys, j # k PROVE SlotGot(e, Levels - l, j) = SlotGot(old, Levels - l, j)
  <2>1. old.type = "entry"
    BY EntryFields
  <2>2. SlotGot(old, Levels - l, j) = NoValue
    BY <1>5, <2>1, SlotGotIs
  <2>3. SlotGot(e, Levels - l, j) = NoValue
    BY <1>1, <1>5, SlotGotIs
  <2> QED
    BY <2>2, <2>3
<1> QED
  BY <1>2, <1>3, <1>4, <1>5, Zenon DEF SlotSet, e

\* An entry and another key become a collision.
LEMMA SetCollides ==
    ASSUME NEW l \in 1 .. Levels, NEW path, NEW k \in Keys, On(path, k), NEW x \in Values,
           NEW old \in EntryType, GoodSlot(old, path, Shaped[l - 1]), old.key # k
    PROVE  SlotSet(Collision(k[1], <<old, Entry(k, x)>>), old, l, path, k, x)
<1> DEFINE e == Entry(k, x)   es == <<old>>   fs == <<old, e>>
           m == Collision(k[1], fs)
<1>1. e \in EntryType /\ k[1] \in Hashes
  BY NewEntry, KeysType
<1>2. On(path, old.key) /\ old.hash = old.key[1] /\ old.type = "entry"
  BY EntryGood, EntryFields
<1> HIDE DEF e
<1>3. es \in Seq(EntryType) /\ Len(es) = 1 /\ es[1] = old /\ DOMAIN es = {1} /\ Append(es, e) = fs
  <2>1. es \in Seq(EntryType) /\ Len(es) = 1 /\ es[1] = old
    OBVIOUS
  <2>2. Append(es, e) = fs
    <3>1. Append(es, e) \in Seq(EntryType) /\ Len(Append(es, e)) = 2
      BY <1>1, <2>1
    <3>2. Append(es, e)[1] = old /\ Append(es, e)[2] = e
      BY <1>1, <2>1
    <3>3. fs \in Seq(EntryType) /\ Len(fs) = 2 /\ fs[1] = old /\ fs[2] = e
      BY <1>1
    <3> DEFINE gs == Append(es, e)
    <3>4. gs[1] = fs[1] /\ gs[2] = fs[2] /\ gs \in Seq(EntryType) /\ Len(gs) = 2
      BY <3>1, <3>2, <3>3, Zenon
    <3> HIDE DEF gs, fs
    <3>5. gs = fs
      BY <3>3, <3>4
    <3> QED
      BY <3>5 DEF gs
  <2>3. DOMAIN es = {1}
    <3>1. DOMAIN es = 1 .. 1
      BY <2>1
    <3> QED
      BY <3>1
  <2> QED
    BY <2>1, <2>2, <2>3
<1> HIDE DEF es
<1>4. Unique(es) /\ AllOn(es, path) /\ Places(es, k) = {}
  BY <1>2, <1>3 DEF Unique, AllOn, Places
<1>5. /\ fs \in Seq(EntryType) /\ Len(fs) = Len(es) + 1 /\ Unique(fs) /\ AllOn(fs, path)
      /\ Look(fs, k) = x
      /\ \A j : j # k => Look(fs, j) = Look(es, j)
  <2>a. es \in Seq(EntryType) /\ On(path, k) /\ k \in Keys /\ x \in Values
    BY <1>3
  <2>1. LET gs == Append(es, Entry(k, x))
        IN /\ gs \in Seq(EntryType) /\ Len(gs) = Len(es) + 1 /\ Unique(gs) /\ AllOn(gs, path)
           /\ Look(gs, k) = x
           /\ \A j : j # k => Look(gs, j) = Look(es, j)
    BY <1>4, <2>a, ListAppend
  <2> HIDE DEF fs
  <2> QED
    BY <1>3, <2>1, Zenon DEF e
<1> HIDE DEF fs
<1>6. m \in CollisionType /\ m.type = "collision" /\ m.entries = fs
  BY <1>1, <1>5 DEF Collision, CollisionType
<1> HIDE DEF m
<1>7. GoodSlot(m, path, Shaped[l - 1]) /\ m \in Slots(l)
  BY <1>3, <1>5, <1>6, CollisionGood DEF Slots
<1>8. SlotGot(m, Levels - l, k) = x
  BY <1>5, <1>6, SlotGotIs
<1>9. ASSUME NEW j \in Keys, j # k PROVE SlotGot(m, Levels - l, j) = SlotGot(old, Levels - l, j)
  <2>1. SlotGot(m, Levels - l, j) = Look(es, j)
    BY <1>5, <1>6, <1>9, SlotGotIs
  <2>2. CASE old.key = j
    <3>1. Look(es, j) = old.val
      BY <1>3, <1>4, <2>2, LookAt
    <3>2. SlotGot(old, Levels - l, j) = old.val
      BY <1>2, <2>2, SlotGotIs
    <3> QED
      BY <2>1, <3>1, <3>2
  <2>3. CASE old.key # j
    <3>1. Look(es, j) = NoValue
      BY <1>3, <2>3, LookNone
    <3>2. SlotGot(old, Levels - l, j) = NoValue
      BY <1>2, <2>3, SlotGotIs
    <3> QED
      BY <2>1, <3>1, <3>2
  <2> QED
    BY <2>2, <2>3
<1> QED
  BY <1>7, <1>8, <1>9, Zenon DEF SlotSet, m, fs, e

\* An entry that is alone in a node one level down.
LEMMA AloneGood ==
    ASSUME NEW l \in 1 .. Levels, NEW path \in Seq(Frags), Len(path) = Levels - l,
           NEW e \in EntryType, On(path, e.key), e.hash = e.key[1],
           NEW n, n = set_at_null(e.hash, Levels - l, e.key, e.val)
    PROVE  /\ [node |-> n, path |-> path] \in Shaped[l]
           /\ \A j \in Keys : Got(n, Levels - l, j) = IF e.key = j THEN e.val ELSE NoValue
<1> DEFINE depth == Levels - l   f == fragment(e.hash, depth)
<1>1. l \in Nat \ {0} /\ depth \in Nat /\ e.hash \in Hashes /\ e.key \in Keys /\ e.val \in Values
  BY LevelsType, EntryFields
<1>2. /\ n \in NodeType[l] /\ n.bitmap = {f} /\ At(n, f) = Entry(e.key, e.val)
      /\ Entry(e.key, e.val) \in EntryType
  BY <1>1, AloneIs
<1>3. Entry(e.key, e.val).type = "entry" /\ Entry(e.key, e.val).key = e.key
      /\ Entry(e.key, e.val).val = e.val /\ Entry(e.key, e.val).hash = e.key[1]
  BY <1>1, NewEntry
<1>4. f \in Frags /\ n \in NodesOf(Slots(l))
  BY <1>1, <1>2, FragmentType, NodeTypeNodes
<1>5. f = fragment(e.key[1], Len(path))
  OBVIOUS
<1> HIDE DEF f
<1>6. On(Append(path, f), e.key)
  BY <1>4, <1>5, OnAppend
<1>7. GoodSlot(At(n, f), Append(path, f), Shaped[l - 1])
  BY <1>2, <1>3, <1>6, EntryGood
<1>8. [node |-> n, path |-> path] \in Shaped[l]
  <2>1. \A g \in n.bitmap : GoodSlot(At(n, g), Append(path, g), Shaped[l - 1])
    BY <1>2, <1>7
  <2> QED
    BY <1>1, <1>4, <2>1, ShapedNode
<1>9. ASSUME NEW j \in Keys PROVE Got(n, depth, j) = IF e.key = j THEN e.val ELSE NoValue
  <2> DEFINE g == fragment(j[1], depth)
  <2>1. /\ g \notin n.bitmap => Got(n, depth, j) = NoValue
        /\ g \in n.bitmap => Got(n, depth, j) = SlotGot(At(n, g), depth, j)
    BY <1>4, GotIs, Zenon
  <2>2. SlotGot(Entry(e.key, e.val), depth, j) = IF e.key[1] = j[1] /\ e.key = j THEN e.val ELSE NoValue
    <3> DEFINE s == Entry(e.key, e.val)
    <3>1. s.type = "entry" /\ s.key = e.key /\ s.val = e.val /\ s.hash = e.key[1]
      BY <1>3
    <3> HIDE DEF s
    <3>2. SlotGot(s, depth, j) = IF s.hash = j[1] /\ s.key = j THEN s.val ELSE NoValue
      BY <3>1 DEF SlotGot
    <3> QED
      BY <3>1, <3>2, Zenon DEF s
  <2>3. g \in n.bitmap <=> g = f
    BY <1>2
  <2>4. e.key = j => g = f
    BY Zenon DEF f
  <2> HIDE DEF g, depth
  <2>5. CASE g = f
    BY <1>2, <2>1, <2>2, <2>3, <2>5, Zenon
  <2>6. CASE g # f
    BY <2>1, <2>3, <2>4, <2>6, Zenon
  <2> QED
    BY <2>5, <2>6
<1> QED
  BY <1>8, <1>9

\* An entry and a key of another hash are pushed down together.
LEMMA SetPushesDown ==
    ASSUME NEW l \in 2 .. Levels, SetWorks(l - 1),
           NEW path \in Seq(Frags), Len(path) = Levels - l + 1,
           NEW k \in Keys, On(path, k), NEW x \in Values,
           NEW old \in EntryType, GoodSlot(old, path, Shaped[l - 1]),
           NEW alone, alone = set_at_null(old.hash, Levels - l + 1, old.key, old.val)
    PROVE  SlotSet(SetAt(alone, l - 1, k, x), old, l, path, k, x)
<1> DEFINE m == SetAt(alone, l - 1, k, x)   b == l - 1
<1>1. b \in 1 .. Levels /\ Levels - b = Levels - l + 1 /\ l \in Nat \ {0} /\ b \in Nat \ {0}
  BY LevelsType
<1>2. On(path, old.key) /\ old.hash = old.key[1] /\ old.type = "entry"
  BY EntryGood, EntryFields
<1>3. Len(path) = Levels - b /\ alone = set_at_null(old.hash, Levels - b, old.key, old.val)
  BY <1>1
<1> HIDE DEF b
<1>4. /\ [node |-> alone, path |-> path] \in Shaped[b]
      /\ \A j \in Keys : Got(alone, Levels - b, j) = IF old.key = j THEN old.val ELSE NoValue
  BY <1>1, <1>2, <1>3, AloneGood
<1>5. /\ m # Null
      /\ [node |-> m, path |-> path] \in Shaped[b]
      /\ Got(m, Levels - b, k) = x
      /\ \A j \in Keys : j # k => Got(m, Levels - b, j) = Got(alone, Levels - b, j)
  <2>1. SetWorks(b) /\ m = SetAt(alone, b, k, x)
    BY DEF b
  <2> HIDE DEF m
  <2>2. [node |-> alone, path |-> path] \in Shaped[b] /\ Len(path) = Levels - b /\ On(path, k) /\ k \in Keys /\ x \in Values
    BY <1>3, <1>4
  <2>3. /\ SetAt(alone, b, k, x) # Null
        /\ [node |-> SetAt(alone, b, k, x), path |-> path] \in Shaped[b]
        /\ Got(SetAt(alone, b, k, x), Levels - b, k) = x
        /\ \A j \in Keys : j # k => Got(SetAt(alone, b, k, x), Levels - b, j) = Got(alone, Levels - b, j)
    BY <2>1, <2>2 DEF SetWorks
  <2> QED
    BY <2>1, <2>3, Zenon
<1> HIDE DEF m
<1>6. m \in NodeType[b] /\ m.type = "node"
  BY <1>1, <1>5, ShapedNode, NodeTypeNodes, NodeIsNode
<1>7. m \in Slots(l)
  BY <1>6 DEF Slots, b
<1>8. GoodSlot(m, path, Shaped[l - 1])
  BY <1>5, <1>6, NodeGood DEF b
<1>9. \A j : SlotGot(m, Levels - l, j) = Got(m, Levels - b, j)
  <2> SUFFICES ASSUME NEW j PROVE SlotGot(m, Levels - l, j) = Got(m, Levels - b, j)
    OBVIOUS
  <2>1. SlotGot(m, Levels - l, j) = Got(m, Levels - l + 1, j)
    BY <1>6, SlotGotIs, Zenon
  <2> QED
    BY <1>1, <2>1, Zenon
<1>10. \A j \in Keys : SlotGot(old, Levels - l, j) = IF old.key = j THEN old.val ELSE NoValue
  <2> SUFFICES ASSUME NEW j \in Keys PROVE SlotGot(old, Levels - l, j) = IF old.key = j THEN old.val ELSE NoValue
    OBVIOUS
  <2>1. SlotGot(old, Levels - l, j) = IF old.hash = j[1] /\ old.key = j THEN old.val ELSE NoValue
    BY <1>2, SlotGotIs, Zenon
  <2> QED
    BY <1>2, <2>1, Zenon
<1>11. SlotSet(m, old, l, path, k, x)
  BY <1>4, <1>5, <1>7, <1>8, <1>9, <1>10, Zenon DEF SlotSet
<1> QED
  BY <1>11 DEF m

\* The slot that set puts in the place of another.
LEMMA SetSlot ==
    ASSUME NEW l \in 1 .. Levels, l > 1 => SetWorks(l - 1),
           NEW path \in Seq(Frags), Len(path) = Levels - l + 1,
           NEW k \in Keys, On(path, k), NEW x \in Values,
           NEW old \in Slots(l), GoodSlot(old, path, Shaped[l - 1]),
           NEW c, c.depth = Levels - l, c.hash = k[1], c.key = k, c.val = x,
           NEW alone, alone = set_at_null(old.hash, Levels - l + 1, old.key, old.val),
           NEW p, p = set_from[SetBelow(c, alone)], NEW b, b = set_from[SetBelow(c, old)]
    PROVE  SlotSet(set_at_slot(old, c, p, b), old, l, path, k, x)
<1>1. l \in Nat \ {0} /\ Levels \in Nat /\ Levels - (l - 1) = Levels - l + 1
  BY LevelsType
<1>2. \A s : set_from[SetBelow(c, s)] = SetAt(s, l - 1, k, x)
  BY <1>1, Zenon DEF SetBelow, SetAt, node_set
<1>3. CASE old.type = "entry" /\ old \in EntryType
  <2>1. set_at_slot(old, c, p, b) = set_at_entry(old, c, p)
    BY <1>3 DEF set_at_slot
  <2>2. old.hash = old.key[1]
    BY <1>3, EntryGood
  <2>3. CASE old.key = k
    <3>1. set_at_entry(old, c, p) = Entry(k, x)
      BY <2>2, <2>3 DEF set_at_entry
    <3>2. SlotSet(Entry(k, x), old, l, path, k, x)
      BY <1>3, <2>3, SetOwnEntry
    <3> QED
      BY <2>1, <3>1, <3>2, Zenon
  <2>4. CASE old.key # k /\ (old.hash = c.hash \/ c.depth >= Levels - 1)
    <3> DEFINE m == Collision(k[1], <<old, Entry(k, x)>>)
    <3>1. set_at_entry(old, c, p) = Collision(c.hash, <<old, Entry(c.key, c.val)>>)
      <4> DEFINE both == Collision(c.hash, <<old, Entry(c.key, c.val)>>)
                 own == Entry(c.key, c.val)
      <4>1. set_at_entry(old, c, p) =
              CASE old.hash = c.hash /\ old.key = c.key -> own
                [] old.hash = c.hash /\ old.key # c.key -> both
                [] old.hash # c.hash -> IF c.depth >= Levels - 1 THEN both ELSE p
        BY DEF set_at_entry
      <4> HIDE DEF both, own
      <4>2. set_at_entry(old, c, p) = both
        BY <2>4, <4>1
      <4> QED
        BY <4>2 DEF both
    <3>2. SlotSet(m, old, l, path, k, x)
      BY <1>3, <2>4, SetCollides
    <3> QED
      BY <2>1, <3>1, <3>2, Zenon
  <2>5. CASE old.hash # c.hash /\ ~(c.depth >= Levels - 1)
    <3>1. set_at_entry(old, c, p) = p
      BY <2>5 DEF set_at_entry
    <3>2. l \in 2 .. Levels /\ SetWorks(l - 1)
      BY <1>1, <2>5
    <3>3. p = SetAt(alone, l - 1, k, x)
      BY <1>2, Zenon
    <3>4. SlotSet(SetAt(alone, l - 1, k, x), old, l, path, k, x)
      BY <1>3, <3>2, SetPushesDown
    <3> QED
      BY <2>1, <3>1, <3>3, <3>4, Zenon
  <2> QED
    BY <2>2, <2>3, <2>4, <2>5
<1>4. CASE old.type = "collision" /\ old \in CollisionType
  <2> DEFINE m == collision_set(old, k, x)
  <2>1. set_at_slot(old, c, p, b) = m
    BY <1>4 DEF set_at_slot
  <2>2. /\ m \in CollisionType /\ m.type = "collision" /\ GoodSlot(m, path, Shaped[l - 1])
        /\ collision_get(m, k) = x
        /\ \A j : j # k => collision_get(m, j) = collision_get(old, j)
    <3>1. old \in CollisionType /\ GoodSlot(old, path, Shaped[l - 1]) /\ On(path, k) /\ k \in Keys /\ x \in Values
      BY <1>4
    <3>2. m = collision_set(old, k, x)
      OBVIOUS
    <3> HIDE DEF m
    <3>3. m \in CollisionType /\ m.type = "collision" /\ GoodSlot(m, path, Shaped[l - 1])
      BY <3>1, <3>2, CollisionSet
    <3>4. collision_get(m, k) = x
      BY <3>1, <3>2, CollisionSet
    <3>5. \A j : j # k => collision_get(m, j) = collision_get(old, j)
      BY <3>1, <3>2, CollisionSet
    <3> QED
      BY <3>3, <3>4, <3>5
  <2> HIDE DEF m
  <2>3. \A j : SlotGot(m, Levels - l, j) = collision_get(m, j) /\ SlotGot(old, Levels - l, j) = collision_get(old, j)
    BY <1>4, <2>2 DEF SlotGot
  <2>4. m \in Slots(l)
    BY <2>2 DEF Slots
  <2>5. SlotSet(m, old, l, path, k, x)
    BY <2>2, <2>3, <2>4, Zenon DEF SlotSet
  <2> QED
    BY <2>1, <2>5
<1>5. CASE old.type = "node" /\ old \in NodeType[l - 1] /\ l - 1 \in Nat \ {0}
  <2> DEFINE e == l - 1   m == SetAt(old, e, k, x)
  <2>1. set_at_slot(old, c, p, b) = m
    <3>1. set_at_slot(old, c, p, b) = b
      BY <1>5 DEF set_at_slot
    <3> QED
      BY <1>2, <3>1, Zenon
  <2>2. e \in Nat \ {0} /\ Levels - e = Levels - l + 1 /\ Len(path) = Levels - e /\ SetWorks(e)
    BY <1>1, <1>5
  <2>3. [node |-> old, path |-> path] \in Shaped[e]
    BY <1>5, NodeGood
  <2> HIDE DEF e
  <2>4. /\ m # Null
        /\ [node |-> m, path |-> path] \in Shaped[e]
        /\ Got(m, Levels - e, k) = x
        /\ \A j \in Keys : j # k => Got(m, Levels - e, j) = Got(old, Levels - e, j)
    <3>1. [node |-> old, path |-> path] \in Shaped[e] /\ Len(path) = Levels - e /\ On(path, k) /\ k \in Keys /\ x \in Values
      BY <2>2, <2>3
    <3> QED
      BY <2>2, <3>1 DEF SetWorks
  <2> HIDE DEF m
  <2>5. m \in NodeType[e] /\ m.type = "node"
    BY <2>2, <2>4, ShapedNode, NodeTypeNodes, NodeIsNode
  <2>6. m \in Slots(l)
    BY <2>5 DEF Slots, e
  <2>7. GoodSlot(m, path, Shaped[l - 1])
    BY <2>4, <2>5, NodeGood DEF e
  <2>8. \A j : SlotGot(m, Levels - l, j) = Got(m, Levels - l + 1, j) /\ SlotGot(old, Levels - l, j) = Got(old, Levels - l + 1, j)
    BY <1>5, <2>5 DEF SlotGot
  <2>9. SlotSet(m, old, l, path, k, x)
    BY <2>2, <2>4, <2>6, <2>7, <2>8, Zenon DEF SlotSet
  <2> QED
    BY <2>1, <2>9
<1> QED
  BY <1>1, <1>3, <1>4, <1>5, SlotKinds

\* Two nodes whose slots at the fragment of a key answer alike.
LEMMA GotSame ==
    ASSUME NEW l \in 1 .. Levels, NEW n \in NodesOf(Slots(l)), NEW m \in NodesOf(Slots(l)), NEW k \in Keys,
           NEW f, f = fragment(k[1], Levels - l),
           f \in m.bitmap <=> f \in n.bitmap,
           f \in n.bitmap => SlotGot(At(m, f), Levels - l, k) = SlotGot(At(n, f), Levels - l, k)
    PROVE  Got(m, Levels - l, k) = Got(n, Levels - l, k)
<1>1. /\ f \notin n.bitmap => Got(n, Levels - l, k) = NoValue
      /\ f \in n.bitmap => Got(n, Levels - l, k) = SlotGot(At(n, f), Levels - l, k)
  BY GotIs
<1>2. /\ f \notin m.bitmap => Got(m, Levels - l, k) = NoValue
      /\ f \in m.bitmap => Got(m, Levels - l, k) = SlotGot(At(m, f), Levels - l, k)
  BY GotIs
<1> QED
  BY <1>1, <1>2, Zenon

LEMMA SetStep ==
    ASSUME NEW l \in 1 .. Levels, l > 1 => SetWorks(l - 1)
    PROVE  SetWorks(l)
<1> SUFFICES ASSUME NEW n, NEW path, NEW k \in Keys, NEW x \in Values,
                    [node |-> n, path |-> path] \in Shaped[l], Len(path) = Levels - l, On(path, k)
             PROVE  /\ SetAt(n, l, k, x) # Null
                    /\ [node |-> SetAt(n, l, k, x), path |-> path] \in Shaped[l]
                    /\ Got(SetAt(n, l, k, x), Levels - l, k) = x
                    /\ \A j \in Keys : j # k => Got(SetAt(n, l, k, x), Levels - l, j) = Got(n, Levels - l, j)
  BY SMT DEF SetWorks
<1> DEFINE depth == Levels - l
           c == [node |-> n, depth |-> depth, hash |-> k[1], key |-> k, val |-> x]
           f == fragment(k[1], depth)
           m == SetAt(n, l, k, x)
           e == Entry(k, x)
<1>1. l \in Nat \ {0} /\ depth \in Nat /\ k[1] \in Hashes
  BY LevelsType, KeysType
<1>2. /\ n \in NodesOf(Slots(l)) /\ path \in Seq(Frags)
      /\ \A g \in n.bitmap : GoodSlot(At(n, g), Append(path, g), Shaped[l - 1])
  BY <1>1, ShapedNode
<1>3. n \in NodeType[l]
  BY <1>1, <1>2, NodeTypeNodes
<1>4. c \in SetCalls
  BY <1>1, <1>3, SetCallIs
<1>5. c.node = n /\ c.depth = depth /\ c.hash = k[1] /\ c.key = k /\ c.val = x
  OBVIOUS
<1>6. m = SetBody(set_from, c)
  BY <1>4, SetIs, Zenon DEF SetAt, node_set
<1>7. f \in Frags /\ Frag(c) = f /\ f = fragment(k[1], Len(path))
  BY <1>1, <1>5, FragmentType DEF Frag
<1>8. On(Append(path, f), k)
  <2> HIDE DEF f
  <2> QED
    BY <1>2, <1>7, OnAppend
<1>9. e \in EntryType /\ e.type = "entry" /\ e.key = k /\ e.val = x /\ e.hash = k[1] /\ e \in Slots(l)
  <2>1. e \in EntryType /\ e.type = "entry" /\ e.key = k /\ e.val = x /\ e.hash = k[1]
    BY NewEntry
  <2> HIDE DEF e
  <2> QED
    BY <2>1 DEF Slots
<1> HIDE DEF c, f, m, e
\* A slot at f and the old slots elsewhere are enough.
<1>10. ASSUME m \in NodesOf(Slots(l)), m.bitmap = n.bitmap \cup {f},
              GoodSlot(At(m, f), Append(path, f), Shaped[l - 1]),
              SlotGot(At(m, f), depth, k) = x,
              \A j \in Keys : j # k /\ fragment(j[1], depth) = f =>
                                Got(n, depth, j) = SlotGot(At(m, f), depth, j),
              \A g \in n.bitmap : g # f => At(m, g) = At(n, g)
       PROVE  /\ m # Null
              /\ [node |-> m, path |-> path] \in Shaped[l]
              /\ Got(m, depth, k) = x
              /\ \A j \in Keys : j # k => Got(m, depth, j) = Got(n, depth, j)
  <2>1. f \in m.bitmap /\ m # Null
    <3>1. f \in m.bitmap
      BY <1>10
    <3> QED
      BY <3>1, NullNode, Zenon
  <2>2. \A g \in m.bitmap : GoodSlot(At(m, g), Append(path, g), Shaped[l - 1])
    <3> SUFFICES ASSUME NEW g \in m.bitmap PROVE GoodSlot(At(m, g), Append(path, g), Shaped[l - 1])
      OBVIOUS
    <3>1. CASE g = f
      BY <1>10, <3>1, Zenon
    <3>2. CASE g # f
      <4>1. g \in n.bitmap
        BY <1>10, <3>2
      <4> QED
        BY <1>2, <1>10, <3>2, <4>1, Zenon
    <3> QED
      BY <3>1, <3>2
  <2>3. [node |-> m, path |-> path] \in Shaped[l]
    BY <1>1, <1>2, <1>10, <2>2, ShapedNode
  <2>4. Got(m, depth, k) = x
    <3>1. Got(m, depth, k) = SlotGot(At(m, f), depth, k)
      BY <1>10, <2>1, GotIs DEF f
    <3> QED
      BY <1>10, <3>1
  <2>5. ASSUME NEW j \in Keys, j # k PROVE Got(m, depth, j) = Got(n, depth, j)
    <3> DEFINE g == fragment(j[1], depth)
    <3>1. CASE g = f
      <4>1. Got(m, depth, j) = SlotGot(At(m, g), depth, j)
        BY <1>10, <2>1, <3>1, GotIs
      <4> QED
        BY <1>10, <2>5, <3>1, <4>1, Zenon
    <3>2. CASE g # f
      <4>1. g \in m.bitmap <=> g \in n.bitmap
        BY <1>10, <3>2
      <4>2. g \in n.bitmap => SlotGot(At(m, g), depth, j) = SlotGot(At(n, g), depth, j)
        BY <1>10, <3>2, Zenon
      <4> QED
        BY <1>2, <1>10, <4>1, <4>2, GotSame
    <3> QED
      BY <3>1, <3>2
  <2> QED
    BY <2>1, <2>3, <2>4, <2>5
<1>11. CASE f \notin n.bitmap
  <2>1. m = Inserted(n, f, e)
    BY <1>4, <1>5, <1>6, <1>7, <1>11, SetCases, Zenon DEF e, Inserted
  <2>2. /\ m \in NodesOf(Slots(l)) /\ m.bitmap = n.bitmap \cup {f} /\ At(m, f) = e
        /\ \A g \in n.bitmap : At(m, g) = At(n, g)
    BY <1>2, <1>7, <1>9, <1>11, <2>1, AtInserted
  <2>3. GoodSlot(At(m, f), Append(path, f), Shaped[l - 1])
    BY <1>8, <1>9, <2>2, EntryGood
  <2>4. SlotGot(At(m, f), depth, k) = x
    BY <1>9, <2>2, SlotGotIs
  <2>5. ASSUME NEW j \in Keys, j # k, fragment(j[1], depth) = f
        PROVE  Got(n, depth, j) = SlotGot(At(m, f), depth, j)
    <3>1. SlotGot(At(m, f), depth, j) = NoValue
      BY <1>9, <2>2, <2>5, SlotGotIs
    <3>2. Got(n, depth, j) = NoValue
      BY <1>2, <1>11, <2>5, GotIs
    <3> QED
      BY <3>1, <3>2
  <2> QED
    BY <1>10, <2>2, <2>3, <2>4, <2>5, Zenon DEF m
<1>12. CASE f \in n.bitmap
  <2> DEFINE old == At(n, f)   new == NewSlot(set_from, c)
             alone == set_at_null(old.hash, Levels - l + 1, old.key, old.val)
             p == set_from[SetBelow(c, alone)]   b == set_from[SetBelow(c, old)]
  <2>1. m = Node(n.bitmap, arr_replace_at(n.entries, popcount(n.bitmap, f), new))
    BY <1>4, <1>5, <1>6, <1>7, <1>12, SetCases, Zenon
  <2>2. new = set_at_slot(old, c, p, b)
    BY <1>5, <1>7, Zenon DEF NewSlot
  <2>3. old \in Slots(l) /\ GoodSlot(old, Append(path, f), Shaped[l - 1])
    BY <1>2, <1>12, AtType
  <2>4. Append(path, f) \in Seq(Frags) /\ Len(Append(path, f)) = Levels - l + 1
    BY <1>1, <1>2, <1>7
  <2>5. SlotSet(new, old, l, Append(path, f), k, x)
    <3>1. p = set_from[SetBelow(c, alone)] /\ b = set_from[SetBelow(c, old)]
      OBVIOUS
    <3>2. alone = set_at_null(old.hash, Levels - l + 1, old.key, old.val)
      OBVIOUS
    <3>3. c.depth = Levels - l /\ c.hash = k[1] /\ c.key = k /\ c.val = x
      BY <1>5
    <3> DEFINE w == Append(path, f)
    <3> HIDE DEF p, b, alone, new, old, w
    <3>4. w \in Seq(Frags) /\ Len(w) = Levels - l + 1 /\ On(w, k) /\ GoodSlot(old, w, Shaped[l - 1]) /\ old \in Slots(l)
      BY <1>8, <2>3, <2>4 DEF w
    <3>5. SlotSet(set_at_slot(old, c, p, b), old, l, w, k, x)
      BY <3>1, <3>2, <3>3, <3>4, SetSlot
    <3> QED
      BY <2>2, <3>5 DEF w
  <2> HIDE DEF new, old
  <2>6. /\ m \in NodesOf(Slots(l)) /\ m.bitmap = n.bitmap /\ At(m, f) = new
        /\ \A g \in n.bitmap : g # f => At(m, g) = At(n, g)
    BY <1>2, <1>12, <2>1, <2>5, AtReplaced DEF SlotSet
  <2>7. m.bitmap = n.bitmap \cup {f}
    BY <1>12, <2>6
  <2>8. ASSUME NEW j \in Keys, j # k, fragment(j[1], depth) = f
        PROVE  Got(n, depth, j) = SlotGot(At(m, f), depth, j)
    <3>1. Got(n, depth, j) = SlotGot(old, depth, j)
      BY <1>2, <1>12, <2>8, GotIs DEF old
    <3>2. SlotGot(new, depth, j) = SlotGot(old, depth, j)
      BY <2>5, <2>8, Zenon DEF SlotSet
    <3> QED
      BY <2>6, <3>1, <3>2, Zenon
  <2>9. GoodSlot(At(m, f), Append(path, f), Shaped[l - 1]) /\ SlotGot(At(m, f), depth, k) = x
    BY <2>5, <2>6, Zenon DEF SlotSet
  <2> QED
    BY <1>10, <2>6, <2>7, <2>8, <2>9, Zenon DEF m
<1> QED
  BY <1>11, <1>12

LEMMA SetAlways == \A l \in 1 .. Levels : SetWorks(l)
<1> DEFINE T == {l \in Nat : l \in 1 .. Levels => SetWorks(l)}
<1>1. 0 \in T
  OBVIOUS
<1>2. ASSUME NEW l \in Nat, l \in T PROVE l + 1 \in T
  <2> SUFFICES ASSUME l + 1 \in 1 .. Levels PROVE SetWorks(l + 1)
    OBVIOUS
  <2>1. l + 1 > 1 => l \in 1 .. Levels /\ (l + 1) - 1 = l
    BY LevelsType
  <2> DEFINE h == l + 1
  <2>2. h \in 1 .. Levels /\ (h > 1 => SetWorks(h - 1))
    BY <1>2, <2>1
  <2> HIDE DEF h
  <2>3. SetWorks(h)
    BY <2>2, SetStep
  <2> QED
    BY <2>3 DEF h
<1> HIDE DEF T
<1>3. \A l \in Nat : l \in T
  BY <1>1, <1>2, Types!NatInduct
<1>4. \A l \in 1 .. Levels : l \in Nat
  OBVIOUS
<1> QED
  BY <1>3, <1>4 DEF T
-----------------------------------------------------------------------------
(***************************************************************************)
(* Removal.                                                                *)
(***************************************************************************)
RemoveAt(n, l, k) == node_remove(n, k[1], Levels - l, k)

\* The node m for the node n of l levels at a path: m is in shape, the key
\* is gone and the other keys keep their values.
RemovedTo(m, n, l, path, k) ==
  /\ [node |-> m, path |-> path] \in Shaped[l]
  /\ Got(m, Levels - l, k) = NoValue
  /\ \A j \in Keys : j # k => Got(m, Levels - l, j) = Got(n, Levels - l, j)

RemoveWorks(l) ==
  \A n, path : \A k \in Keys :
    [node |-> n, path |-> path] \in Shaped[l] => RemovedTo(RemoveAt(n, l, k), n, l, path, k)

\* The slot new for the slot old, without the key.
SlotRemoved(new, old, l, path, k) ==
  /\ new \in Slots(l)
  /\ GoodSlot(new, path, Shaped[l - 1])
  /\ SlotGot(new, Levels - l, k) = NoValue
  /\ \A j \in Keys : j # k => SlotGot(new, Levels - l, j) = SlotGot(old, Levels - l, j)

\* A node that loses its only slot goes away.
LEMMA WithoutIs ==
    ASSUME NEW S, NEW n \in NodesOf(S), NEW f \in n.bitmap
    PROVE  without(n, f, popcount(n.bitmap, f)) = Removed(n, f)
<1> DEFINE m == Removed(n, f)   A == n.bitmap \ {f}
<1>1. m \in NodesOf(S) /\ m.bitmap = A
  BY AtRemoved
<1>2. CASE Len(n.entries) # 1
  BY <1>2, Zenon DEF without, Removed
<1>3. CASE Len(n.entries) = 1
  <2>1. n.bitmap \in SUBSET Frags /\ Cardinality(n.bitmap) = 1
    BY <1>3, NodeFields
  <2>2. A \in SUBSET Frags /\ f \notin A /\ f \in Frags /\ n.bitmap = A \cup {f}
    BY <2>1
  <2> HIDE DEF A
  <2>3. Cardinality(A) \in Nat /\ Cardinality(n.bitmap) = Cardinality(A) + 1 /\ IsFiniteSet(A)
    BY <2>2, PopInsert, PopFinite, FragsFinite, FS_Subset
  <2>4. Cardinality(A) = 0
    BY <2>1, <2>3
  <2>5. A = {}
    BY <2>3, <2>4, FS_EmptySet
  <2> HIDE DEF m
  <2>6. m.entries \in Seq(S) /\ Len(m.entries) = 0 /\ m = Node(m.bitmap, m.entries)
    BY <1>1, <2>4, NodeFields
  <2>7. m.entries = <<>>
    BY <2>6
  <2>8. m = Null
    BY <1>1, <2>5, <2>6, <2>7, Zenon DEF Null
  <2> QED
    BY <1>3, <2>8, Zenon DEF without, m
<1> QED
  BY <1>2, <1>3

\* Nothing to remove.
LEMMA RemovedNothing ==
    ASSUME NEW l \in 1 .. Levels, NEW n, NEW path, [node |-> n, path |-> path] \in Shaped[l],
           NEW k \in Keys, Got(n, Levels - l, k) = NoValue
    PROVE  RemovedTo(n, n, l, path, k)
BY Zenon DEF RemovedTo

\* Another slot at the fragment of the key.
LEMMA RemovedInSlot ==
    ASSUME NEW l \in 1 .. Levels, NEW n, NEW path, [node |-> n, path |-> path] \in Shaped[l],
           NEW k \in Keys, NEW f \in n.bitmap, f = fragment(k[1], Levels - l),
           NEW new, SlotRemoved(new, At(n, f), l, Append(path, f), k),
           NEW m, m = Node(n.bitmap, arr_replace_at(n.entries, popcount(n.bitmap, f), new))
    PROVE  RemovedTo(m, n, l, path, k)
<1> DEFINE old == At(n, f)
<1>1. l \in Nat \ {0}
  BY LevelsType
<1>2. /\ n \in NodesOf(Slots(l)) /\ path \in Seq(Frags)
      /\ \A g \in n.bitmap : GoodSlot(At(n, g), Append(path, g), Shaped[l - 1])
  BY <1>1, ShapedNode
<1>3. /\ new \in Slots(l) /\ GoodSlot(new, Append(path, f), Shaped[l - 1])
      /\ SlotGot(new, Levels - l, k) = NoValue
      /\ \A j \in Keys : j # k => SlotGot(new, Levels - l, j) = SlotGot(At(n, f), Levels - l, j)
  BY Zenon DEF SlotRemoved
<1>4. /\ m \in NodesOf(Slots(l)) /\ m.bitmap = n.bitmap /\ At(m, f) = new
      /\ \A g \in n.bitmap : g # f => At(m, g) = At(n, g)
  BY <1>2, <1>3, AtReplaced
<1>5. \A g \in m.bitmap : GoodSlot(At(m, g), Append(path, g), Shaped[l - 1])
  <2> SUFFICES ASSUME NEW g \in n.bitmap PROVE GoodSlot(At(m, g), Append(path, g), Shaped[l - 1])
    BY <1>4
  <2>1. CASE g = f
    BY <1>3, <1>4, <2>1, Zenon
  <2>2. CASE g # f
    BY <1>2, <1>4, <2>2, Zenon
  <2> QED
    BY <2>1, <2>2
<1>6. [node |-> m, path |-> path] \in Shaped[l]
  BY <1>1, <1>2, <1>4, <1>5, ShapedNode
<1>7. Got(m, Levels - l, k) = NoValue
  <2>1. Got(m, Levels - l, k) = SlotGot(At(m, f), Levels - l, k)
    BY <1>4, GotIs
  <2> QED
    BY <1>3, <1>4, <2>1
<1>8. ASSUME NEW j \in Keys, j # k PROVE Got(m, Levels - l, j) = Got(n, Levels - l, j)
  <2> DEFINE g == fragment(j[1], Levels - l)
  <2>1. g \in n.bitmap => SlotGot(At(m, g), Levels - l, j) = SlotGot(At(n, g), Levels - l, j)
    <3>1. CASE g = f
      BY <1>3, <1>4, <1>8, <3>1, Zenon
    <3>2. CASE g # f
      BY <1>4, <3>2, Zenon
    <3> QED
      BY <3>1, <3>2
  <2> QED
    BY <1>2, <1>4, <2>1, GotSame
<1> QED
  BY <1>6, <1>7, <1>8, Zenon DEF RemovedTo

\* No slot at the fragment of the key.
LEMMA RemovedSlot ==
    ASSUME NEW l \in 1 .. Levels, NEW n, NEW path, [node |-> n, path |-> path] \in Shaped[l],
           NEW k \in Keys, NEW f \in n.bitmap, f = fragment(k[1], Levels - l),
           \A j \in Keys : j # k => SlotGot(At(n, f), Levels - l, j) = NoValue,
           NEW m, m = without(n, f, popcount(n.bitmap, f))
    PROVE  RemovedTo(m, n, l, path, k)
<1>1. l \in Nat \ {0}
  BY LevelsType
<1>2. /\ n \in NodesOf(Slots(l)) /\ path \in Seq(Frags)
      /\ \A g \in n.bitmap : GoodSlot(At(n, g), Append(path, g), Shaped[l - 1])
  BY <1>1, ShapedNode
<1>3. m = Removed(n, f)
  BY <1>2, WithoutIs
<1>4. /\ m \in NodesOf(Slots(l)) /\ m.bitmap = n.bitmap \ {f}
      /\ \A g \in n.bitmap \ {f} : At(m, g) = At(n, g)
  BY <1>2, <1>3, AtRemoved
<1>5. \A g \in m.bitmap : GoodSlot(At(m, g), Append(path, g), Shaped[l - 1])
  BY <1>2, <1>4, Zenon
<1>6. [node |-> m, path |-> path] \in Shaped[l]
  BY <1>1, <1>2, <1>4, <1>5, ShapedNode
<1>7. Got(m, Levels - l, k) = NoValue
  <2>1. f \notin m.bitmap
    BY <1>4
  <2> QED
    BY <1>4, <2>1, GotIs
<1>8. ASSUME NEW j \in Keys, j # k PROVE Got(m, Levels - l, j) = Got(n, Levels - l, j)
  <2> DEFINE g == fragment(j[1], Levels - l)
  <2>1. CASE g = f
    <3>1. g \notin m.bitmap /\ g \in n.bitmap
      BY <1>4, <2>1
    <3>2. Got(m, Levels - l, j) = NoValue
      BY <1>4, <3>1, GotIs
    <3>3. Got(n, Levels - l, j) = SlotGot(At(n, g), Levels - l, j)
      BY <1>2, <3>1, GotIs
    <3> QED
      BY <1>8, <2>1, <3>2, <3>3, Zenon
  <2>2. CASE g # f
    <3>1. g \in m.bitmap <=> g \in n.bitmap
      BY <1>4, <2>2
    <3>2. g \in n.bitmap => SlotGot(At(m, g), Levels - l, j) = SlotGot(At(n, g), Levels - l, j)
      BY <1>4, <2>2
    <3> QED
      BY <1>2, <1>4, <3>1, <3>2, GotSame
  <2> QED
    BY <2>1, <2>2
<1> QED
  BY <1>6, <1>7, <1>8, Zenon DEF RemovedTo

\* The entry of the key, or of another key.
LEMMA RemoveEntry ==
    ASSUME NEW l \in 1 .. Levels, NEW n, NEW path, [node |-> n, path |-> path] \in Shaped[l],
           NEW k \in Keys, NEW f \in n.bitmap, f = fragment(k[1], Levels - l),
           At(n, f).type = "entry",
           NEW m, m = remove_at_entry(n, f, popcount(n.bitmap, f), k[1], k)
    PROVE  RemovedTo(m, n, l, path, k)
<1> DEFINE old == At(n, f)   mine == old.hash = k[1] /\ old.key = k
<1>1. l \in Nat \ {0}
  BY LevelsType
<1>2. n \in NodesOf(Slots(l))
  BY <1>1, ShapedNode
<1>3. m = IF mine THEN without(n, f, popcount(n.bitmap, f)) ELSE n
  BY Zenon DEF remove_at_entry, At
<1>4. \A j \in Keys : SlotGot(old, Levels - l, j) = IF old.hash = j[1] /\ old.key = j THEN old.val ELSE NoValue
  BY SlotGotIs
<1>5. CASE mine
  <2>1. \A j \in Keys : j # k => SlotGot(old, Levels - l, j) = NoValue
    BY <1>4, <1>5, Zenon
  <2> QED
    BY <1>3, <1>5, <2>1, RemovedSlot
<1>6. CASE ~mine
  <2>1. SlotGot(old, Levels - l, k) = NoValue
    BY <1>4, <1>6, Zenon
  <2>2. Got(n, Levels - l, k) = NoValue
    BY <1>2, <2>1, GotIs
  <2> QED
    BY <1>3, <1>6, <2>2, RemovedNothing
<1> QED
  BY <1>5, <1>6

\* A collision with the key, or without it.
LEMMA RemoveCollision ==
    ASSUME NEW l \in 1 .. Levels, NEW n, NEW path, [node |-> n, path |-> path] \in Shaped[l],
           NEW k \in Keys, NEW f \in n.bitmap, f = fragment(k[1], Levels - l),
           At(n, f).type = "collision",
           NEW m, m = remove_at_collision(n, popcount(n.bitmap, f), k)
    PROVE  RemovedTo(m, n, l, path, k)
<1> DEFINE old == At(n, f)   es == old.entries   w == Append(path, f)
           at == FirstPlace(es, k)   left == arr_remove_at(es, at - 1)
           new == IF Len(left) = 1 THEN left[1] ELSE [old EXCEPT !.entries = left]
<1>1. l \in Nat \ {0}
  BY LevelsType
<1>2. n \in NodesOf(Slots(l)) /\ GoodSlot(old, w, Shaped[l - 1])
  BY <1>1, ShapedNode
<1>3. old \in Slots(l)
  BY <1>2, AtType
<1>4. old \in CollisionType
  BY <1>1, <1>3, SlotKinds
<1>5. es \in Seq(EntryType) /\ Len(es) >= 2 /\ Unique(es) /\ AllOn(es, w)
  <2> HIDE DEF w, old
  <2> QED
    BY <1>2, <1>4, CollisionGood, CollisionFields
<1>6. m = IF Places(es, k) = {} THEN n
          ELSE Node(n.bitmap, arr_replace_at(n.entries, popcount(n.bitmap, f), new))
  BY Zenon DEF remove_at_collision, At
<1>7. \A j \in Keys : SlotGot(old, Levels - l, j) = Look(es, j)
  BY SlotGotIs
<1>8. CASE Places(es, k) = {}
  <2>1. SlotGot(old, Levels - l, k) = NoValue
    BY <1>7, <1>8, Zenon DEF Look
  <2>2. Got(n, Levels - l, k) = NoValue
    BY <1>2, <2>1, GotIs
  <2> QED
    BY <1>6, <1>8, <2>2, RemovedNothing
<1>9. CASE Places(es, k) # {}
  <2>1. at \in DOMAIN es /\ es[at].key = k
    <3>1. PICK i \in DOMAIN es : es[i].key = k
      BY <1>9, Zenon DEF Places
    <3> HIDE DEF es, at
    <3>2. FirstPlace(es, es[i].key) = i
      BY <1>5, LookAt
    <3> QED
      BY <3>1, <3>2 DEF at
  <2>2. /\ left \in Seq(EntryType) /\ Len(left) = Len(es) - 1 /\ Unique(left) /\ AllOn(left, w)
        /\ Look(left, k) = NoValue
        /\ \A j : j # k => Look(left, j) = Look(es, j)
    <3> HIDE DEF es, at, w
    <3> QED
      BY <1>5, <2>1, ListRemove
  <2> HIDE DEF left
  <2>3. SlotRemoved(new, old, l, w, k)
    <3>1. CASE Len(left) = 1
      <4>1. new = left[1] /\ 1 \in DOMAIN left /\ left[1] \in EntryType
        <5>1. new = left[1]
          BY <3>1, Zenon
        <5>2. left \in Seq(EntryType)
          BY <2>2
        <5>3. 1 \in DOMAIN left /\ left[1] \in EntryType
          <6> HIDE DEF new, w, old, es, at
          <6>1. DOMAIN left = 1 .. 1
            BY <3>1, <5>2
          <6>2. \A i \in DOMAIN left : left[i] \in EntryType
            BY <5>2
          <6> QED
            BY <6>1, <6>2
        <5> QED
          BY <5>1, <5>3
      <4>2. new \in EntryType /\ new.type = "entry" /\ On(w, new.key) /\ new.hash = new.key[1]
        <5>1. On(w, left[1].key) /\ left[1].hash = left[1].key[1]
          BY <2>2, <4>1, Zenon DEF AllOn
        <5> QED
          BY <4>1, <5>1, EntryFields
      <4>3. \A j \in Keys : Look(left, j) = IF new.key = j THEN new.val ELSE NoValue
        <5> SUFFICES ASSUME NEW j \in Keys PROVE Look(left, j) = IF new.key = j THEN new.val ELSE NoValue
          OBVIOUS
        <5> HIDE DEF new, w
        <5>1. CASE new.key = j
          <6>1. Look(left, left[1].key) = left[1].val
            BY <2>2, <4>1, LookAt
          <6> QED
            BY <4>1, <5>1, <6>1
        <5>2. CASE new.key # j
          <6>1. DOMAIN left = {1}
            BY <2>2, <3>1
          <6>2. \A i \in DOMAIN left : left[i].key # j
            BY <4>1, <5>2, <6>1
          <6>3. Look(left, j) = NoValue
            BY <6>2, LookNone
          <6> QED
            BY <5>2, <6>3
        <5> QED
          BY <5>1, <5>2
      <4> HIDE DEF new, w, old, es
      <4>4. \A j \in Keys : SlotGot(new, Levels - l, j) = Look(left, j)
        <5> SUFFICES ASSUME NEW j \in Keys PROVE SlotGot(new, Levels - l, j) = Look(left, j)
          OBVIOUS
        <5>1. SlotGot(new, Levels - l, j) = IF new.hash = j[1] /\ new.key = j THEN new.val ELSE NoValue
          BY <4>2, SlotGotIs
        <5>2. new.key = j => new.hash = j[1]
          BY <4>2
        <5> QED
          BY <4>3, <5>1, <5>2, Zenon
      <4>5. GoodSlot(new, w, Shaped[l - 1])
        BY <4>2, EntryGood
      <4>6. new \in Slots(l)
        BY <4>2 DEF Slots
      <4> QED
        BY <1>7, <2>2, <4>4, <4>5, <4>6, Zenon DEF SlotRemoved
    <3>2. CASE Len(left) # 1
      <4>1. new = [old EXCEPT !.entries = left]
        BY <3>2, Zenon
      <4>2. left \in Seq(EntryType) /\ Len(left) = Len(es) - 1 /\ es \in Seq(EntryType) /\ Len(es) >= 2
        BY <1>5, <2>2
      <4> HIDE DEF new, w, old, es
      <4>3. /\ new \in CollisionType /\ new.type = "collision" /\ new.entries = left
            /\ Len(left) >= 2
        BY <1>4, <3>2, <4>1, <4>2, CollisionFields
      <4>4. \A j \in Keys : SlotGot(new, Levels - l, j) = Look(left, j)
        BY <4>3, SlotGotIs
      <4>5. GoodSlot(new, w, Shaped[l - 1])
        BY <2>2, <4>3, CollisionGood
      <4>6. new \in Slots(l)
        BY <4>3 DEF Slots
      <4> QED
        BY <1>7, <2>2, <4>4, <4>5, <4>6, Zenon DEF SlotRemoved
    <3> QED
      BY <3>1, <3>2
  <2>4. m = Node(n.bitmap, arr_replace_at(n.entries, popcount(n.bitmap, f), new))
    BY <1>6, <1>9, Zenon
  <2> HIDE DEF new
  <2> QED
    BY <2>3, <2>4, RemovedInSlot
<1> QED
  BY <1>8, <1>9

\* A node one level down.
LEMMA RemoveNode ==
    ASSUME NEW l \in 1 .. Levels, l > 1 => RemoveWorks(l - 1),
           NEW n, NEW path, [node |-> n, path |-> path] \in Shaped[l],
           NEW k \in Keys, NEW f \in n.bitmap, f = fragment(k[1], Levels - l),
           At(n, f).type = "node",
           NEW b, b = RemoveAt(At(n, f), l - 1, k),
           NEW m, m = remove_at_node(n, f, popcount(n.bitmap, f), b)
    PROVE  RemovedTo(m, n, l, path, k)
<1> DEFINE old == At(n, f)   w == Append(path, f)   h == l - 1
<1>1. l \in Nat \ {0} /\ h \in Nat
  BY LevelsType
<1>2. n \in NodesOf(Slots(l)) /\ GoodSlot(old, w, Shaped[l - 1])
  BY <1>1, ShapedNode
<1>3. old # Null /\ [node |-> old, path |-> w] \in Shaped[h]
  <2> HIDE DEF old, w
  <2> QED
    BY <1>2, NodeGood DEF old
<1>4. h # 0
  BY <1>3, NoneShaped
<1>5. h \in 1 .. Levels /\ RemoveWorks(h) /\ Levels - h = Levels - l + 1
  BY <1>1, <1>4, LevelsType
<1> HIDE DEF h
<1>6. RemovedTo(b, old, h, w, k)
  <2>1. b = RemoveAt(old, h, k)
    BY DEF h
  <2> HIDE DEF old, w
  <2> QED
    BY <1>3, <1>5, <2>1, Zenon DEF RemoveWorks
<1>7. /\ [node |-> b, path |-> w] \in Shaped[h]
      /\ Got(b, Levels - h, k) = NoValue
      /\ \A j \in Keys : j # k => Got(b, Levels - h, j) = Got(old, Levels - h, j)
  BY <1>6, Zenon DEF RemovedTo
<1>8. \A j \in Keys : SlotGot(old, Levels - l, j) = Got(old, Levels - h, j)
  <2> HIDE DEF old, w
  <2> SUFFICES ASSUME NEW j \in Keys PROVE SlotGot(old, Levels - l, j) = Got(old, Levels - h, j)
    OBVIOUS
  <2>1. SlotGot(old, Levels - l, j) = Got(old, Levels - l + 1, j)
    BY SlotGotIs DEF old
  <2> QED
    BY <1>5, <2>1, Zenon
<1>9. b \in NodesOf(Slots(h))
  BY <1>1, <1>4, <1>7, ShapedNode
<1>10. b.type = "node" /\ b \in NodeType[h]
  BY <1>1, <1>4, <1>9, NodeFields, NodeTypeNodes
<1>11. CASE b = Null
  <2>1. ASSUME NEW j \in Keys PROVE Got(b, Levels - h, j) = NoValue
    <3>1. fragment(j[1], Levels - h) \notin b.bitmap
      BY <1>11, NullNode
    <3> QED
      BY <1>5, <1>9, <3>1, GotIs
  <2>2. \A j \in Keys : j # k => SlotGot(old, Levels - l, j) = NoValue
    BY <1>7, <1>8, <2>1, Zenon
  <2>3. m = without(n, f, popcount(n.bitmap, f))
    BY <1>11, Zenon DEF remove_at_node
  <2> QED
    BY <2>2, <2>3, RemovedSlot
<1>12. CASE b # Null
  <2>1. m = Node(n.bitmap, arr_replace_at(n.entries, popcount(n.bitmap, f), b))
    BY <1>12, Zenon DEF remove_at_node
  <2>2. SlotRemoved(b, old, l, w, k)
    <3>1. b \in Slots(l)
      BY <1>10 DEF Slots, h
    <3>2. GoodSlot(b, w, Shaped[l - 1])
      BY <1>7, <1>10, <1>12, NodeGood DEF h
    <3>3. ASSUME NEW j \in Keys PROVE SlotGot(b, Levels - l, j) = Got(b, Levels - h, j)
      <4>1. SlotGot(b, Levels - l, j) = Got(b, Levels - l + 1, j)
        BY <1>10, SlotGotIs
      <4> QED
        BY <1>5, <4>1, Zenon
    <3> HIDE DEF old, w
    <3> QED
      BY <1>7, <1>8, <3>1, <3>2, <3>3, Zenon DEF SlotRemoved
  <2> QED
    BY <2>1, <2>2, RemovedInSlot
<1> QED
  BY <1>11, <1>12

LEMMA RemoveStep ==
    ASSUME NEW l \in 1 .. Levels, l > 1 => RemoveWorks(l - 1)
    PROVE  RemoveWorks(l)
<1> SUFFICES ASSUME NEW n, NEW path, NEW k \in Keys, [node |-> n, path |-> path] \in Shaped[l]
             PROVE  RemovedTo(RemoveAt(n, l, k), n, l, path, k)
  BY SMT DEF RemoveWorks
<1> DEFINE depth == Levels - l
           c == [node |-> n, depth |-> depth, hash |-> k[1], key |-> k]
           f == fragment(k[1], depth)
           m == RemoveAt(n, l, k)
           idx == popcount(n.bitmap, f)
           slot == At(n, f)
           b == remove_from[Below(c, slot)]
<1>1. l \in Nat \ {0} /\ depth \in Nat /\ k[1] \in Hashes
  BY LevelsType, KeysType
<1>2. n \in NodesOf(Slots(l))
  BY <1>1, ShapedNode
<1>3. n \in NodeType[l]
  BY <1>1, <1>2, NodeTypeNodes
<1>4. c \in Calls
  BY <1>1, <1>3, CallIs
<1>5. c.node = n /\ c.depth = depth /\ c.hash = k[1] /\ c.key = k
  OBVIOUS
<1>6. m = RemoveBody(remove_from, c)
  BY <1>4, RemoveIs, Zenon DEF RemoveAt, node_remove
<1>7. Frag(c) = f
  BY <1>5 DEF Frag
<1>8. b = RemoveAt(slot, l - 1, k)
  <2>1. depth + 1 = Levels - (l - 1)
    BY <1>1, LevelsType
  <2> QED
    BY <1>5, <2>1, Zenon DEF Below, RemoveAt, node_remove
<1> HIDE DEF c, f, m
<1>9. /\ f \notin n.bitmap => m = n
      /\ f \in n.bitmap =>
           /\ slot.type = "entry" => m = remove_at_entry(n, f, idx, k[1], k)
           /\ slot.type = "node" => m = remove_at_node(n, f, idx, b)
           /\ slot.type = "collision" => m = remove_at_collision(n, idx, k)
  BY <1>4, <1>5, <1>6, <1>7, RemoveCases, Zenon
<1> HIDE DEF b
<1>10. CASE f \notin n.bitmap
  <2>1. Got(n, depth, k) = NoValue
    BY <1>2, <1>10, GotIs DEF f
  <2>2. RemovedTo(n, n, l, path, k)
    BY <2>1, RemovedNothing
  <2> QED
    BY <1>9, <1>10, <2>2, Zenon DEF m
<1>11. CASE f \in n.bitmap
  <2>1. slot \in Slots(l) /\ f = fragment(k[1], Levels - l)
    BY <1>2, <1>11, AtType DEF f
  <2>2. slot.type \in {"entry", "node", "collision"}
    BY <1>1, <2>1, SlotKinds
  <2>3. CASE slot.type = "entry"
    BY <1>9, <1>11, <2>1, <2>3, RemoveEntry DEF m
  <2>4. CASE slot.type = "node"
    BY <1>8, <1>9, <1>11, <2>1, <2>4, RemoveNode DEF m
  <2>5. CASE slot.type = "collision"
    BY <1>9, <1>11, <2>1, <2>5, RemoveCollision DEF m
  <2> QED
    BY <2>2, <2>3, <2>4, <2>5
<1> QED
  BY <1>10, <1>11

LEMMA RemoveAlways == \A l \in 1 .. Levels : RemoveWorks(l)
<1> DEFINE T == {l \in Nat : l \in 1 .. Levels => RemoveWorks(l)}
<1>1. 0 \in T
  OBVIOUS
<1>2. ASSUME NEW l \in Nat, l \in T PROVE l + 1 \in T
  <2> SUFFICES ASSUME l + 1 \in 1 .. Levels PROVE RemoveWorks(l + 1)
    OBVIOUS
  <2>1. l + 1 > 1 => l \in 1 .. Levels /\ (l + 1) - 1 = l
    BY LevelsType
  <2> DEFINE h == l + 1
  <2>2. h \in 1 .. Levels /\ (h > 1 => RemoveWorks(h - 1))
    BY <1>2, <2>1
  <2> HIDE DEF h
  <2>3. RemoveWorks(h)
    BY <2>2, RemoveStep
  <2> QED
    BY <2>3 DEF h
<1> HIDE DEF T
<1>3. \A l \in Nat : l \in T
  BY <1>1, <1>2, Types!NatInduct
<1>4. \A l \in 1 .. Levels : l \in Nat
  OBVIOUS
<1> QED
  BY <1>3, <1>4 DEF T

-----------------------------------------------------------------------------
(***************************************************************************)
(* The order vector.                                                       *)
(***************************************************************************)
KeptUpTo(order, k, u) == kept[[order |-> order, key |-> k, upto |-> u]]

LEMMA KeptStep ==
    ASSUME NEW order \in Seq(Keys), NEW k \in Keys
    PROVE  /\ KeptUpTo(order, k, 0) = <<>>
           /\ \A u \in Nat : KeptUpTo(order, k, u + 1) =
                IF order[u + 1] = k THEN KeptUpTo(order, k, u) ELSE Append(KeptUpTo(order, k, u), order[u + 1])
<1> DEFINE C(u) == [order |-> order, key |-> k, upto |-> u]
<1>1. \A u \in Nat : C(u) \in KeptCalls /\ C(u).order = order /\ C(u).key = k /\ C(u).upto = u
  BY DEF KeptCalls
<1>2. \A u \in Nat : [C(u + 1) EXCEPT !.upto = @ - 1] = C(u)
  OBVIOUS
<1>3. \A u \in Nat : u + 1 \in Nat /\ u + 1 # 0
  OBVIOUS
<1> HIDE DEF C
<1>4. kept[C(0)] = <<>>
  <2>1. kept[C(0)] = KeptBody(kept, C(0)) /\ C(0).upto = 0
    BY <1>1, KeptIs
  <2> QED
    BY <2>1, Zenon DEF KeptBody
<1>5. ASSUME NEW u \in Nat
      PROVE  kept[C(u + 1)] = IF order[u + 1] = k THEN kept[C(u)] ELSE Append(kept[C(u)], order[u + 1])
  <2>1. kept[C(u + 1)] = KeptBody(kept, C(u + 1))
    BY <1>1, <1>3, KeptIs
  <2>2. C(u + 1).order = order /\ C(u + 1).key = k /\ C(u + 1).upto = u + 1 /\ u + 1 # 0
    BY <1>1, <1>3
  <2>3. KeptBody(kept, C(u + 1)) =
          IF order[u + 1] = k THEN kept[[C(u + 1) EXCEPT !.upto = @ - 1]]
          ELSE Append(kept[[C(u + 1) EXCEPT !.upto = @ - 1]], order[u + 1])
    BY <2>2, Zenon DEF KeptBody
  <2> QED
    BY <1>2, <2>1, <2>3, Zenon
<1> QED
  BY <1>4, <1>5, Zenon DEF KeptUpTo, C

\* The order without the place of a key.
LEMMA OrderRemoved ==
    ASSUME NEW order \in Seq(Keys), NEW k \in Keys,
           \A i, j \in DOMAIN order : order[i] = order[j] => i = j,
           NEW at \in DOMAIN order, order[at] = k
    PROVE  /\ order_remove_key(order, k) \in Seq(Keys)
           /\ Len(order_remove_key(order, k)) = Len(order) - 1
           /\ \A j \in 1 .. (Len(order) - 1) :
                order_remove_key(order, k)[j] = order[IF j < at THEN j ELSE j + 1]
<1> DEFINE K(u) == KeptUpTo(order, k, u)
           Done(u) == /\ K(u) \in Seq(Keys)
                      /\ Len(K(u)) = IF u < at THEN u ELSE u - 1
                      /\ \A j \in 1 .. Len(K(u)) : K(u)[j] = order[IF j < at THEN j ELSE j + 1]
           T == {u \in Nat : u <= Len(order) => Done(u)}
<1>1. K(0) = <<>> /\ \A u \in Nat : K(u + 1) = IF order[u + 1] = k THEN K(u) ELSE Append(K(u), order[u + 1])
  BY KeptStep
<1>2. Len(order) \in Nat /\ at \in 1 .. Len(order) /\ DOMAIN order = 1 .. Len(order)
  OBVIOUS
<1>3. 0 \in T
  <2>1. K(0) = <<>>
    BY <1>1
  <2> DEFINE a == K(0)
  <2> SUFFICES /\ a \in Seq(Keys)
               /\ Len(a) = IF 0 < at THEN 0 ELSE 0 - 1
               /\ \A j \in 1 .. Len(a) : a[j] = order[IF j < at THEN j ELSE j + 1]
    BY Zenon
  <2> HIDE DEF K, a
  <2>2. a = <<>>
    BY <2>1 DEF a
  <2>3. a \in Seq(Keys) /\ Len(a) = 0
    BY <2>2
  <2> QED
    BY <1>2, <2>3
<1>4. ASSUME NEW u \in Nat, u \in T PROVE u + 1 \in T
  <2> SUFFICES ASSUME u + 1 <= Len(order) PROVE Done(u + 1)
    OBVIOUS
  <2> DEFINE a == K(u)   b == K(u + 1)   v == u + 1
  <2>1. b = IF order[v] = k THEN a ELSE Append(a, order[v])
    BY <1>1
  <2>2. /\ a \in Seq(Keys) /\ Len(a) = IF u < at THEN u ELSE u - 1
        /\ \A j \in 1 .. Len(a) : a[j] = order[IF j < at THEN j ELSE j + 1]
    BY <1>2, <1>4
  <2>3. v \in DOMAIN order /\ order[v] \in Keys /\ (order[v] = k <=> v = at)
    BY <1>2
  <2> SUFFICES /\ b \in Seq(Keys)
               /\ Len(b) = IF v < at THEN v ELSE v - 1
               /\ \A j \in 1 .. Len(b) : b[j] = order[IF j < at THEN j ELSE j + 1]
    BY Zenon
  <2> HIDE DEF a, b, K
  <2>4. CASE v = at
    <3>1. b = a
      BY <2>1, <2>3, <2>4
    <3>2. u < at /\ v - 1 = u /\ ~(v < at)
      BY <1>2, <2>4
    <3> QED
      BY <2>2, <3>1, <3>2
  <2>5. CASE v # at
    <3>1. b = Append(a, order[v])
      BY <2>1, <2>3, <2>5
    <3>2. b \in Seq(Keys) /\ Len(b) = Len(a) + 1 /\ b[Len(a) + 1] = order[v]
          /\ \A j \in 1 .. Len(a) : b[j] = a[j]
      BY <2>2, <2>3, <3>1
    <3>3. Len(b) = IF v < at THEN v ELSE v - 1
      BY <1>2, <2>2, <2>5, <3>2
    <3>4. ASSUME NEW j \in 1 .. Len(b) PROVE b[j] = order[IF j < at THEN j ELSE j + 1]
      <4>1. CASE j \in 1 .. Len(a)
        BY <2>2, <3>2, <4>1, Zenon
      <4>2. CASE j = Len(a) + 1
        <5>1. v = IF j < at THEN j ELSE j + 1
          BY <1>2, <2>2, <2>5, <3>2, <4>2
        <5> QED
          BY <3>2, <4>2, <5>1, Zenon
      <4>3. j \in 1 .. Len(a) \/ j = Len(a) + 1
        BY <2>2, <3>2
      <4> QED
        BY <4>1, <4>2, <4>3
    <3> QED
      BY <3>2, <3>3, <3>4, Zenon
  <2> QED
    BY <2>4, <2>5
<1> HIDE DEF T
<1>5. \A u \in Nat : u \in T
  BY <1>3, <1>4, Types!NatInduct
<1>6. Done(Len(order))
  <2> DEFINE n == Len(order)
  <2> HIDE DEF n, Done
  <2>1. n \in Nat /\ n <= Len(order)
    BY <1>2 DEF n
  <2>2. n <= Len(order) => Done(n)
    BY <1>5, <2>1, Zenon DEF T
  <2> QED
    BY <2>1, <2>2 DEF n
<1>7. K(Len(order)) = order_remove_key(order, k)
  BY Zenon DEF KeptUpTo, order_remove_key
<1> DEFINE r == K(Len(order))
<1>8. /\ r \in Seq(Keys)
      /\ Len(r) = IF Len(order) < at THEN Len(order) ELSE Len(order) - 1
      /\ \A j \in 1 .. Len(r) : r[j] = order[IF j < at THEN j ELSE j + 1]
  BY <1>6, Zenon
<1> HIDE DEF r, K
<1>9. Len(r) = Len(order) - 1
  <2>1. ~(Len(order) < at)
    BY <1>2
  <2> QED
    BY <1>8, <2>1
<1>10. r = order_remove_key(order, k)
  BY <1>7 DEF r
<1> QED
  BY <1>8, <1>9, <1>10, Zenon

-----------------------------------------------------------------------------
(***************************************************************************)
(* Dictionaries.                                                           *)
(***************************************************************************)
\* The inductive invariant, of any dictionary: the trie is in shape, the
\* order vector has the keys that get finds and each of them once.
Distinct(order) == \A i, j \in DOMAIN order : order[i] = order[j] => i = j
Listed(order, k) == \E i \in DOMAIN order : order[i] = k

Dict(x) ==
  /\ x \in [size : Nat, root : NodeType[Levels], order : Seq(Keys)]
  /\ x.size = Len(x.order)
  /\ Distinct(x.order)
  /\ [node |-> x.root, path |-> <<>>] \in Shaped[Levels]
  /\ \A k \in Keys : has(x, k) <=> Listed(x.order, k)
  /\ \A k \in Keys : get(x, k) \in Values \cup {NoValue}

LEMMA TopLevel ==
    /\ Levels \in 1 .. Levels /\ Levels \in Nat \ {0} /\ Levels - Levels = 0
    /\ \A k : On(<<>>, k)
    /\ NoValue \notin Values
BY LevelsType, HashAssumption DEF On, NoValue

LEMMA GetIsGot ==
    ASSUME NEW x, NEW k
    PROVE  get(x, k) = Got(x.root, Levels - Levels, k)
BY TopLevel, Zenon DEF get, node_get, hash_key, Got

LEMMA SetRoot ==
    ASSUME NEW x, Dict(x), NEW k \in Keys, NEW v \in Values, NEW y, y.root = node_set(x.root, hash_key(k), 0, k, v)
    PROVE  /\ y.root \in NodeType[Levels]
           /\ [node |-> y.root, path |-> <<>>] \in Shaped[Levels]
           /\ get(y, k) = v
           /\ \A j \in Keys : j # k => get(y, j) = get(x, j)
<1> DEFINE path == <<>>
<1>1. [node |-> x.root, path |-> path] \in Shaped[Levels] /\ Len(path) = Levels - Levels /\ On(path, k)
  BY TopLevel DEF Dict
<1>2. y.root = SetAt(x.root, Levels, k, v)
  BY TopLevel, Zenon DEF SetAt, hash_key
<1>3. SetWorks(Levels)
  BY SetAlways, TopLevel, Zenon
<1> HIDE DEF path
<1>4. /\ [node |-> y.root, path |-> path] \in Shaped[Levels]
      /\ Got(y.root, Levels - Levels, k) = v
      /\ \A j \in Keys : j # k => Got(y.root, Levels - Levels, j) = Got(x.root, Levels - Levels, j)
  <2> DEFINE n == x.root   m == SetAt(n, Levels, k, v)
  <2>1. [node |-> n, path |-> path] \in Shaped[Levels] /\ Len(path) = Levels - Levels /\ On(path, k)
    BY <1>1
  <2> HIDE DEF n
  <2>2. /\ [node |-> m, path |-> path] \in Shaped[Levels]
        /\ Got(m, Levels - Levels, k) = v
        /\ \A j \in Keys : j # k => Got(m, Levels - Levels, j) = Got(n, Levels - Levels, j)
    BY <1>3, <2>1 DEF SetWorks
  <2> HIDE DEF m
  <2>3. y.root = m
    BY <1>2 DEF n, m
  <2> QED
    BY <2>2, <2>3 DEF n
<1>5. y.root \in NodeType[Levels]
  BY <1>4, TopLevel, ShapedNode, NodeTypeNodes
<1> QED
  BY <1>4, <1>5, GetIsGot, Zenon DEF path

LEMMA RemoveRoot ==
    ASSUME NEW x, Dict(x), NEW k \in Keys, NEW y, y.root = node_remove(x.root, hash_key(k), 0, k)
    PROVE  /\ y.root \in NodeType[Levels]
           /\ [node |-> y.root, path |-> <<>>] \in Shaped[Levels]
           /\ get(y, k) = NoValue
           /\ \A j \in Keys : j # k => get(y, j) = get(x, j)
<1> DEFINE path == <<>>
<1>1. [node |-> x.root, path |-> path] \in Shaped[Levels]
  BY DEF Dict
<1>2. y.root = RemoveAt(x.root, Levels, k)
  BY TopLevel, Zenon DEF RemoveAt, hash_key
<1>3. RemoveWorks(Levels)
  BY RemoveAlways, TopLevel, Zenon
<1> HIDE DEF path
<1>4. /\ [node |-> y.root, path |-> path] \in Shaped[Levels]
      /\ Got(y.root, Levels - Levels, k) = NoValue
      /\ \A j \in Keys : j # k => Got(y.root, Levels - Levels, j) = Got(x.root, Levels - Levels, j)
  <2> DEFINE n == x.root   m == RemoveAt(n, Levels, k)
  <2>1. [node |-> n, path |-> path] \in Shaped[Levels]
    BY <1>1
  <2> HIDE DEF n
  <2>2. RemovedTo(m, n, Levels, path, k)
    BY <1>3, <2>1 DEF RemoveWorks
  <2> HIDE DEF m
  <2>3. y.root = m
    BY <1>2 DEF n, m
  <2> QED
    BY <2>2, <2>3 DEF n, RemovedTo
<1>5. y.root \in NodeType[Levels]
  BY <1>4, TopLevel, ShapedNode, NodeTypeNodes
<1> QED
  BY <1>4, <1>5, GetIsGot, Zenon DEF path

\* The in-place forms make the dictionary that the copying forms make.
LEMMA InPlaceIsCopy ==
    ASSUME NEW x, Dict(x), NEW k \in Keys
    PROVE  /\ \A v \in Values : set_in_place(x, k, v) = set(x, k, v)
           /\ remove_in_place(x, k) = remove(x, k)
<1>1. x \in [size : Nat, root : NodeType[Levels], order : Seq(Keys)]
  BY DEF Dict
<1>2. \A v \in Values : set_in_place(x, k, v) = set(x, k, v)
  BY <1>1 DEF set_in_place, set
<1>3. remove_in_place(x, k) = remove(x, k)
  BY <1>1 DEF remove_in_place, remove
<1> QED
  BY <1>2, <1>3

\* A new dictionary.
LEMMA MakeDict == Dict(make)
<1>1. make.size = 0 /\ make.root = Null /\ make.order = <<>>
  BY DEF make
<1>2. Null \in NodesOf(Slots(Levels))
  <2>1. <<>> \in Seq(Slots(Levels)) /\ {} \in SUBSET Frags /\ Cardinality({}) = Len(<<>>)
    BY FS_EmptySet
  <2> QED
    BY <2>1, NodeIs, Zenon DEF Null
<1>3. Null \in NodeType[Levels] /\ [node |-> Null, path |-> <<>>] \in Shaped[Levels]
  <2> DEFINE path == <<>>   l == Levels
  <2>1. path \in Seq(Frags) /\ l \in Nat \ {0} /\ Null \in NodesOf(Slots(l))
    BY <1>2, TopLevel
  <2>2. \A f \in Null.bitmap : GoodSlot(At(Null, f), Append(path, f), Shaped[l - 1])
    BY NullNode
  <2> HIDE DEF path, l
  <2>3. Null \in NodeType[l]
    BY <2>1, NodeTypeNodes
  <2>4. [node |-> Null, path |-> path] \in Shaped[l]
    BY <2>1, <2>2, ShapedNode
  <2> QED
    BY <2>3, <2>4 DEF path, l
<1>4. ASSUME NEW k \in Keys PROVE get(make, k) = NoValue
  <2>1. fragment(k[1], Levels - Levels) \notin Null.bitmap
    BY NullNode
  <2>2. Got(Null, Levels - Levels, k) = NoValue
    BY <1>2, <2>1, TopLevel, GotIs
  <2> QED
    BY <1>1, <2>2, GetIsGot
<1>5. \A k \in Keys : ~has(make, k) /\ ~Listed(make.order, k)
  BY <1>1, <1>4 DEF has, Listed
<1>6. make \in [size : Nat, root : NodeType[Levels], order : Seq(Keys)]
  BY <1>3 DEF make
<1> QED
  BY <1>1, <1>3, <1>4, <1>5, <1>6 DEF Dict, Distinct

\* Setting a key keeps the invariant; a key that is new goes to the end of
\* the order.
LEMMA SetDict ==
    ASSUME NEW x, Dict(x), NEW k \in Keys, NEW v \in Values, NEW y, y = set(x, k, v)
    PROVE  /\ Dict(y)
           /\ get(y, k) = v
           /\ \A j \in Keys : j # k => get(y, j) = get(x, j)
           /\ y.order = IF has(x, k) THEN x.order ELSE Append(x.order, k)
<1>1. /\ x \in [size : Nat, root : NodeType[Levels], order : Seq(Keys)]
      /\ x.size = Len(x.order) /\ Distinct(x.order)
      /\ \A j \in Keys : has(x, j) <=> Listed(x.order, j)
      /\ \A j \in Keys : get(x, j) \in Values \cup {NoValue}
  BY DEF Dict
<1> DEFINE o == x.order   q == y.order
<1>2. /\ y.size = IF has(x, k) THEN x.size ELSE x.size + 1
      /\ y.root = node_set(x.root, hash_key(k), 0, k, v)
      /\ q = IF has(x, k) THEN o ELSE Append(o, k)
      /\ y = [size |-> y.size, root |-> y.root, order |-> y.order]
  BY DEF set
<1>3. /\ y.root \in NodeType[Levels]
      /\ [node |-> y.root, path |-> <<>>] \in Shaped[Levels]
      /\ get(y, k) = v
      /\ \A j \in Keys : j # k => get(y, j) = get(x, j)
  BY <1>2, SetRoot
<1>4. o \in Seq(Keys) /\ x.size \in Nat
  BY <1>1
<1>5. \A j \in Keys : has(y, j) <=> (j = k \/ has(x, j))
  BY <1>3, TopLevel DEF has
<1>6. /\ q \in Seq(Keys) /\ y.size = Len(q) /\ Distinct(q)
      /\ \A j \in Keys : Listed(q, j) <=> (j = k \/ Listed(o, j))
  <2>1. CASE has(x, k)
    <3>1. q = o /\ y.size = x.size
      BY <1>2, <2>1
    <3>2. Listed(o, k)
      BY <1>1, <2>1
    <3> QED
      BY <1>1, <3>1, <3>2
  <2>2. CASE ~has(x, k)
    <3>1. q = Append(o, k) /\ y.size = x.size + 1
      BY <1>2, <2>2
    <3>2. ~Listed(o, k)
      BY <1>1, <2>2
    <3> HIDE DEF o, q
    <3>3. x.size = Len(o) /\ Distinct(o)
      BY <1>1 DEF o
    <3>4. q \in Seq(Keys) /\ Len(q) = Len(o) + 1 /\ DOMAIN q = 1 .. (Len(o) + 1) /\ DOMAIN o = 1 .. Len(o)
      BY <1>4, <3>1
    <3>5. q[Len(o) + 1] = k /\ \A i \in DOMAIN o : q[i] = o[i]
      BY <1>4, <3>1
    <3>6. \A i \in DOMAIN q : i \in DOMAIN o \/ i = Len(o) + 1
      BY <1>4, <3>4
    <3>7. \A i \in DOMAIN o : i \in DOMAIN q
      BY <1>4, <3>4
    <3>8. Len(o) + 1 \in DOMAIN q
      BY <1>4, <3>4
    <3>9. Distinct(q)
      BY <3>2, <3>3, <3>5, <3>6, Zenon DEF Distinct, Listed
    <3>10. \A j \in Keys : Listed(q, j) <=> (j = k \/ Listed(o, j))
      BY <3>5, <3>6, <3>7, <3>8, Zenon DEF Listed
    <3> QED
      BY <3>1, <3>3, <3>4, <3>9, <3>10
  <2> QED
    BY <2>1, <2>2
<1>7. y \in [size : Nat, root : NodeType[Levels], order : Seq(Keys)]
  <2>1. y.size \in Nat
    BY <1>2, <1>4
  <2> QED
    BY <1>2, <1>3, <1>6, <2>1
<1>8. \A j \in Keys : get(y, j) \in Values \cup {NoValue}
  BY <1>1, <1>3
<1>9. \A j \in Keys : has(y, j) <=> Listed(q, j)
  BY <1>1, <1>5, <1>6
<1> QED
  BY <1>2, <1>3, <1>6, <1>7, <1>8, <1>9, Zenon DEF Dict

\* The order q is the order o without a key.
Shortened(q, o, k) ==
  \E at \in DOMAIN o :
    /\ o[at] = k /\ Len(q) = Len(o) - 1
    /\ \A j \in 1 .. (Len(o) - 1) : q[j] = o[IF j < at THEN j ELSE j + 1]

\* Removing a key keeps the invariant and the order of the other keys.
LEMMA RemoveDict ==
    ASSUME NEW x, Dict(x), NEW k \in Keys, NEW y, y = remove(x, k)
    PROVE  /\ Dict(y)
           /\ get(y, k) = NoValue
           /\ \A j \in Keys : j # k => get(y, j) = get(x, j)
           /\ ~has(x, k) => y.order = x.order
           /\ has(x, k) => Shortened(y.order, x.order, k)
<1>1. /\ x \in [size : Nat, root : NodeType[Levels], order : Seq(Keys)]
      /\ x.size = Len(x.order) /\ Distinct(x.order)
      /\ \A j \in Keys : has(x, j) <=> Listed(x.order, j)
      /\ \A j \in Keys : get(x, j) \in Values \cup {NoValue}
  BY DEF Dict
<1> DEFINE o == x.order   q == y.order
<1>2. /\ y.size = IF has(x, k) THEN x.size - 1 ELSE x.size
      /\ y.root = node_remove(x.root, hash_key(k), 0, k)
      /\ q = IF has(x, k) THEN order_remove_key(o, k) ELSE o
      /\ y = [size |-> y.size, root |-> y.root, order |-> y.order]
  BY DEF remove
<1>3. /\ y.root \in NodeType[Levels]
      /\ [node |-> y.root, path |-> <<>>] \in Shaped[Levels]
      /\ get(y, k) = NoValue
      /\ \A j \in Keys : j # k => get(y, j) = get(x, j)
  BY <1>2, RemoveRoot
<1>4. o \in Seq(Keys) /\ x.size \in Nat
  BY <1>1
<1>5. \A j \in Keys : has(y, j) <=> (j # k /\ has(x, j))
  BY <1>3 DEF has
<1>6. /\ q \in Seq(Keys) /\ y.size \in Nat /\ y.size = Len(q) /\ Distinct(q)
      /\ \A j \in Keys : Listed(q, j) <=> (j # k /\ Listed(o, j))
      /\ has(x, k) => Shortened(q, o, k)
  <2>1. CASE ~has(x, k)
    <3>1. q = o /\ y.size = x.size
      BY <1>2, <2>1
    <3>2. ~Listed(o, k)
      BY <1>1, <2>1
    <3> QED
      BY <1>1, <1>4, <2>1, <3>1, <3>2
  <2>2. CASE has(x, k)
    <3>1. q = order_remove_key(o, k) /\ y.size = x.size - 1
      BY <1>2, <2>2
    <3>2. Listed(o, k)
      BY <1>1, <2>2
    <3> HIDE DEF o, q
    <3>3. x.size = Len(o) /\ Distinct(o)
      BY <1>1 DEF o
    <3>4. PICK at \in DOMAIN o : o[at] = k
      BY <3>2, Zenon DEF Listed
    <3>5. \A i, j \in DOMAIN o : o[i] = o[j] => i = j
      BY <3>3, Zenon DEF Distinct
    <3>6. /\ q \in Seq(Keys) /\ Len(q) = Len(o) - 1
          /\ \A j \in 1 .. (Len(o) - 1) : q[j] = o[IF j < at THEN j ELSE j + 1]
      <4>1. o \in Seq(Keys)
        BY <1>4
      <4>2. order_remove_key(o, k) \in Seq(Keys) /\ Len(order_remove_key(o, k)) = Len(o) - 1
        BY <3>4, <3>5, <4>1, OrderRemoved
      <4>3. \A j \in 1 .. (Len(o) - 1) : order_remove_key(o, k)[j] = o[IF j < at THEN j ELSE j + 1]
        BY <3>4, <3>5, <4>1, OrderRemoved
      <4> QED
        BY <3>1, <4>2, <4>3
    <3> DEFINE P(j) == IF j < at THEN j ELSE j + 1
               B(i) == IF i < at THEN i ELSE i - 1
    <3>7. at \in 1 .. Len(o) /\ Len(o) \in Nat /\ DOMAIN o = 1 .. Len(o) /\ DOMAIN q = 1 .. (Len(o) - 1)
      BY <1>4, <3>6
    <3>8. \A j \in DOMAIN q : P(j) \in DOMAIN o /\ P(j) # at
      BY <3>7
    <3>9. \A i, j \in DOMAIN q : P(i) = P(j) => i = j
      BY <3>7
    <3>10. \A i \in DOMAIN o : i # at => B(i) \in DOMAIN q /\ P(B(i)) = i
      BY <3>7
    <3>11. \A j \in DOMAIN q : q[j] = o[P(j)]
      BY <3>6, <3>7
    <3> HIDE DEF P, B
    <3>12. Distinct(q)
      BY <3>5, <3>8, <3>9, <3>11, Zenon DEF Distinct
    <3>13. ASSUME NEW j \in Keys PROVE Listed(q, j) <=> (j # k /\ Listed(o, j))
      <4>1. Listed(q, j) => j # k /\ Listed(o, j)
        BY <3>4, <3>5, <3>8, <3>11, Zenon DEF Listed
      <4>2. j # k /\ Listed(o, j) => Listed(q, j)
        <5> SUFFICES ASSUME j # k, NEW i \in DOMAIN o, o[i] = j PROVE \E h \in DOMAIN q : q[h] = j
          BY Zenon DEF Listed
        <5>1. i # at
          BY <3>4
        <5>2. B(i) \in DOMAIN q /\ P(B(i)) = i
          BY <3>10, <5>1
        <5>3. q[B(i)] = j
          BY <3>11, <5>2
        <5> QED
          BY <5>2, <5>3
      <4> QED
        BY <4>1, <4>2
    <3>14. y.size = Len(q) /\ y.size \in Nat
      BY <3>1, <3>3, <3>6, <3>7
    <3> QED
      BY <3>4, <3>6, <3>12, <3>13, <3>14, Zenon DEF Shortened
  <2> QED
    BY <2>1, <2>2
<1>7. y \in [size : Nat, root : NodeType[Levels], order : Seq(Keys)]
  BY <1>2, <1>3, <1>6
<1>8. \A j \in Keys : get(y, j) \in Values \cup {NoValue}
  BY <1>1, <1>3
<1>9. \A j \in Keys : has(y, j) <=> Listed(q, j)
  BY <1>1, <1>5, <1>6
<1>10. ~has(x, k) => q = o
  BY <1>2
<1> QED
  BY <1>3, <1>6, <1>7, <1>8, <1>9, <1>10, Zenon DEF Dict

-----------------------------------------------------------------------------
(***************************************************************************)
(* The steps of the dictionary.                                            *)
(***************************************************************************)
LEMMA DictStep ==
    ASSUME Dict(d), Next
    PROVE  \/ \E k \in Keys, v \in Values : d' = set(d, k, v)
           \/ \E k \in Keys : d' = remove(d, k)
BY InPlaceIsCopy DEF Next, SetKey, RemoveKey, SetInPlace, RemoveInPlace

LEMMA DictStays ==
    ASSUME Dict(d), [Next]_d
    PROVE  Dict(d')
<1>1. CASE d' = d
  BY <1>1, Zenon
<1>2. CASE Next
  <2>1. CASE \E k \in Keys, v \in Values : d' = set(d, k, v)
    BY <2>1, SetDict
  <2>2. CASE \E k \in Keys : d' = remove(d, k)
    BY <2>2, RemoveDict
  <2> QED
    BY <1>2, <2>1, <2>2, DictStep
<1> QED
  BY <1>1, <1>2

DictInv == Dict(d)

LEMMA DictAlways == Spec => []DictInv
<1>1. Init => DictInv
  BY MakeDict DEF Init, DictInv
<1>2. DictInv /\ [Next]_d => DictInv'
  BY DictStays DEF DictInv
<1> QED
  BY <1>1, <1>2, PTL DEF Spec

\* A key is in order once when it is there and nowhere when it is not.
LEMMA PlacesOf ==
    ASSUME NEW order, NEW k, Distinct(order)
    PROVE  Cardinality({i \in DOMAIN order : order[i] = k}) = IF Listed(order, k) THEN 1 ELSE 0
<1> DEFINE P == {i \in DOMAIN order : order[i] = k}
<1>1. CASE Listed(order, k)
  <2>1. PICK i \in DOMAIN order : order[i] = k
    BY <1>1, Zenon DEF Listed
  <2>2. P = {i}
    BY <2>1 DEF Distinct
  <2>3. Cardinality(P) = 1
    BY <2>2, FS_Singleton
  <2> QED
    BY <1>1, <2>3
<1>2. CASE ~Listed(order, k)
  <2>1. P = {}
    BY <1>2 DEF Listed
  <2>2. Cardinality(P) = 0
    BY <2>1, FS_EmptySet
  <2> QED
    BY <1>2, <2>2
<1> QED
  BY <1>1, <1>2

(* Every dictionary that set and remove make, copying or in place, over    *)
(* any set of keys and any number of bits, has a key in its order vector   *)
(* exactly once when get finds it and a trie in shape: each bitmap names   *)
(* its slots, each entry lies on the path of its hash, collisions have     *)
(* distinct keys, and removals leave neither an empty inner node nor a     *)
(* collision of one entry.                                                 *)
THEOREM NodesExactHolds == Spec => []NodesExact
<1>1. DictInv => NodesExact
  <2> SUFFICES ASSUME Dict(d) PROVE NodesExact
    BY DEF DictInv
  <2>1. /\ d.size = Len(d.order) /\ Distinct(d.order)
        /\ [node |-> d.root, path |-> <<>>] \in Shaped[Levels]
        /\ \A k \in Keys : has(d, k) <=> Listed(d.order, k)
    BY DEF Dict
  <2>2. ASSUME NEW k \in Keys
        PROVE  Cardinality({i \in DOMAIN d.order : d.order[i] = k}) = IF has(d, k) THEN 1 ELSE 0
    <3> DEFINE o == d.order
    <3>1. Distinct(o) /\ (has(d, k) <=> Listed(o, k))
      BY <2>1
    <3> HIDE DEF o
    <3>2. Cardinality({i \in DOMAIN o : o[i] = k}) = IF Listed(o, k) THEN 1 ELSE 0
      BY <3>1, PlacesOf
    <3> QED
      BY <3>1, <3>2, Zenon DEF o
  <2> QED
    BY <2>1, <2>2, Zenon DEF NodesExact
<1> QED
  BY <1>1, DictAlways, PTL

-----------------------------------------------------------------------------
(***************************************************************************)
(* The refinement.                                                         *)
(***************************************************************************)
EntriesOf(x) == [i \in DOMAIN x.order |-> [key |-> x.order[i], val |-> get(x, x.order[i])]]

LEMMA EntriesAre ==
    ASSUME NEW x, Dict(x)
    PROVE  /\ x.order \in Seq(Keys)
           /\ EntriesOf(x) \in Seq([key : Keys, val : Values \cup {NoValue}])
           /\ Len(EntriesOf(x)) = Len(x.order)
           /\ DOMAIN EntriesOf(x) = DOMAIN x.order
           /\ \A i \in DOMAIN x.order : EntriesOf(x)[i] = [key |-> x.order[i], val |-> get(x, x.order[i])]
<1> DEFINE o == x.order   R == [key : Keys, val : Values \cup {NoValue}]
<1>1. o \in Seq(Keys) /\ \A k \in Keys : get(x, k) \in Values \cup {NoValue}
  BY DEF Dict
<1>2. \A i \in DOMAIN o : [key |-> o[i], val |-> get(x, o[i])] \in R
  BY <1>1
<1>3. DOMAIN o = 1 .. Len(o) /\ Len(o) \in Nat
  BY <1>1
<1>4. EntriesOf(x) = [i \in 1 .. Len(o) |-> [key |-> o[i], val |-> get(x, o[i])]]
  BY <1>3 DEF EntriesOf
<1> DEFINE E(i) == [key |-> o[i], val |-> get(x, o[i])]   n == Len(o)   e == EntriesOf(x)
<1>5. n \in Nat /\ e = [i \in 1 .. n |-> E(i)] /\ \A i \in 1 .. n : E(i) \in R
  BY <1>2, <1>3, <1>4
<1> HIDE DEF R, o, E, n, e
<1>6. e \in Seq(R) /\ Len(e) = n /\ DOMAIN e = 1 .. n /\ \A i \in 1 .. n : e[i] = E(i)
  BY <1>5
<1>7. o \in Seq(Keys) /\ DOMAIN o = 1 .. n /\ Len(o) = n
  BY <1>1, <1>3 DEF n
<1>8. o \in Seq(Keys) /\ e \in Seq(R) /\ Len(e) = Len(o) /\ DOMAIN e = DOMAIN o /\ \A i \in DOMAIN o : e[i] = E(i)
  BY <1>6, <1>7
<1> QED
  BY <1>8, Zenon DEF R, o, E, e

\* A key is in the map when it is in the order.
LEMMA EntriesHave ==
    ASSUME NEW x, Dict(x), NEW k \in Keys
    PROVE  has(x, k) <=> \E i \in DOMAIN EntriesOf(x) : EntriesOf(x)[i].key = k
<1>1. has(x, k) <=> Listed(x.order, k)
  BY DEF Dict
<1> DEFINE o == x.order   e == EntriesOf(x)
<1>2. DOMAIN e = DOMAIN o /\ \A i \in DOMAIN o : e[i] = [key |-> o[i], val |-> get(x, o[i])]
  BY EntriesAre
<1> HIDE DEF o, e
<1>3. \A i \in DOMAIN o : e[i].key = o[i]
  BY <1>2
<1>4. Listed(o, k) <=> \E i \in DOMAIN e : e[i].key = k
  BY <1>2, <1>3, Zenon DEF Listed
<1> QED
  BY <1>1, <1>4 DEF o, e

LEMMA EntriesSet ==
    ASSUME NEW x, Dict(x), NEW k \in Keys, NEW v \in Values, NEW y, y = set(x, k, v)
    PROVE  EntriesOf(y) =
             IF \E i \in DOMAIN EntriesOf(x) : EntriesOf(x)[i].key = k
             THEN [i \in DOMAIN EntriesOf(x) |->
                     IF EntriesOf(x)[i].key = k THEN [key |-> k, val |-> v] ELSE EntriesOf(x)[i]]
             ELSE Append(EntriesOf(x), [key |-> k, val |-> v])
<1> DEFINE o == x.order   q == y.order   e == EntriesOf(x)   g == EntriesOf(y)
           E(i) == [key |-> o[i], val |-> get(x, o[i])]
           G(i) == [key |-> q[i], val |-> get(y, q[i])]
<1>1. /\ Dict(y) /\ get(y, k) = v
      /\ \A j \in Keys : j # k => get(y, j) = get(x, j)
      /\ q = IF has(x, k) THEN o ELSE Append(o, k)
  BY SetDict
<1>2. o \in Seq(Keys) /\ e \in Seq([key : Keys, val : Values \cup {NoValue}]) /\ Len(e) = Len(o) /\ DOMAIN e = DOMAIN o
      /\ \A i \in DOMAIN o : e[i] = E(i)
  BY EntriesAre
<1>3. q \in Seq(Keys) /\ g \in Seq([key : Keys, val : Values \cup {NoValue}]) /\ Len(g) = Len(q) /\ DOMAIN g = DOMAIN q
      /\ \A i \in DOMAIN q : g[i] = G(i)
  BY <1>1, EntriesAre
<1>4. has(x, k) <=> \E i \in DOMAIN e : e[i].key = k
  BY EntriesHave
<1>5. g = [i \in DOMAIN q |-> G(i)]
  BY DEF EntriesOf
<1>6. \A i \in DOMAIN o : o[i] \in Keys
  BY <1>2
<1>7. CASE has(x, k)
  <2>1. q = o
    BY <1>1, <1>7
  <2>2. \A i \in DOMAIN o : G(i) = IF e[i].key = k THEN [key |-> k, val |-> v] ELSE e[i]
    <3> SUFFICES ASSUME NEW i \in DOMAIN o PROVE G(i) = IF e[i].key = k THEN [key |-> k, val |-> v] ELSE e[i]
      OBVIOUS
    <3> HIDE DEF o, q, e
    <3>1. e[i] = E(i) /\ e[i].key = o[i] /\ o[i] \in Keys
      BY <1>2, <1>6
    <3> QED
      BY <1>1, <2>1, <3>1
  <2>3. g = [i \in DOMAIN e |-> IF e[i].key = k THEN [key |-> k, val |-> v] ELSE e[i]]
    <3> HIDE DEF o, q, e, g, G, E
    <3> QED
      BY <1>2, <1>5, <2>1, <2>2
  <2> QED
    BY <1>4, <1>7, <2>3, Zenon
<1>8. CASE ~has(x, k)
  <2> DEFINE n == [key |-> k, val |-> v]   R == [key : Keys, val : Values \cup {NoValue}]   a == Append(e, n)
  <2>1. q = Append(o, k) /\ \A i \in DOMAIN o : o[i] # k
    <3>1. ~Listed(o, k)
      BY <1>8 DEF Dict
    <3> QED
      BY <1>1, <1>8, <3>1 DEF Listed
  <2>2. n \in R
    OBVIOUS
  <2> HIDE DEF o, q, e, g, R, n
  <2>3. q[Len(o) + 1] = k /\ \A i \in DOMAIN o : q[i] = o[i]
    BY <1>2, <2>1
  <2>4. G(Len(o) + 1) = n /\ \A i \in DOMAIN o : G(i) = e[i]
    BY <1>1, <1>2, <1>6, <2>1, <2>3 DEF n
  <2> HIDE DEF G, E
  <2>5. e \in Seq(R)
    BY <1>2 DEF R
  <2>6. Len(q) = Len(o) + 1 /\ DOMAIN q = 1 .. (Len(o) + 1) /\ DOMAIN o = 1 .. Len(o) /\ Len(o) \in Nat
    BY <1>2, <2>1
  <2>7. a \in Seq(R) /\ Len(a) = Len(o) + 1 /\ a[Len(o) + 1] = n /\ \A i \in DOMAIN o : a[i] = e[i]
    BY <1>2, <2>2, <2>5, <2>6
  <2> HIDE DEF a
  <2>8. \A i \in 1 .. (Len(o) + 1) : G(i) = a[i]
    BY <2>4, <2>6, <2>7
  <2>9. g \in Seq(R) /\ Len(g) = Len(a) /\ \A i \in 1 .. Len(g) : g[i] = a[i]
    BY <1>3, <2>6, <2>7, <2>8 DEF R
  <2>10. g = a
    BY <2>7, <2>9
  <2> QED
    BY <1>4, <1>8, <2>10, Zenon DEF a, n, e, g
<1> QED
  BY <1>7, <1>8

LEMMA EntriesRemoved ==
    ASSUME NEW x, Dict(x), NEW k \in Keys, NEW y, y = remove(x, k)
    PROVE  IF \E i \in DOMAIN EntriesOf(x) : EntriesOf(x)[i].key = k
           THEN \E i \in DOMAIN EntriesOf(x) :
                  /\ EntriesOf(x)[i].key = k
                  /\ EntriesOf(y) = [j \in 1 .. (Len(EntriesOf(x)) - 1) |-> EntriesOf(x)[IF j < i THEN j ELSE j + 1]]
           ELSE EntriesOf(y) = EntriesOf(x)
<1> DEFINE o == x.order   q == y.order   e == EntriesOf(x)   g == EntriesOf(y)
           E(i) == [key |-> o[i], val |-> get(x, o[i])]
           G(i) == [key |-> q[i], val |-> get(y, q[i])]
<1>1. /\ Dict(y)
      /\ \A j \in Keys : j # k => get(y, j) = get(x, j)
      /\ ~has(x, k) => q = o
      /\ has(x, k) => \E at \in DOMAIN o :
           /\ o[at] = k /\ Len(q) = Len(o) - 1
           /\ \A j \in 1 .. (Len(o) - 1) : q[j] = o[IF j < at THEN j ELSE j + 1]
  <2>1. Dict(y) /\ \A j \in Keys : j # k => get(y, j) = get(x, j)
    BY RemoveDict
  <2>2. ~has(x, k) => q = o
    BY RemoveDict
  <2>3. has(x, k) => Shortened(q, o, k)
    BY RemoveDict
  <2> QED
    BY <2>1, <2>2, <2>3, Zenon DEF Shortened
<1>2. o \in Seq(Keys) /\ Len(e) = Len(o) /\ DOMAIN e = DOMAIN o /\ \A i \in DOMAIN o : e[i] = E(i)
  BY EntriesAre
<1>3. q \in Seq(Keys)
  BY <1>1, EntriesAre
<1>4. has(x, k) <=> \E i \in DOMAIN e : e[i].key = k
  BY EntriesHave
<1>5. g = [i \in DOMAIN q |-> G(i)] /\ e = [i \in DOMAIN o |-> E(i)]
  BY DEF EntriesOf
<1>6. \A i \in DOMAIN o : o[i] \in Keys /\ e[i].key = o[i]
  <2> SUFFICES ASSUME NEW i \in DOMAIN o PROVE o[i] \in Keys /\ e[i].key = o[i]
    OBVIOUS
  <2> HIDE DEF o, q, e, g
  <2>1. e[i] = [key |-> o[i], val |-> get(x, o[i])]
    BY <1>2
  <2> QED
    BY <1>2, <2>1
<1>7. CASE has(x, k)
  <2>1. PICK at \in DOMAIN o : /\ o[at] = k /\ Len(q) = Len(o) - 1
                               /\ \A j \in 1 .. (Len(o) - 1) : q[j] = o[IF j < at THEN j ELSE j + 1]
    BY <1>1, <1>7, Zenon
  <2>2. Distinct(o)
    BY DEF Dict
  <2> DEFINE P(j) == IF j < at THEN j ELSE j + 1   I == 1 .. (Len(o) - 1)
  <2> HIDE DEF o, q, e, g
  <2>3. DOMAIN o = 1 .. Len(o) /\ Len(o) \in Nat /\ DOMAIN q = I
    BY <1>2, <1>3, <2>1
  <2>4. \A j \in I : P(j) \in DOMAIN o /\ P(j) # at
    BY <2>3
  <2>5. \A j \in I : q[j] = o[P(j)]
    BY <2>1
  <2> HIDE DEF P, I
  <2>6. \A j \in I : o[P(j)] # k /\ o[P(j)] \in Keys
    BY <1>6, <2>1, <2>2, <2>4 DEF Distinct
  <2>7. ASSUME NEW j \in I PROVE G(j) = e[P(j)]
    <3>1. e[P(j)] = E(P(j))
      BY <1>2, <2>4
    <3>2. q[j] = o[P(j)] /\ get(y, o[P(j)]) = get(x, o[P(j)])
      BY <1>1, <2>5, <2>6, Zenon
    <3> QED
      BY <3>1, <3>2
  <2> HIDE DEF G, E
  <2>8. g = [j \in I |-> e[P(j)]]
    BY <1>5, <2>3, <2>7
  <2>9. at \in DOMAIN e /\ e[at].key = k
    BY <1>2, <1>6, <2>1
  <2>10. g = [j \in 1 .. (Len(e) - 1) |-> e[IF j < at THEN j ELSE j + 1]]
    BY <1>2, <2>8, Zenon DEF P, I
  <2> QED
    BY <1>4, <1>7, <2>9, <2>10, Zenon DEF e, g
<1>8. CASE ~has(x, k)
  <2>1. q = o /\ \A i \in DOMAIN o : o[i] # k
    <3>1. ~Listed(o, k)
      BY <1>8 DEF Dict
    <3> QED
      BY <1>1, <1>8, <3>1 DEF Listed
  <2> HIDE DEF o, q, e, g
  <2>2. \A i \in DOMAIN o : G(i) = E(i)
    BY <1>1, <1>6, <2>1
  <2> HIDE DEF G, E
  <2>3. g = e
    BY <1>5, <2>1, <2>2
  <2> QED
    BY <1>4, <1>8, <2>3, Zenon DEF e, g
<1> QED
  BY <1>7, <1>8

(* The trie with its order vector implements the map that remembers the    *)
(* order of insertion: set, remove and their in-place forms are its steps, *)
(* whatever the hashes of the keys, also for keys of one hash.             *)
THEOREM MapSpecHolds == Spec => MapSpec
<1>1. Init => Map!Init
  <2> SUFFICES ASSUME d = make PROVE Entries = <<>>
    BY DEF Init, Map!Init
  <2>1. d.order = <<>>
    BY DEF make
  <2> DEFINE F(i) == [key |-> d.order[i], val |-> get(d, d.order[i])]
  <2>2. Entries = [i \in {} |-> F(i)]
    BY <2>1 DEF Entries
  <2> QED
    BY <2>2
<1>2. ASSUME DictInv, [Next]_d PROVE [Map!Next]_Entries
  <2>0. Dict(d) /\ Entries = EntriesOf(d) /\ Entries' = EntriesOf(d')
    BY <1>2 DEF DictInv, Entries, EntriesOf
  <2>1. CASE UNCHANGED d
    BY <2>0, <2>1
  <2>2. ASSUME NEW k \in Keys, NEW v \in Values, d' = set(d, k, v) PROVE Map!SetKey(k, v)
    <3>1. EntriesOf(d') =
            IF \E i \in DOMAIN EntriesOf(d) : EntriesOf(d)[i].key = k
            THEN [i \in DOMAIN EntriesOf(d) |->
                    IF EntriesOf(d)[i].key = k THEN [key |-> k, val |-> v] ELSE EntriesOf(d)[i]]
            ELSE Append(EntriesOf(d), [key |-> k, val |-> v])
      BY <2>0, <2>2, EntriesSet
    <3> QED
      BY <2>0, <3>1, Zenon DEF Map!SetKey, Map!Has
  <2>3. ASSUME NEW k \in Keys, d' = remove(d, k) PROVE Map!RemoveKey(k)
    <3>1. IF \E i \in DOMAIN EntriesOf(d) : EntriesOf(d)[i].key = k
          THEN \E i \in DOMAIN EntriesOf(d) :
                 /\ EntriesOf(d)[i].key = k
                 /\ EntriesOf(d') = [j \in 1 .. (Len(EntriesOf(d)) - 1) |-> EntriesOf(d)[IF j < i THEN j ELSE j + 1]]
          ELSE EntriesOf(d') = EntriesOf(d)
      BY <2>0, <2>3, EntriesRemoved
    <3> QED
      BY <2>0, <3>1, Zenon DEF Map!RemoveKey, Map!Has
  <2>4. CASE Next
    BY <2>0, <2>2, <2>3, <2>4, DictStep DEF Map!Next
  <2> QED
    BY <1>2, <2>1, <2>4
<1> QED
  BY <1>1, <1>2, DictAlways, PTL DEF Spec, MapSpec, Map!Spec

-----------------------------------------------------------------------------
(***************************************************************************)
(* Equality.                                                               *)
(***************************************************************************)
LEMMA EqDictIs ==
    ASSUME NEW x, Dict(x), NEW y
    PROVE  eq_dict(x, y) <=> x.size = y.size /\ \A k \in Keys : has(x, k) => has(y, k) /\ get(x, k) = get(y, k)
<1> DEFINE o == x.order
<1>1. o \in Seq(Keys) /\ x.size = Len(o) /\ \A k \in Keys : has(x, k) <=> Listed(o, k)
  BY DEF Dict
<1>2. 1 .. x.size = DOMAIN o /\ \A i \in DOMAIN o : o[i] \in Keys
  BY <1>1
<1>3. eq_dict(x, y) <=> x.size = y.size /\ \A i \in DOMAIN o : has(y, o[i]) /\ get(x, o[i]) = get(y, o[i])
  BY <1>2, Zenon DEF eq_dict
<1> HIDE DEF o
<1> QED
  BY <1>1, <1>2, <1>3, Zenon DEF Listed

LEMMA SetSize ==
    ASSUME NEW x, Dict(x), NEW k \in Keys, NEW v \in Values, NEW y, y = set(x, k, v)
    PROVE  y.size = IF has(x, k) THEN x.size ELSE x.size + 1
BY DEF set

LEMMA RemoveSize ==
    ASSUME NEW x, NEW k, has(x, k), NEW y, y = remove(x, k)
    PROVE  y.size = x.size - 1
BY DEF remove

(* Equality looks at the entries and not at the order: a dictionary and    *)
(* the one with a key removed and set again are equal both ways, one with  *)
(* another value of the key or without the key is not.                     *)
THEOREM EqIgnoresOrderHolds == Spec => []EqIgnoresOrder
<1>1. DictInv => EqIgnoresOrder
  <2> SUFFICES ASSUME Dict(d), NEW k \in Keys, has(d, k)
               PROVE  LET again == set(remove(d, k), k, get(d, k))
                      IN /\ eq_dict(d, again) /\ eq_dict(again, d)
                         /\ \A x \in Values : eq_dict(d, set(again, k, x)) <=> x = get(d, k)
                         /\ ~eq_dict(d, remove(d, k)) /\ ~eq_dict(remove(d, k), d)
    BY Zenon DEF EqIgnoresOrder, DictInv
  <2> DEFINE v == get(d, k)   r == remove(d, k)   again == set(r, k, v)
  <2>1. v \in Values /\ v # NoValue /\ d.size \in Nat
    BY DEF Dict, has
  <2>2. Dict(r) /\ get(r, k) = NoValue /\ (\A j \in Keys : j # k => get(r, j) = get(d, j))
    BY RemoveDict
  <2>3. r.size = d.size - 1 /\ ~has(r, k)
    BY <2>2, RemoveSize DEF has
  <2> HIDE DEF r, v
  <2>4. Dict(again) /\ get(again, k) = v /\ (\A j \in Keys : j # k => get(again, j) = get(r, j))
    BY <2>1, <2>2, SetDict
  <2>5. again.size = d.size
    <3>1. again.size = r.size + 1
      BY <2>1, <2>2, <2>3, SetSize
    <3> QED
      BY <2>1, <2>3, <3>1
  <2> HIDE DEF again
  <2>6. \A j \in Keys : get(again, j) = get(d, j) /\ (has(again, j) <=> has(d, j))
    BY <2>2, <2>4 DEF v, has
  <2>7. eq_dict(d, again) /\ eq_dict(again, d)
    BY <2>4, <2>5, <2>6, EqDictIs
  <2>8. ASSUME NEW x \in Values PROVE eq_dict(d, set(again, k, x)) <=> x = v
    <3> DEFINE t == set(again, k, x)
    <3>1. Dict(t) /\ get(t, k) = x /\ (\A j \in Keys : j # k => get(t, j) = get(again, j))
      BY <2>4, SetDict
    <3>2. t.size = d.size
      BY <2>4, <2>5, <2>6, SetSize
    <3> HIDE DEF t
    <3>3. eq_dict(d, t) <=> \A j \in Keys : has(d, j) => has(t, j) /\ get(d, j) = get(t, j)
      BY <3>2, EqDictIs
    <3>4. has(t, k)
      BY <3>1, TopLevel DEF has
    <3>5. \A j \in Keys : j # k => get(t, j) = get(d, j) /\ (has(t, j) <=> has(d, j))
      BY <2>6, <3>1 DEF has
    <3>6. eq_dict(d, t) <=> x = v
      BY <3>1, <3>3, <3>4, <3>5, Zenon DEF v
    <3> QED
      BY <3>6 DEF t
  <2>9. ~eq_dict(d, r) /\ ~eq_dict(r, d)
    <3>1. d.size # r.size
      BY <2>1, <2>3
    <3> QED
      BY <3>1 DEF eq_dict
  <2> QED
    BY <2>7, <2>8, <2>9, Zenon DEF again, r, v
<1> QED
  BY <1>1, DictAlways, PTL

=============================================================================
