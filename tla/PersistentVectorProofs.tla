----------------------- MODULE PersistentVectorProofs -----------------------
(***************************************************************************)
(* How vectors are read, written and cut, for every branching factor 2^B   *)
(* and vectors of any length: navigation, get_leaf and get, set and        *)
(* set_in_place, slice, drop_last and gather; and the theorems about the   *)
(* system of PersistentVector.                                             *)
(***************************************************************************)
EXTENDS VectorTreeProofs

-----------------------------------------------------------------------------
(***************************************************************************)
(* Navigation.  Upto counts what lies under the first j children of n.     *)
(***************************************************************************)
Upto(n, s, j) == Len(all(SubSeq(n.children, 1, j), s - B))

LEMMA UptoBounds ==
    ASSUME NEW s \in Inner, NEW n \in WellFormed[s], NEW j \in Nat, j <= Len(n.children)
    PROVE  Upto(n, s, j) \in Nat /\ Upto(n, s, j) <= j * 2^s
<1> DEFINE ch == n.children
           t == s - B
           p == SubSeq(ch, 1, j)
<1>1. ch \in Seq(WellFormed[t]) /\ t \in Shifts
  BY FormFields, InnerType, Zenon
<1>2. p \in Seq(WellFormed[t]) /\ Len(p) = j
  BY <1>1, PrefixType, Zenon
<1>3. t + B = s
  BY InnerType, BType
<1>4. Len(all(p, t)) \in Nat
  BY <1>1, <1>2, ListType, Zenon
<1>5. Len(all(p, t)) <= Len(p) * 2^(t + B)
  BY <1>1, <1>2, ListBounds, Zenon
<1> QED
  BY <1>2, <1>3, <1>4, <1>5, Zenon DEF Upto

LEMMA UptoNext ==
    ASSUME NEW s \in Inner, NEW n \in WellFormed[s], NEW j \in Nat, j < Len(n.children)
    PROVE  /\ Child(n, j) \in WellFormed[s - B]
           /\ Upto(n, s, j + 1) = Upto(n, s, j) + Len(elems(Child(n, j), s - B))
<1> DEFINE ch == n.children
           t == s - B
           p == SubSeq(ch, 1, j)
           c == ch[j + 1]
<1>1. ch \in Seq(WellFormed[t]) /\ t \in Shifts
  BY FormFields, InnerType, Zenon
<1>2. p \in Seq(WellFormed[t]) /\ c \in WellFormed[t] /\ SubSeq(ch, 1, j + 1) = p \o <<c>>
  BY <1>1, PrefixStep, Zenon
<1>3. Len(all(p \o <<c>>, t)) = Len(all(p, t)) + Len(elems(c, t))
  BY <1>1, <1>2, ListSnoc, Zenon
<1> QED
  BY <1>2, <1>3, Zenon DEF Upto, Child

LEMMA UptoEnds ==
    ASSUME NEW s \in Inner, NEW n \in WellFormed[s]
    PROVE  Upto(n, s, 0) = 0 /\ Upto(n, s, Len(n.children)) = Len(elems(n, s))
<1> DEFINE ch == n.children
           t == s - B
<1>1. ch \in Seq(WellFormed[t]) /\ elems(n, s) = all(ch, t)
  BY FormFields, ElemsInner, Zenon
<1>2. SubSeq(ch, 1, 0) = <<>> /\ Len(<<>>) = 0
  BY SubSeqEmpty
<1>3. SubSeq(ch, 1, Len(ch)) = ch
  BY <1>1, PartWhole, Zenon
<1>4. Upto(n, s, 0) = 0
  BY <1>2, AllEmpty, Zenon DEF Upto
<1>5. Upto(n, s, Len(ch)) = Len(elems(n, s))
  BY <1>1, <1>3, Zenon DEF Upto
<1> QED
  BY <1>4, <1>5, Zenon

LEMMA UptoDense ==
    ASSUME NEW s \in Inner, NEW n \in WellFormed[s], n.sizes = Dense, NEW j \in Nat, j < Len(n.children)
    PROVE  /\ Upto(n, s, j) = j * 2^s
           /\ j + 1 < Len(n.children) => Len(elems(Child(n, j), s - B)) = 2^s
<1> DEFINE ch == n.children
           m == Len(ch)
           t == s - B
           p == SubSeq(ch, 1, j)
<1>1. ch \in Seq(WellFormed[t]) /\ m \in 1 .. BF /\ SizesFit(ch, n.sizes, s)
  BY FormFields, Zenon
<1>12. t \in Shifts /\ s \in Shifts
  BY InnerType
<1>2. \A i \in 1 .. (m - 1) : Len(elems(ch[i], t)) = 2^s
  BY <1>1, Zenon DEF SizesFit
<1>3. m \in Nat
  <2>1. m \in 1 .. BF
    BY <1>1, Zenon
  <2> HIDE DEF m
  <2> QED
    BY <2>1, BType
<1>4. j <= m /\ \A i \in 1 .. j : i \in 1 .. (m - 1)
  <2>1. j < m
    OBVIOUS
  <2> HIDE DEF m
  <2> QED
    BY <1>3, <2>1
<1>5. p \in Seq(WellFormed[t]) /\ Len(p) = j /\ \A i \in 1 .. j : p[i] = ch[i]
  BY <1>1, <1>4, PrefixType, Zenon
<1>6. \A i \in 1 .. Len(p) : Len(elems(p[i], t)) = 2^s
  BY <1>2, <1>4, <1>5, Zenon
<1>7. 2^s \in Nat
  BY <1>12, Capacity
<1>8. Len(all(p, t)) = Len(p) * 2^s
  BY <1>12, <1>5, <1>6, <1>7, ListFull, Zenon
<1>9. Upto(n, s, j) = j * 2^s
  BY <1>5, <1>8, Zenon DEF Upto
<1>10. ASSUME j + 1 < m PROVE Len(elems(Child(n, j), t)) = 2^s
  <2>1. j + 1 < m
    BY <1>10, Zenon
  <2>2. j + 1 \in 1 .. (m - 1)
    <3> HIDE DEF m
    <3> QED
      BY <1>3, <2>1
  <2> QED
    BY <1>2, <2>2, Zenon DEF Child
<1> QED
  BY <1>9, <1>10, Zenon

LEMMA UptoSizes ==
    ASSUME NEW s \in Inner, NEW n \in WellFormed[s], n.sizes # Dense
    PROVE  /\ Len(n.sizes) = Len(n.children)
           /\ \A j \in 1 .. Len(n.children) : n.sizes[j] = Upto(n, s, j)
<1>1. n.sizes \in Seq(Nat) /\ Len(n.children) \in 1 .. BF /\ SizesFit(n.children, n.sizes, s)
  BY FormFields, Zenon
<1>2. /\ Len(n.sizes) = Len(n.children)
      /\ \A i \in 1 .. Len(n.children) : n.sizes[i] = Len(all(SubSeq(n.children, 1, i), s - B))
  BY <1>1, SizesLen, Zenon
<1> QED
  BY <1>2, Zenon DEF Upto

LEMMA DivideBelow ==
    ASSUME NEW i \in Nat, NEW p \in Nat, p > 0, NEW m \in Nat, i < m * p
    PROVE  i \div p < m
<1> DEFINE q == i \div p
           r == i % p
<1>1. q \in Nat /\ r \in Nat /\ i = q * p + r
  BY Divide
<1> HIDE DEF q, r
<1> SUFFICES ASSUME ~(q < m) PROVE FALSE
  BY DEF q
<1>2. m <= q
  BY <1>1
<1>3. m * p \in Nat /\ q * p \in Nat /\ m * p <= q * p
  BY <1>1, <1>2, ProductMonotone
<1> QED
  BY <1>1, <1>3

\* Slot slot of n holds index i of its elements, at off.
Locates(n, s, i, slot, off) ==
  /\ slot \in Nat /\ slot < Len(n.children) /\ off \in Nat
  /\ Upto(n, s, slot) + off = i
  /\ off < Len(elems(Child(n, slot), s - B))

LEMMA NavDense ==
    ASSUME NEW s \in Inner, NEW n \in WellFormed[s], n.sizes = Dense,
           NEW i \in Nat, i < Len(elems(n, s))
    PROVE  Locates(n, s, i, i \div 2^s, i % 2^s)
<1> DEFINE m == Len(n.children)
           p == 2^s
           q == i \div p
           r == i % p
           L == Len(elems(n, s))
<1>1. s \in Shifts
  BY InnerType
<1>2. p \in Nat /\ p > 0
  BY <1>1, Capacity
<1>3. m \in 1 .. BF
  BY FormFields, Zenon
<1>4. m \in Nat
  <2> HIDE DEF m
  <2> QED
    BY <1>3, BType
<1>5. m <= m
  BY <1>4
<1>6. L \in Nat /\ L <= m * p
  <2>1. Upto(n, s, m) \in Nat /\ Upto(n, s, m) <= m * p
    BY <1>4, <1>5, UptoBounds, Zenon
  <2>2. Upto(n, s, m) = L
    BY UptoEnds, Zenon
  <2> QED
    BY <2>1, <2>2, Zenon
<1>15. i < L
  OBVIOUS
<1> HIDE DEF m, p, L
<1>7. m * p \in Nat
  BY <1>2, <1>4
<1>8. i < m * p
  BY <1>6, <1>7, <1>15
<1>9. q \in Nat /\ r \in Nat /\ r < p /\ i = q * p + r
  BY <1>2, Divide
<1>10. q < m
  BY <1>2, <1>4, <1>8, DivideBelow
<1> HIDE DEF q, r
<1>11. Upto(n, s, q) = q * p /\ (q + 1 < m => Len(elems(Child(n, q), s - B)) = p)
  BY <1>9, <1>10, UptoDense, Zenon DEF m, p
<1>12. Upto(n, s, q) + r = i
  BY <1>9, <1>11, Zenon
<1>13. r < Len(elems(Child(n, q), s - B))
  <2>1. CASE q + 1 < m
    BY <1>9, <1>11, <2>1, Zenon
  <2>2. CASE ~(q + 1 < m)
    <3>1. q + 1 = m
      BY <1>4, <1>9, <1>10, <2>2
    <3> DEFINE e == Len(elems(Child(n, q), s - B))
               u == Upto(n, s, q)
    <3>2. Upto(n, s, q + 1) = u + e /\ Child(n, q) \in WellFormed[s - B]
      BY <1>9, <1>10, UptoNext, Zenon DEF m
    <3>3. Upto(n, s, m) = L
      BY UptoEnds, Zenon DEF m, L
    <3>4. u + e = L /\ u + r = i
      BY <1>12, <3>1, <3>2, <3>3, Zenon
    <3>5. e \in Nat
      <4>1. s - B \in Shifts
        BY InnerType
      <4> QED
        BY <3>2, <4>1, FormElems, Zenon
    <3>6. u \in Nat
      <4>1. q <= m
        BY <1>4, <1>9, <1>10
      <4> QED
        BY <1>9, <4>1, UptoBounds, Zenon DEF m
    <3> HIDE DEF e, u
    <3>7. r < e
      BY <1>6, <1>9, <1>15, <3>4, <3>5, <3>6
    <3> QED
      BY <3>7, Zenon DEF e
  <2> QED
    BY <2>1, <2>2
<1> QED
  BY <1>9, <1>10, <1>12, <1>13, Zenon DEF Locates, m, q, r, p

\* The search of a relaxed node starts at the slot the bits suggest.
Found(n, i, lo, slot) ==
  slot \in lo .. (Len(n.sizes) - 1) /\ n.sizes[slot + 1] > i /\ \A t \in lo .. (slot - 1) : n.sizes[t + 1] <= i

LEMMA NavSearch ==
    ASSUME NEW s \in Inner, NEW n \in WellFormed[s], n.sizes # Dense,
           NEW i \in Nat, i < Len(elems(n, s))
    PROVE  \E slot : Found(n, i, i \div 2^s, slot)
<1> DEFINE m == Len(n.children)
           p == 2^s
           q == i \div p
           L == Len(elems(n, s))
           T == {k \in Nat : q <= k /\ k < m /\ n.sizes[k + 1] > i}
<1>1. s \in Shifts
  BY InnerType
<1>2. p \in Nat /\ p > 0
  BY <1>1, Capacity
<1>3. m \in 1 .. BF
  BY FormFields, Zenon
<1>4. m \in Nat /\ m > 0
  <2> HIDE DEF m
  <2> QED
    BY <1>3, BType
<1>5. m <= m
  BY <1>4
<1>6. L \in Nat /\ L <= m * p
  <2>1. Upto(n, s, m) \in Nat /\ Upto(n, s, m) <= m * p
    BY <1>4, <1>5, UptoBounds, Zenon
  <2>2. Upto(n, s, m) = L
    BY UptoEnds, Zenon
  <2> QED
    BY <2>1, <2>2, Zenon
<1>7. Len(n.sizes) = m /\ \A j \in 1 .. m : n.sizes[j] = Upto(n, s, j)
  BY UptoSizes, Zenon
<1>15. i < L
  OBVIOUS
<1>16. Upto(n, s, m) = L
  BY UptoEnds, Zenon
<1> HIDE DEF m, p, L
<1>8. i < m * p
  <2>1. m * p \in Nat
    BY <1>2, <1>4
  <2> QED
    BY <1>6, <1>15, <2>1
<1>9. q \in Nat
  BY <1>2, Divide
<1>10. q < m
  BY <1>2, <1>4, <1>8, DivideBelow
<1> HIDE DEF q
<1>11. m - 1 \in T
  <2>1. m - 1 \in Nat /\ q <= m - 1 /\ m - 1 < m /\ (m - 1) + 1 = m /\ m \in 1 .. m
    BY <1>4, <1>9, <1>10
  <2>2. n.sizes[m] = L
    BY <1>7, <1>16, <2>1, Zenon
  <2>3. L > i
    BY <1>6, <1>15
  <2>4. n.sizes[(m - 1) + 1] > i
    BY <2>1, <2>2, <2>3, Zenon
  <2> QED
    BY <2>1, <2>4, Zenon
<1>12. PICK k \in T : \A j \in T : k <= j
  <2>1. T \in SUBSET Nat /\ T # {}
    BY <1>11, Zenon
  <2> HIDE DEF T
  <2> QED
    BY <2>1, OnNat!LeastNat
<1>13. k \in Nat /\ q <= k /\ k < m /\ n.sizes[k + 1] > i
  BY <1>12, Zenon
<1>14. ASSUME NEW t \in q .. (k - 1) PROVE n.sizes[t + 1] <= i
  <2>1. t \in Nat /\ q <= t /\ t < m /\ ~(k <= t) /\ t + 1 \in 1 .. m /\ t + 1 \in Nat /\ t + 1 <= m
    BY <1>4, <1>9, <1>13
  <2>2. t \notin T
    BY <1>12, <2>1, Zenon
  <2>3. ~(n.sizes[t + 1] > i)
    BY <2>1, <2>2, Zenon
  <2>4. Upto(n, s, t + 1) \in Nat
    BY <2>1, UptoBounds, Zenon DEF m
  <2> DEFINE x == n.sizes[t + 1]
  <2>5. x \in Nat /\ ~(x > i)
    BY <1>7, <2>1, <2>3, <2>4, Zenon
  <2> HIDE DEF x
  <2>6. x <= i
    BY <2>5
  <2> QED
    BY <2>6, Zenon DEF x
<1>17. k \in q .. (Len(n.sizes) - 1)
  <2>1. k \in q .. (m - 1)
    BY <1>4, <1>9, <1>13
  <2> QED
    BY <1>7, <2>1, Zenon
<1>18. Found(n, i, q, k)
  BY <1>13, <1>14, <1>17, Zenon DEF Found
<1> QED
  BY <1>18, Zenon DEF q, p

LEMMA SmallMod ==
    ASSUME NEW i \in Nat, NEW p \in Nat, i < p
    PROVE  i % p = i
<1>1. p > 0 /\ 0 \in Nat /\ i = 0 * p + i
  OBVIOUS
<1> QED
  BY <1>1, DivideUnique

LEMMA SuggestedBelow ==
    ASSUME NEW s \in Inner, NEW n \in WellFormed[s], NEW i \in Nat, i < Len(elems(n, s))
    PROVE  (i \div 2^s) % BF = i \div 2^s
<1> DEFINE p == 2^s
           L == Len(elems(n, s))
           q == i \div p
<1>1. s \in Shifts
  BY InnerType
<1>2. p \in Nat /\ p > 0 /\ 2^(s + B) = p * BF
  BY <1>1, Capacity
<1>3. L \in Nat /\ L <= 2^(s + B)
  BY <1>1, FormElems, Zenon
<1>4. i < L
  OBVIOUS
<1> HIDE DEF p, L
<1>5. i < BF * p
  <2>1. p * BF = BF * p /\ p * BF \in Nat
    BY <1>2, BType
  <2>2. L <= p * BF
    BY <1>2, <1>3, Zenon
  <2> QED
    BY <1>3, <1>4, <2>1, <2>2
<1>6. q < BF /\ q \in Nat
  <2>1. q < BF
    BY <1>2, <1>5, BType, DivideBelow
  <2>2. q \in Nat
    BY <1>2, Divide
  <2> QED
    BY <2>1, <2>2
<1> HIDE DEF q
<1>7. q % BF = q
  BY <1>6, BType, SmallMod
<1> QED
  BY <1>7, Zenon DEF q, p

LEMMA FoundLocates ==
    ASSUME NEW s \in Inner, NEW n \in WellFormed[s], n.sizes # Dense,
           NEW i \in Nat, i < Len(elems(n, s)), NEW slot, Found(n, i, i \div 2^s, slot),
           NEW off, off = IF slot = 0 THEN i ELSE i - n.sizes[slot]
    PROVE  Locates(n, s, i, slot, off % 2^s) /\ off \in Nat
<1> DEFINE m == Len(n.children)
           p == 2^s
           q == i \div p
           L == Len(elems(n, s))
           u == Upto(n, s, slot)
           e == Len(elems(Child(n, slot), s - B))
<1>1. s \in Shifts /\ s - B \in Shifts /\ (s - B) + B = s
  BY InnerType, BType
<1>2. p \in Nat /\ p > 0
  BY <1>1, Capacity
<1>3. m \in 1 .. BF
  BY FormFields, Zenon
<1>4. m \in Nat
  <2> HIDE DEF m
  <2> QED
    BY <1>3, BType
<1>7. Len(n.sizes) = m /\ \A j \in 1 .. m : n.sizes[j] = Upto(n, s, j)
  BY UptoSizes, Zenon
<1>8. /\ slot \in q .. (m - 1) /\ n.sizes[slot + 1] > i
      /\ \A t \in q .. (slot - 1) : n.sizes[t + 1] <= i
  <2>1. Found(n, i, q, slot)
    OBVIOUS
  <2> QED
    BY <1>7, <2>1, Zenon DEF Found
<1>9. q \in Nat /\ i = q * p + (i % p) /\ i % p \in Nat
  BY <1>2, Divide
<1>10. off = IF slot = 0 THEN i ELSE i - n.sizes[slot]
  OBVIOUS
<1> HIDE DEF m, p, q, L
<1>11. slot \in Nat /\ q <= slot /\ slot < m /\ slot <= m /\ slot + 1 \in 1 .. m
  BY <1>4, <1>8, <1>9
<1>12. Child(n, slot) \in WellFormed[s - B] /\ Upto(n, s, slot + 1) = u + e
  BY <1>11, UptoNext, Zenon DEF m
<1>13. u \in Nat /\ u <= slot * p
  BY <1>11, UptoBounds, Zenon DEF m, p
<1>14. e \in Nat /\ e <= p
  BY <1>1, <1>12, FormElems, Zenon DEF p
<1>15. u + e > i
  BY <1>7, <1>8, <1>11, <1>12, Zenon
<1>16. slot = 0 => u = 0
  <2>1. Upto(n, s, 0) = 0
    BY UptoEnds, Zenon
  <2> QED
    BY <2>1, Zenon
<1>17. slot # 0 => n.sizes[slot] = u
  <2> SUFFICES ASSUME slot # 0 PROVE n.sizes[slot] = u
    OBVIOUS
  <2>1. slot \in 1 .. m
    BY <1>11
  <2> QED
    BY <2>1, <1>7, Zenon
<1>18. u <= i
  <2>1. CASE slot = q
    <3>1. u <= q * p
      BY <1>13, <2>1, Zenon
    <3> DEFINE k == q * p
               r == i % p
    <3>2. k \in Nat /\ i = k + r /\ r \in Nat /\ u <= k /\ u \in Nat
      BY <1>2, <1>9, <1>13, <3>1
    <3> HIDE DEF u, k, r
    <3> QED
      BY <3>2
  <2>2. CASE slot # q
    <3>1. slot - 1 \in q .. (slot - 1) /\ (slot - 1) + 1 = slot /\ slot # 0
      BY <1>9, <1>11, <2>2
    <3>2. n.sizes[slot] <= i
      BY <1>8, <3>1, Zenon
    <3> QED
      BY <1>17, <3>1, <3>2, Zenon
  <2> QED
    BY <2>1, <2>2
<1> HIDE DEF u, e
<1>19. off = i - u
  <2>1. CASE slot = 0
    BY <1>10, <1>13, <1>16, <2>1
  <2>2. CASE slot # 0
    BY <1>10, <1>17, <2>2, Zenon
  <2> QED
    BY <2>1, <2>2
<1>20. off \in Nat /\ u + off = i /\ off < e /\ off < p
  BY <1>13, <1>14, <1>15, <1>18, <1>19, <1>2
<1>21. off % p = off
  BY <1>2, <1>20, SmallMod
<1> QED
  BY <1>11, <1>20, <1>21, Zenon DEF Locates, m, p, u, e

(* The slot and the rest of the index that vi_nav yields are where the     *)
(* element is: only the bits of the index below the level matter.          *)
LEMMA NavExact ==
    ASSUME NEW s \in Inner, NEW n \in WellFormed[s], NEW idx \in Nat,
           idx % 2^(s + B) < Len(elems(n, s))
    PROVE  /\ vi_nav(n, idx, s)[2] \in Nat
           /\ Locates(n, s, idx % 2^(s + B), vi_nav(n, idx, s)[1], vi_nav(n, idx, s)[2] % 2^s)
<1> DEFINE p == 2^s
           i == idx % 2^(s + B)
           L == Len(elems(n, s))
           nav == vi_nav(n, idx, s)
<1>1. s \in Shifts
  BY InnerType
<1>2. p \in Nat /\ p > 0 /\ 2^(s + B) = p * BF /\ BF \in Nat /\ BF > 0
  BY <1>1, Capacity, BType
<1>3. i \in Nat /\ i < L
  <2>1. 2^(s + B) \in Nat /\ 2^(s + B) > 0
    BY <1>1, ShiftUp, Capacity, InnerType
  <2>2. i \in Nat
    BY <2>1, Divide
  <2> QED
    BY <2>2
<1>4. CASE n.sizes = Dense
  <2>1. nav = <<(idx \div p) % BF, idx>>
    BY <1>4, Zenon DEF vi_nav
  <2>2. (idx \div p) % BF = i \div p /\ idx % p = i % p
    <3>1. (idx \div p) % BF = (idx % (p * BF)) \div p /\ idx % p = (idx % (p * BF)) % p
      <4> HIDE DEF p
      <4> QED
        BY <1>2, DivideTwice
    <3> QED
      BY <1>2, <3>1, Zenon
  <2>3. nav[1] = i \div p /\ nav[2] = idx
    <3> DEFINE x == (idx \div p) % BF
    <3>1. nav = <<x, idx>>
      BY <2>1, Zenon
    <3>2. x = i \div p
      BY <2>2, Zenon
    <3> HIDE DEF x, nav
    <3>3. nav[1] = x /\ nav[2] = idx
      BY <3>1
    <3> QED
      BY <3>2, <3>3, Zenon
  <2>4. Locates(n, s, i, i \div p, i % p)
    BY <1>3, <1>4, NavDense, Zenon
  <2> QED
    BY <2>2, <2>3, <2>4, Zenon
<1>5. CASE n.sizes # Dense
  <2> DEFINE lo == (i \div p) % BF
             T == lo .. (Len(n.sizes) - 1)
             Fits(k) == n.sizes[k + 1] > i /\ \A t \in lo .. (k - 1) : n.sizes[t + 1] <= i
             slot == CHOOSE k \in T : Fits(k)
             off == IF slot = 0 THEN i ELSE i - n.sizes[slot]
  <2>1. nav = <<slot, off>>
    BY <1>5, Zenon DEF vi_nav
  <2>2. lo = i \div p
    BY <1>3, SuggestedBelow, Zenon
  <2>3. \E k : Found(n, i, lo, k)
    BY <1>3, <1>5, <2>2, NavSearch, Zenon
  <2>4. \E k \in T : Fits(k)
    BY <2>3, Zenon DEF Found
  <2>5. slot \in T /\ Fits(slot)
    <3> HIDE DEF T, Fits
    <3> QED
      BY <2>4, Zenon
  <2> HIDE DEF slot
  <2>6. Found(n, i, lo, slot)
    BY <2>5, Zenon DEF Found
  <2>7. Found(n, i, i \div p, slot)
    BY <2>2, <2>6, Zenon
  <2> HIDE DEF off
  <2>8. off = IF slot = 0 THEN i ELSE i - n.sizes[slot]
    BY Zenon DEF off
  <2>9. Locates(n, s, i, slot, off % p) /\ off \in Nat
    <3> HIDE DEF i
    <3> QED
      BY <1>3, <1>5, <2>7, <2>8, FoundLocates, Zenon
  <2>10. nav[1] = slot /\ nav[2] = off
    <3> HIDE DEF nav
    <3> QED
      BY <2>1
  <2> QED
    BY <2>9, <2>10, Zenon
<1> QED
  BY <1>4, <1>5

-----------------------------------------------------------------------------
(***************************************************************************)
(* Reading.  A node is what lies before a slot, the child there, and what  *)
(* lies after.                                                             *)
(***************************************************************************)
Before(n, s, slot) == all(SubSeq(n.children, 1, slot), s - B)
After(n, s, slot) == all(SubSeq(n.children, slot + 2, Len(n.children)), s - B)

LEMMA ChildSplit ==
    ASSUME NEW s \in Inner, NEW n \in WellFormed[s], NEW slot \in Nat, slot < Len(n.children)
    PROVE  /\ Child(n, slot) \in WellFormed[s - B] /\ elems(Child(n, slot), s - B) \in Seq(Int)
           /\ Before(n, s, slot) \in Seq(Int) /\ After(n, s, slot) \in Seq(Int)
           /\ Len(Before(n, s, slot)) = Upto(n, s, slot)
           /\ elems(n, s) = (Before(n, s, slot) \o elems(Child(n, slot), s - B)) \o After(n, s, slot)
<1> DEFINE ch == n.children
           t == s - B
           p == SubSeq(ch, 1, slot)
           c == ch[slot + 1]
           r == SubSeq(ch, slot + 2, Len(ch))
<1>1. ch \in Seq(WellFormed[t]) /\ t \in Shifts
  BY FormFields, InnerType, Zenon
<1>2. elems(n, s) = all(ch, t)
  BY ElemsInner, Zenon
<1>3. p \in Seq(WellFormed[t]) /\ c \in WellFormed[t] /\ r \in Seq(WellFormed[t])
  BY <1>1, SplitAround, Zenon
<1>4. ch = (p \o <<c>>) \o r
  BY <1>1, SplitAround, Zenon
<1> HIDE DEF p, c, r
<1>5. p \o <<c>> \in Seq(WellFormed[t]) /\ all(p \o <<c>>, t) = all(p, t) \o elems(c, t)
  BY <1>1, <1>3, ListSnoc, Zenon
<1>6. all((p \o <<c>>) \o r, t) = all(p \o <<c>>, t) \o all(r, t)
  BY <1>1, <1>3, <1>5, ListConcat, Zenon
<1>7. all(p, t) \in Seq(Int) /\ all(r, t) \in Seq(Int) /\ elems(c, t) \in Seq(Int)
  BY <1>1, <1>3, ListType, ElemsType, Zenon
<1>8. all(ch, t) = (all(p, t) \o elems(c, t)) \o all(r, t)
  BY <1>4, <1>5, <1>6, Zenon
<1> QED
  BY <1>2, <1>3, <1>7, <1>8, Zenon DEF Before, After, Upto, Child, p, c, r

\* Place i of a is place off of the part m, between pre and post.
Within(a, i, m, off) == \E pre, post \in Seq(Int) : a = (pre \o m) \o post /\ Len(pre) + off = i

LEMMA WithinSelf ==
    ASSUME NEW a \in Seq(Int), NEW i \in Nat
    PROVE  Within(a, i, a, i)
<1>1. <<>> \in Seq(Int) /\ <<>> \o a = a /\ a \o <<>> = a
  BY EmptyLeft, Zenon
<1>2. Len(<<>>) + i = i
  OBVIOUS
<1>3. a = (<<>> \o a) \o <<>>
  BY <1>1, Zenon
<1> QED
  BY <1>1, <1>2, <1>3, Zenon DEF Within

LEMMA WithinTwice ==
    ASSUME NEW a, NEW i \in Nat, NEW b, NEW j \in Nat, NEW m \in Seq(Int), NEW off \in Nat,
           Within(a, i, b, j), Within(b, j, m, off)
    PROVE  Within(a, i, m, off)
<1>1. PICK pre \in Seq(Int), post \in Seq(Int) : a = (pre \o b) \o post /\ Len(pre) + j = i
  BY Zenon DEF Within
<1>2. PICK x \in Seq(Int), y \in Seq(Int) : b = (x \o m) \o y /\ Len(x) + off = j
  BY Zenon DEF Within
<1> DEFINE p == pre \o x
           q == y \o post
<1>3. p \in Seq(Int) /\ q \in Seq(Int) /\ x \o m \in Seq(Int)
  BY Assoc, Zenon
<1>4. pre \o b = (p \o m) \o y
  <2> DEFINE xm == x \o m
  <2>1. pre \o (xm \o y) = (pre \o xm) \o y
    <3>1. xm \in Seq(Int)
      BY <1>3, Zenon
    <3> HIDE DEF xm
    <3> QED
      BY <3>1, AssocAll, ZenonT(60)
  <2>2. pre \o (x \o m) = p \o m
    BY AssocAll, ZenonT(60)
  <2> QED
    BY <1>2, <2>1, <2>2, Zenon
<1>5. ((p \o m) \o y) \o post = (p \o m) \o q
  <2>1. p \o m \in Seq(Int)
    BY <1>3, Assoc, Zenon
  <2> QED
    BY <2>1, AssocAll, Zenon
<1>6. a = (p \o m) \o q
  BY <1>1, <1>4, <1>5, Zenon
<1>7. Len(p) + off = i
  <2> DEFINE lx == Len(x)
             lp == Len(pre)
  <2>1. Len(p) = lp + lx /\ lp \in Nat /\ lx \in Nat
    OBVIOUS
  <2>2. lp + j = i /\ lx + off = j
    BY <1>1, <1>2, Zenon
  <2> HIDE DEF lx, lp, p
  <2> QED
    BY <2>1, <2>2
<1> QED
  BY <1>3, <1>6, <1>7, Zenon DEF Within

LEMMA WithinRead ==
    ASSUME NEW a, NEW i \in Nat, NEW m \in Seq(Int), NEW off \in Nat, Within(a, i, m, off), off < Len(m)
    PROVE  a \in Seq(Int) /\ i < Len(a) /\ a[i + 1] = m[off + 1] /\ m[off + 1] \in Int
<1>1. PICK pre \in Seq(Int), post \in Seq(Int) : a = (pre \o m) \o post /\ Len(pre) + off = i
  BY Zenon DEF Within
<1> QED
  BY <1>1

\* t is s with e at place k; a is x and y, or x, y and z, behind each other.
Put(s, k, e) == [s EXCEPT ![k] = e]
Replaced(t, s, k, e) ==
  Len(t) = Len(s) /\ \A j \in 1 .. Len(s) : t[j] = IF j = k THEN e ELSE s[j]

IsTwo(a, x, y) ==
  /\ Len(a) = Len(x) + Len(y)
  /\ \A k \in 1 .. Len(x) : a[k] = x[k]
  /\ \A k \in 1 .. Len(y) : a[Len(x) + k] = y[k]

IsThree(a, x, y, z) ==
  /\ Len(a) = (Len(x) + Len(y)) + Len(z)
  /\ \A k \in 1 .. Len(x) : a[k] = x[k]
  /\ \A k \in 1 .. Len(y) : a[Len(x) + k] = y[k]
  /\ \A k \in 1 .. Len(z) : a[(Len(x) + Len(y)) + k] = z[k]

LEMMA ReplaceAt ==
    ASSUME NEW S, NEW s \in Seq(S), NEW k \in 1 .. Len(s), NEW e \in S
    PROVE  Put(s, k, e) \in Seq(S) /\ Replaced(Put(s, k, e), s, k, e)
BY DEF Replaced, Put

LEMMA TwoParts ==
    ASSUME NEW S, NEW x \in Seq(S), NEW y \in Seq(S)
    PROVE  x \o y \in Seq(S) /\ IsTwo(x \o y, x, y)
BY DEF IsTwo

LEMMA ThreeParts ==
    ASSUME NEW S, NEW x \in Seq(S), NEW y \in Seq(S), NEW z \in Seq(S)
    PROVE  (x \o y) \o z \in Seq(S) /\ IsThree((x \o y) \o z, x, y, z)
<1> DEFINE w1 == x \o y
           a == w1 \o z
<1>1. w1 \in Seq(S) /\ IsTwo(w1, x, y)
  BY TwoParts, Zenon
<1>2. Len(x) \in Nat /\ Len(y) \in Nat /\ Len(z) \in Nat
  OBVIOUS
<1> HIDE DEF w1
<1>3. a \in Seq(S) /\ IsTwo(a, w1, z)
  BY <1>1, TwoParts, Zenon
<1> HIDE DEF a
<1>4. Len(w1) = Len(x) + Len(y)
  BY <1>1, Zenon DEF IsTwo
<1>5. \A k \in 1 .. Len(x) : k \in 1 .. Len(w1)
  BY <1>2, <1>4
<1>6. \A k \in 1 .. Len(y) : Len(x) + k \in 1 .. Len(w1)
  BY <1>2, <1>4
<1>7. Len(a) = (Len(x) + Len(y)) + Len(z)
  BY <1>3, <1>4, Zenon DEF IsTwo
<1>8. ASSUME NEW k \in 1 .. Len(x) PROVE a[k] = x[k]
  BY <1>1, <1>3, <1>5, Zenon DEF IsTwo
<1>9. ASSUME NEW k \in 1 .. Len(y) PROVE a[Len(x) + k] = y[k]
  BY <1>1, <1>3, <1>6, Zenon DEF IsTwo
<1>10. ASSUME NEW k \in 1 .. Len(z) PROVE a[(Len(x) + Len(y)) + k] = z[k]
  BY <1>3, <1>4, Zenon DEF IsTwo
<1>11. IsThree(a, x, y, z)
  BY <1>7, <1>8, <1>9, <1>10, Zenon DEF IsThree
<1> QED
  BY <1>3, <1>11, Zenon DEF a, w1

\* A number up to the sum of three lies in one of them.
LEMMA ThirdOf ==
    ASSUME NEW x \in Nat, NEW y \in Nat, NEW z \in Nat, NEW k \in 1 .. ((x + y) + z)
    PROVE  \/ k \in 1 .. x
           \/ \E j \in 1 .. y : k = x + j
           \/ \E j \in 1 .. z : k = (x + y) + j
<1>1. CASE k <= x
  BY <1>1
<1>2. CASE x < k /\ k <= x + y
  <2>1. k - x \in 1 .. y /\ k = x + (k - x)
    BY <1>2
  <2> QED
    BY <2>1, Zenon
<1>3. CASE x + y < k
  <2>1. k - (x + y) \in 1 .. z /\ k = (x + y) + (k - (x + y))
    BY <1>3
  <2> QED
    BY <2>1, Zenon
<1> QED
  BY <1>1, <1>2, <1>3

\* Replacing in the middle part is replacing in the whole.
PutsInside(pre, m, post, off, e) ==
  /\ Put(m, off + 1, e) \in Seq(Int) /\ Len(Put(m, off + 1, e)) = Len(m)
  /\ Put((pre \o m) \o post, (Len(pre) + off) + 1, e) = (pre \o Put(m, off + 1, e)) \o post

LEMMA PutInside ==
    ASSUME NEW pre \in Seq(Int), NEW post \in Seq(Int), NEW m \in Seq(Int),
           NEW off \in Nat, off < Len(m), NEW e \in Int
    PROVE  PutsInside(pre, m, post, off, e)
<1> DEFINE a == (pre \o m) \o post
           i == Len(pre) + off
<1> DEFINE m2 == Put(m, off + 1, e)
           a2 == Put(a, i + 1, e)
           b2 == (pre \o m2) \o post
           lp == Len(pre)
           lm == Len(m)
           lq == Len(post)
<1>0. lp \in Nat /\ lm \in Nat /\ lq \in Nat
  OBVIOUS
<1>1. /\ a \in Seq(Int) /\ Len(a) = (lp + lm) + lq
      /\ \A k \in 1 .. lp : a[k] = pre[k]
      /\ \A k \in 1 .. lm : a[lp + k] = m[k]
      /\ \A k \in 1 .. lq : a[(lp + lm) + k] = post[k]
  <2>1. a \in Seq(Int) /\ IsThree(a, pre, m, post)
    BY ThreeParts, Zenon
  <2> HIDE DEF a
  <2> QED
    BY <2>1, Zenon DEF IsThree
<1>2. off < lm /\ lp + off = i
  OBVIOUS
<1> HIDE DEF lp, lm, lq, a, i
<1>3. off + 1 \in 1 .. lm /\ i + 1 \in 1 .. ((lp + lm) + lq) /\ i + 1 = lp + (off + 1)
  BY <1>0, <1>2
<1>4. /\ m2 \in Seq(Int) /\ Len(m2) = lm
      /\ \A k \in 1 .. lm : m2[k] = IF k = off + 1 THEN e ELSE m[k]
  <2>1. off + 1 \in 1 .. Len(m)
    BY <1>3, Zenon DEF lm
  <2>2. m2 \in Seq(Int) /\ Replaced(m2, m, off + 1, e)
    BY <2>1, ReplaceAt, Zenon
  <2> QED
    BY <2>2, Zenon DEF Replaced, lm
<1>5. /\ a2 \in Seq(Int) /\ Len(a2) = (lp + lm) + lq
      /\ \A k \in 1 .. ((lp + lm) + lq) : a2[k] = IF k = i + 1 THEN e ELSE a[k]
  <2>1. i + 1 \in 1 .. Len(a)
    BY <1>1, <1>3, Zenon
  <2>2. a2 \in Seq(Int) /\ Replaced(a2, a, i + 1, e)
    BY <1>1, <2>1, ReplaceAt, Zenon
  <2> QED
    BY <1>1, <2>2, Zenon DEF Replaced
<1> HIDE DEF m2, a2
<1>6. /\ b2 \in Seq(Int) /\ Len(b2) = (lp + lm) + lq
      /\ \A k \in 1 .. lp : b2[k] = pre[k]
      /\ \A k \in 1 .. lm : b2[lp + k] = m2[k]
      /\ \A k \in 1 .. lq : b2[(lp + lm) + k] = post[k]
  <2>1. b2 \in Seq(Int) /\ IsThree(b2, pre, m2, post)
    BY <1>4, ThreeParts, Zenon
  <2> QED
    BY <1>4, <2>1, Zenon DEF IsThree, lp, lq
<1> HIDE DEF b2
<1>7. ASSUME NEW k \in 1 .. ((lp + lm) + lq) PROVE a2[k] = b2[k]
  <2>1. CASE k \in 1 .. lp
    <3>1. k # i + 1
      BY <1>0, <1>3, <2>1
    <3> QED
      BY <1>1, <1>5, <1>6, <2>1, <3>1, Zenon
  <2>2. CASE \E j \in 1 .. lm : k = lp + j
    <3>1. PICK j \in 1 .. lm : k = lp + j
      BY <2>2
    <3>2. k = i + 1 <=> j = off + 1
      <4>1. lp + off = i
        BY <1>2, Zenon
      <4>2. ASSUME k = i + 1 PROVE j = off + 1
        BY <1>0, <3>1, <4>1, <4>2
      <4>3. ASSUME j = off + 1 PROVE k = i + 1
        BY <1>0, <3>1, <4>1, <4>3
      <4> QED
        BY <4>2, <4>3, Zenon
    <3>3. b2[k] = m2[j] /\ a[k] = m[j]
      BY <1>1, <1>6, <3>1, Zenon
    <3>4. a2[k] = IF k = i + 1 THEN e ELSE a[k]
      BY <1>5, Zenon
    <3>5. m2[j] = IF j = off + 1 THEN e ELSE m[j]
      BY <1>4, Zenon
    <3>6. CASE k = i + 1
      BY <3>2, <3>3, <3>4, <3>5, <3>6, Zenon
    <3>7. CASE k # i + 1
      BY <3>2, <3>3, <3>4, <3>5, <3>7, Zenon
    <3> QED
      BY <3>6, <3>7, Zenon
  <2>3. CASE \E j \in 1 .. lq : k = (lp + lm) + j
    <3>1. PICK j \in 1 .. lq : k = (lp + lm) + j
      BY <2>3
    <3>2. k # i + 1
      BY <1>0, <1>3, <3>1
    <3> QED
      BY <1>1, <1>5, <1>6, <3>1, <3>2, Zenon
  <2> QED
    <3>1. \/ k \in 1 .. lp
          \/ \E j \in 1 .. lm : k = lp + j
          \/ \E j \in 1 .. lq : k = (lp + lm) + j
      BY <1>0, ThirdOf
    <3> QED
      BY <2>1, <2>2, <2>3, <3>1, Zenon
<1>8. a2 = b2
  <2>1. Len(a2) = Len(b2)
    BY <1>5, <1>6, Zenon
  <2>2. \A k \in 1 .. Len(a2) : a2[k] = b2[k]
    BY <1>5, <1>7, Zenon
  <2> QED
    BY <1>5, <1>6, <2>1, <2>2, SeqEqual, Zenon
<1> QED
  BY <1>4, <1>8, Zenon DEF m2, a2, b2, lm, a, i, PutsInside

\* A child that vi_nav names holds the place that it leaves.
LEMMA NavWithin ==
    ASSUME NEW s \in Inner, NEW n \in WellFormed[s], NEW i \in Nat, NEW slot, NEW off,
           Locates(n, s, i, slot, off)
    PROVE  /\ slot \in Nat /\ slot < Len(n.children) /\ off \in Nat
           /\ Child(n, slot) \in WellFormed[s - B] /\ elems(Child(n, slot), s - B) \in Seq(Int)
           /\ off < Len(elems(Child(n, slot), s - B))
           /\ Within(elems(n, s), i, elems(Child(n, slot), s - B), off)
<1>1. /\ slot \in Nat /\ slot < Len(n.children) /\ off \in Nat
      /\ Upto(n, s, slot) + off = i
      /\ off < Len(elems(Child(n, slot), s - B))
  BY Zenon DEF Locates
<1> DEFINE c == elems(Child(n, slot), s - B)
           x == Before(n, s, slot)
           y == After(n, s, slot)
<1>2. /\ Child(n, slot) \in WellFormed[s - B] /\ c \in Seq(Int)
      /\ x \in Seq(Int) /\ y \in Seq(Int)
      /\ Len(x) = Upto(n, s, slot)
      /\ elems(n, s) = (x \o c) \o y
  BY <1>1, ChildSplit, Zenon
<1>3. Within(elems(n, s), i, c, off)
  BY <1>1, <1>2, Zenon DEF Within
<1> QED
  BY <1>1, <1>2, <1>3, Zenon

LeafAtBody(g, s) ==
  [n \in Nodes[s] |->
     [idx \in Nat |->
        LET nav == vi_nav(n, idx, s)
        IN IF s <= B THEN <<Child(n, nav[1]), nav[2] % BF>>
           ELSE g[s - B][Child(n, nav[1])][nav[2]]]]
Reading == INSTANCE RecursiveFunctions WITH D <- Inner, Rank <- NatRank, Body <- LeafAtBody

LEMMA LeafAtIs == \A s \in Inner : leaf_at[s] = LeafAtBody(leaf_at, s)
<1>1. leaf_at = CHOOSE g : g = [s \in Inner |-> LeafAtBody(g, s)]
  BY Zenon DEF leaf_at, LeafAtBody
<1>2. Reading!Ranked
  BY InnerRanked, Zenon DEF Reading!Ranked
<1>3. Reading!Local
  <2> SUFFICES ASSUME NEW g, NEW h, NEW s \in Inner, \A t \in Inner : NatRank(t) < NatRank(s) => g[t] = h[t]
               PROVE  LeafAtBody(g, s) = LeafAtBody(h, s)
    BY Zenon DEF Reading!Local
  <2>0. s = B => s <= B
    BY BType
  <2>1. CASE s <= B
    BY <2>1, Zenon DEF LeafAtBody
  <2>2. CASE ~(s <= B)
    <3>1. g[s - B] = h[s - B]
      BY <2>0, <2>2, InnerBelow, Zenon
    <3> QED
      BY <3>1, Zenon DEF LeafAtBody
  <2> QED
    BY <2>1, <2>2
<1> QED
  BY <1>1, <1>2, <1>3, Reading!RecursiveFunction, Zenon

LEMMA LeafAtStep ==
    ASSUME NEW s \in Inner, NEW n \in WellFormed[s], NEW idx \in Nat
    PROVE  LET slot == vi_nav(n, idx, s)[1]
               rest == vi_nav(n, idx, s)[2]
           IN leaf_at[s][n][idx] =
                IF s = B THEN <<Child(n, slot), rest % BF>> ELSE leaf_at[s - B][Child(n, slot)][rest]
<1> DEFINE slot == vi_nav(n, idx, s)[1]
           rest == vi_nav(n, idx, s)[2]
<1>1. n \in Nodes[s]
  BY FormNodes, InnerType
<1>2. leaf_at[s] = LeafAtBody(leaf_at, s)
  BY LeafAtIs
<1>3. (s <= B) <=> (s = B)
  BY InnerType, BType
<1>4. leaf_at[s][n][idx] = IF s <= B THEN <<Child(n, slot), rest % BF>> ELSE leaf_at[s - B][Child(n, slot)][rest]
  <2>1. LeafAtBody(leaf_at, s)[n][idx] =
          IF s <= B THEN <<Child(n, slot), rest % BF>> ELSE leaf_at[s - B][Child(n, slot)][rest]
    BY <1>1, Zenon DEF LeafAtBody
  <2> QED
    BY <1>2, <2>1, Zenon
<1>5. CASE s = B
  BY <1>3, <1>4, <1>5, Zenon
<1>6. CASE s # B
  BY <1>3, <1>4, <1>6, Zenon
<1> QED
  BY <1>5, <1>6, Zenon

\* Place i of a is in the leaf f[1], at f[2].
LeafOf(f, a, i) == f[1] \in WellFormed[0] /\ f[2] \in Nat /\ f[2] < Len(f[1]) /\ Within(a, i, f[1], f[2])

Reads(s, n, idx) ==
  idx % 2^(s + B) < Len(elems(n, s)) => LeafOf(leaf_at[s][n][idx], elems(n, s), idx % 2^(s + B))

LEMMA ReadsStep ==
    ASSUME NEW s \in Inner, s # B => \A c \in WellFormed[s - B] : \A k \in Nat : Reads(s - B, c, k),
           NEW n \in WellFormed[s], NEW idx \in Nat
    PROVE  Reads(s, n, idx)
<1> SUFFICES ASSUME idx % 2^(s + B) < Len(elems(n, s))
             PROVE  LeafOf(leaf_at[s][n][idx], elems(n, s), idx % 2^(s + B))
  BY Zenon DEF Reads
<1> DEFINE t == s - B
           i == idx % 2^(s + B)
           slot == vi_nav(n, idx, s)[1]
           rest == vi_nav(n, idx, s)[2]
           off == rest % 2^s
           c == Child(n, slot)
           f == leaf_at[s][n][idx]
<1>1. rest \in Nat /\ Locates(n, s, i, slot, off)
  BY NavExact, Zenon
<1>2. i \in Nat
  <2>1. 2^(s + B) \in Nat /\ 2^(s + B) > 0
    BY ShiftUp, Capacity, InnerType
  <2> QED
    BY <2>1, Divide
<1> HIDE DEF i, slot, rest, off
<1>3. /\ slot \in Nat /\ off \in Nat
      /\ c \in WellFormed[t] /\ elems(c, t) \in Seq(Int)
      /\ off < Len(elems(c, t))
      /\ Within(elems(n, s), i, elems(c, t), off)
  BY <1>1, <1>2, NavWithin, Zenon
<1>4. f = IF s = B THEN <<c, rest % BF>> ELSE leaf_at[t][c][rest]
  BY LeafAtStep, Zenon DEF slot, rest
<1>5. CASE s = B
  <2>1. t = 0 /\ 2^s = BF
    BY <1>5, InnerType DEF BF
  <2>2. f = <<c, off>>
    BY <1>4, <1>5, <2>1, Zenon DEF off
  <2>3. f[1] = c /\ f[2] = off
    <3> HIDE DEF f, c
    <3> QED
      BY <2>2
  <2>4. elems(c, t) = c
    BY <2>1, ElemsLeaf, Zenon
  <2> HIDE DEF f, c, t
  <2>5. LeafOf(f, elems(n, s), i)
    BY <1>3, <2>1, <2>3, <2>4, Zenon DEF LeafOf
  <2> QED
    BY <2>5, Zenon DEF f, i
<1>6. CASE s # B
  <2>1. Reads(t, c, rest)
    BY <1>1, <1>3, <1>6, Zenon
  <2>2. t + B = s
    BY InnerType, BType
  <2>3. rest % 2^(t + B) = off
    BY <2>2, Zenon DEF off
  <2>4. LeafOf(leaf_at[t][c][rest], elems(c, t), off)
    BY <1>3, <2>1, <2>3, Zenon DEF Reads
  <2>5. f = leaf_at[t][c][rest]
    BY <1>4, <1>6, Zenon
  <2>6. LeafOf(f, elems(c, t), off)
    BY <2>4, <2>5, Zenon
  <2>7. /\ f[1] \in WellFormed[0] /\ f[2] \in Nat /\ f[2] < Len(f[1])
        /\ Within(elems(c, t), off, f[1], f[2])
    BY <2>6, Zenon DEF LeafOf
  <2>8. f[1] \in Seq(Int)
    BY <2>7, LeafForm, Zenon
  <2>9. Within(elems(n, s), i, f[1], f[2])
    <3> DEFINE x == f[1]
               y == f[2]
               ec == elems(c, t)
               en == elems(n, s)
    <3> HIDE DEF x, y, ec, en
    <3>1. Within(en, i, ec, off) /\ Within(ec, off, x, y) /\ x \in Seq(Int) /\ y \in Nat
      BY <1>3, <2>7, <2>8, Zenon DEF x, y, ec, en
    <3>2. Within(en, i, x, y)
      BY <1>2, <1>3, <3>1, WithinTwice, Zenon
    <3> QED
      BY <3>2, Zenon DEF x, y, en
  <2> QED
    BY <2>7, <2>9, Zenon DEF LeafOf, i
<1> QED
  BY <1>5, <1>6

LEMMA LeafAt == \A s \in Inner : \A n \in WellFormed[s] : \A idx \in Nat : Reads(s, n, idx)
<1> DEFINE P == {s \in Inner : \A n \in WellFormed[s] : \A idx \in Nat : Reads(s, n, idx)}
<1>1. B \in P
  BY BInner, ReadsStep, Zenon
<1>2. ASSUME NEW s \in Inner, s # B, s - B \in P PROVE s \in P
  <2>1. \A n \in WellFormed[s - B] : \A idx \in Nat : Reads(s - B, n, idx)
    BY <1>2, Zenon
  <2>2. \A n \in WellFormed[s] : \A idx \in Nat : Reads(s, n, idx)
    BY <2>1, ReadsStep, Zenon
  <2> QED
    BY <2>2, Zenon
<1> HIDE DEF P
<1>3. \A s \in Inner : s \in P
  BY <1>1, <1>2, InnerInduct, Zenon
<1> QED
  BY <1>3, Zenon DEF P

LEMMA IndexInTree ==
    ASSUME NEW s \in Inner, NEW n \in WellFormed[s], NEW i \in Nat, i < Len(elems(n, s))
    PROVE  i % 2^(s + B) = i
<1> DEFINE p == 2^(s + B)
           L == Len(elems(n, s))
<1>1. s \in Shifts /\ s + B \in Shifts
  BY InnerType, ShiftUp
<1>2. p \in Nat /\ L \in Nat /\ L <= p
  BY <1>1, Capacity, FormElems, Zenon
<1>3. i < L
  OBVIOUS
<1> HIDE DEF p, L
<1>4. i < p
  BY <1>2, <1>3
<1>5. i % p = i
  BY <1>2, <1>4, SmallMod
<1> QED
  BY <1>5, Zenon DEF p

\* A vector that is not empty: its tree holds d, the tail the rest.
LEMMA LoadedParts ==
    ASSUME NEW x, NEW a, Loaded(x, a)
    PROVE  \E d \in Seq(Int) :
             /\ Vec(x, d) /\ TreeOf(x.root, x.shift, d) /\ a = d \o x.tail
             /\ tailoff(x) = Len(d) /\ Len(d) \in Nat
             /\ x.tail \in Seq(Int) /\ x.tail \in WellFormed[0]
             /\ Len(x.tail) \in Nat /\ Len(x.tail) > 0 /\ Len(x.tail) <= BF
             /\ Len(a) = Len(d) + Len(x.tail)
             /\ x = [len |-> x.len, shift |-> x.shift, root |-> x.root, tail |-> x.tail]
<1>1. PICK d : Vec(x, d) /\ x.tail # <<>> /\ a = d \o x.tail
  BY Zenon DEF Loaded
<1>2. TreeOf(x.root, x.shift, d)
  BY <1>1, Zenon DEF Vec
<1>3. /\ d \in Seq(Int) /\ Len(d) \in Nat /\ x.tail \in Seq(Int) /\ Len(x.tail) \in Nat /\ Len(x.tail) <= BF
      /\ tailoff(x) = Len(d)
      /\ x = [len |-> x.len, shift |-> x.shift, root |-> x.root, tail |-> x.tail]
      /\ x.len = Len(d) + Len(x.tail) /\ Len(d \o x.tail) = x.len
  BY <1>1, VecFacts, Zenon
<1>4. Len(x.tail) \in 1 .. BF
  BY LoadedFacts, Zenon
<1>5. Len(x.tail) > 0
  <2> DEFINE k == Len(x.tail)
  <2>1. k \in 1 .. BF
    BY <1>4, Zenon
  <2> HIDE DEF k
  <2>2. k > 0
    BY <2>1, BType
  <2> QED
    BY <2>2, Zenon DEF k
<1>6. x.tail \in WellFormed[0]
  <2>1. x.tail \in {m \in Seq(Int) : Len(m) \in 1 .. BF}
    BY <1>3, <1>4, Zenon
  <2> QED
    BY <2>1, LeafForm, Zenon
<1> QED
  BY <1>1, <1>2, <1>3, <1>5, <1>6, Zenon

LEMMA WithinParts ==
    ASSUME NEW d \in Seq(Int), NEW t \in Seq(Int), NEW i \in Nat
    PROVE  /\ Within(d \o t, i, d, i)
           /\ i >= Len(d) => i - Len(d) \in Nat /\ Within(d \o t, i, t, i - Len(d))
<1>1. <<>> \in Seq(Int) /\ <<>> \o d = d /\ Len(<<>>) + i = i
  BY EmptyLeft
<1>2. d \o t \in Seq(Int)
  BY Assoc, Zenon
<1>3. (d \o t) \o <<>> = d \o t
  BY <1>2, EmptyLeft, Zenon
<1>4. Within(d \o t, i, d, i)
  <2>1. d \o t = (<<>> \o d) \o t
    BY <1>1, Zenon
  <2> QED
    BY <1>1, <2>1, Zenon DEF Within
<1>5. ASSUME i >= Len(d) PROVE i - Len(d) \in Nat /\ Within(d \o t, i, t, i - Len(d))
  <2>1. i - Len(d) \in Nat /\ Len(d) + (i - Len(d)) = i
    BY <1>5
  <2>2. d \o t = (d \o t) \o <<>>
    BY <1>3, Zenon
  <2>3. Within(d \o t, i, t, i - Len(d))
    <3> DEFINE q == <<>>
    <3>1. q \in Seq(Int) /\ d \o t = (d \o t) \o q
      BY <1>1, <2>2, Zenon
    <3> HIDE DEF q
    <3> QED
      BY <2>1, <3>1, Zenon DEF Within
  <2> QED
    BY <2>1, <2>3, Zenon
<1> QED
  BY <1>4, <1>5, Zenon

\* get_leaf names the leaf and the place of every index.
LEMMA GetLeaf ==
    ASSUME NEW x, NEW a, VecIs(x, a), NEW i \in Nat, i < Len(a)
    PROVE  LeafOf(get_leaf(x, i), a, i)
<1>1. Loaded(x, a)
  <2>1. a # <<>>
    <3>1. Len(<<>>) = 0
      OBVIOUS
    <3> QED
      BY <3>1
  <2> QED
    BY <2>1, Zenon DEF VecIs
<1>2. PICK d \in Seq(Int) :
             /\ Vec(x, d) /\ TreeOf(x.root, x.shift, d) /\ a = d \o x.tail
             /\ tailoff(x) = Len(d) /\ Len(d) \in Nat
             /\ x.tail \in Seq(Int) /\ x.tail \in WellFormed[0]
             /\ Len(x.tail) \in Nat /\ Len(x.tail) > 0 /\ Len(x.tail) <= BF
             /\ Len(a) = Len(d) + Len(x.tail)
             /\ x = [len |-> x.len, shift |-> x.shift, root |-> x.root, tail |-> x.tail]
  BY <1>1, LoadedParts, Zenon
<1> DEFINE f == get_leaf(x, i)
           ld == Len(d)
           lt == Len(x.tail)
<1>3. ld \in Nat /\ lt \in Nat /\ i < ld + lt
  <2>1. i < Len(a)
    OBVIOUS
  <2> QED
    BY <1>2, <2>1, Zenon
<1>4. CASE i >= ld
  <2>1. f = <<x.tail, i - ld>>
    BY <1>2, <1>4, Zenon DEF get_leaf
  <2> DEFINE t == x.tail
             k == i - ld
  <2>2. f[1] = t /\ f[2] = k
    <3> HIDE DEF f, t, k
    <3>1. f = <<t, k>>
      BY <2>1, Zenon DEF t, k
    <3> QED
      BY <3>1
  <2>3. k < lt
    <3> HIDE DEF ld, lt
    <3> QED
      BY <1>3, <1>4
  <2>4. k \in Nat /\ Within(d \o t, i, t, k)
    BY <1>2, <1>4, WithinParts, Zenon
  <2>5. t \in WellFormed[0] /\ a = d \o t /\ Len(t) = lt
    BY <1>2, Zenon
  <2> HIDE DEF f, k, lt, t
  <2>6. LeafOf(f, a, i)
    BY <2>2, <2>3, <2>4, <2>5, Zenon DEF LeafOf
  <2> QED
    BY <2>6, Zenon DEF f
<1>5. CASE ~(i >= ld)
  <2>1. f = leaf_at[x.shift][x.root][i]
    BY <1>2, <1>5, Zenon DEF get_leaf
  <2>2. i < ld
    <3> HIDE DEF ld
    <3> QED
      BY <1>3, <1>5
  <2>3. d # <<>>
    <3>1. Len(<<>>) = 0
      OBVIOUS
    <3>2. ld # 0
      <4> HIDE DEF ld
      <4> QED
        BY <1>3, <2>2
    <3> QED
      BY <3>1, <3>2, Zenon
  <2>4. x.shift \in Inner /\ x.root \in WellFormed[x.shift] /\ elems(x.root, x.shift) = d
    BY <1>2, <2>3, Zenon DEF TreeOf
  <2>5. i % 2^(x.shift + B) = i
    BY <2>2, <2>4, IndexInTree, Zenon
  <2>6. Reads(x.shift, x.root, i)
    BY <2>4, LeafAt, Zenon
  <2>7. LeafOf(f, d, i)
    BY <2>1, <2>2, <2>4, <2>5, <2>6, Zenon DEF Reads
  <2> DEFINE m == f[1]
             k == f[2]
  <2>8. m \in WellFormed[0] /\ k \in Nat /\ k < Len(m) /\ Within(d, i, m, k)
    BY <2>7, Zenon DEF LeafOf
  <2>9. m \in Seq(Int)
    BY <2>8, LeafForm, Zenon
  <2>10. Within(a, i, d, i)
    BY <1>2, WithinParts, Zenon
  <2> HIDE DEF m, k, f
  <2>11. Within(a, i, m, k)
    BY <2>8, <2>9, <2>10, WithinTwice, Zenon
  <2>12. LeafOf(f, a, i)
    BY <2>8, <2>11, Zenon DEF LeafOf, m, k
  <2> QED
    BY <2>12, Zenon DEF f
<1> QED
  BY <1>4, <1>5, Zenon

LEMMA ReadLeaf ==
    ASSUME NEW f, NEW a, NEW i \in Nat, LeafOf(f, a, i)
    PROVE  At(f[1], f[2]) = a[i + 1] /\ a[i + 1] \in Int
<1> DEFINE m == f[1]
           k == f[2]
<1>1. m \in WellFormed[0] /\ k \in Nat /\ k < Len(m) /\ Within(a, i, m, k)
  BY Zenon DEF LeafOf
<1>2. m \in Seq(Int)
  BY <1>1, LeafForm, Zenon
<1> HIDE DEF m, k
<1>3. a[i + 1] = m[k + 1] /\ m[k + 1] \in Int
  BY <1>1, <1>2, WithinRead
<1>4. k + 1 \in DOMAIN m
  <2>1. k < Len(m)
    BY <1>1, Zenon
  <2> QED
    BY <1>1, <1>2, <2>1
<1>5. At(m, k) = m[k + 1]
  BY <1>4, Zenon DEF At
<1> QED
  BY <1>3, <1>5, Zenon DEF m, k

\* get reads the nth element of a vector for which its short cut is meant.
LEMMA GetNth ==
    ASSUME NEW x, NEW a, VecIs(x, a), NEW i \in Nat, i < Len(a), Indexable(x)
    PROVE  get(x, i) = a[i + 1] /\ a[i + 1] \in Int
<1>1. LeafOf(get_leaf(x, i), a, i)
  BY GetLeaf, Zenon
<1>2. At(get_leaf(x, i)[1], get_leaf(x, i)[2]) = a[i + 1] /\ a[i + 1] \in Int
  BY <1>1, ReadLeaf, Zenon
<1>3. CASE ~(x.len <= BF)
  BY <1>2, <1>3, Zenon DEF get
<1>4. CASE x.len <= BF
  <2>1. get(x, i) = At(x.tail, i % BF)
    BY <1>4, Zenon DEF get
  <2>2. x.len = Len(a) /\ Len(a) \in Nat
    BY VecIsFacts, Zenon
  <2>3. ~(x.len > BF)
    BY <1>4, <2>2, BType
  <2>4. x.root = Null
    BY <2>3, Zenon DEF Indexable
  <2>5. Loaded(x, a)
    <3>1. a # <<>>
      <4>1. Len(<<>>) = 0
        OBVIOUS
      <4> QED
        BY <4>1
    <3> QED
      BY <3>1, Zenon DEF VecIs
  <2>6. PICK d \in Seq(Int) : TreeOf(x.root, x.shift, d) /\ a = d \o x.tail /\ x.tail \in Seq(Int)
    BY <2>5, LoadedParts, Zenon
  <2>7. d = <<>>
    BY <2>4, <2>6, Zenon DEF TreeOf
  <2>8. a = x.tail
    BY <2>6, <2>7, EmptyLeft, Zenon
  <2>9. i % BF = i
    <3>1. i < BF
      <4> DEFINE l == x.len
      <4>1. l = Len(a) /\ Len(a) \in Nat /\ l <= BF
        BY <1>4, <2>2, Zenon
      <4> HIDE DEF l
      <4> QED
        BY <4>1, BType
    <3> QED
      BY <3>1, BType, SmallMod
  <2>10. a \in Seq(Int)
    BY <2>6, <2>8, Zenon
  <2>11. i + 1 \in DOMAIN a
    BY <2>10
  <2>12. At(a, i) = a[i + 1]
    BY <2>11, Zenon DEF At
  <2> QED
    BY <1>2, <2>1, <2>8, <2>9, <2>12, Zenon
<1> QED
  BY <1>3, <1>4, Zenon

-----------------------------------------------------------------------------
(***************************************************************************)
(* Writing.  The sizes of a node fit any children of the same counts.      *)
(***************************************************************************)
LEMMA SameSizes ==
    ASSUME NEW s \in Inner, NEW ch \in Seq(WellFormed[s - B]), NEW dh \in Seq(WellFormed[s - B]),
           NEW sz \in Seq(Nat), Len(dh) = Len(ch), SizesFit(ch, sz, s),
           \A j \in 1 .. Len(ch) : Len(elems(dh[j], s - B)) = Len(elems(ch[j], s - B))
    PROVE  SizesFit(dh, sz, s)
<1> DEFINE t == s - B
           m == Len(ch)
<1>1. t \in Shifts /\ m \in Nat
  BY InnerType
<1>2. \A j \in 1 .. m : Len(elems(dh[j], t)) = Len(elems(ch[j], t))
  OBVIOUS
<1>3. Len(dh) = m
  OBVIOUS
<1>4. \A j \in 1 .. m : ch[j] \in WellFormed[t] /\ dh[j] \in WellFormed[t]
  <2> DEFINE W == WellFormed[t]
  <2>1. ch \in Seq(W) /\ dh \in Seq(W)
    OBVIOUS
  <2> HIDE DEF W
  <2> QED
    BY <1>3, <2>1
<1>5. CASE sz = Dense
  <2>1. \A i \in 1 .. (m - 1) : Len(elems(ch[i], t)) = 2^s
    BY <1>5, Zenon DEF SizesFit
  <2>2. \A i \in 1 .. (m - 1) : i \in 1 .. m
    BY <1>1
  <2>3. \A i \in 1 .. (m - 1) : Len(elems(dh[i], t)) = 2^s
    BY <1>2, <2>1, <2>2, Zenon
  <2> QED
    BY <1>3, <1>5, <2>3, Zenon DEF SizesFit
<1>6. CASE sz # Dense
  <2>1. sz = [i \in 1 .. m |-> Len(all(SubSeq(ch, 1, i), t))]
    BY <1>6, Zenon DEF SizesFit
  <2>2. ASSUME NEW i \in 1 .. m PROVE Len(all(SubSeq(ch, 1, i), t)) = Len(all(SubSeq(dh, 1, i), t))
    <3>1. i \in Nat /\ i <= m /\ \A j \in 1 .. i : j \in 1 .. m
      BY <1>1
    <3>2. \A j \in 1 .. i : node_total_size[t][ch[j]] = node_total_size[t][dh[j]]
      BY <1>1, <1>2, <1>4, <3>1, SizeExact, Zenon
    <3>3. SizesUpto(ch, t, i) = SizesUpto(dh, t, i)
      BY <3>2, Zenon DEF SizesUpto
    <3>4. total[SizesUpto(ch, t, i)] = Len(all(SubSeq(ch, 1, i), t))
      BY <1>1, <3>1, SizesSum, Zenon
    <3>5. total[SizesUpto(dh, t, i)] = Len(all(SubSeq(dh, 1, i), t))
      BY <1>1, <1>3, <3>1, SizesSum, Zenon
    <3> QED
      BY <3>3, <3>4, <3>5, Zenon
  <2>3. sz = [i \in 1 .. m |-> Len(all(SubSeq(dh, 1, i), t))]
    BY <2>1, <2>2, Zenon
  <2> QED
    BY <1>3, <1>6, <2>3, Zenon DEF SizesFit
<1> QED
  BY <1>5, <1>6, Zenon

LEMMA ReplaceParts ==
    ASSUME NEW S, NEW s \in Seq(S), NEW i \in Nat, i < Len(s), NEW e \in S
    PROVE  /\ SubSeq(Put(s, i + 1, e), 1, i) = SubSeq(s, 1, i)
           /\ SubSeq(Put(s, i + 1, e), i + 2, Len(s)) = SubSeq(s, i + 2, Len(s))
<1> DEFINE k == i + 1
           r == Put(s, k, e)
           m == Len(s)
<1>0. m \in Nat /\ i < m
  OBVIOUS
<1>1. k \in 1 .. m
  BY <1>0
<1>2. r \in Seq(S) /\ Replaced(r, s, k, e)
  BY <1>1, ReplaceAt, Zenon
<1>3. Len(r) = m /\ \A j \in 1 .. m : j # k => r[j] = s[j]
  BY <1>2, Zenon DEF Replaced
<1> HIDE DEF r, m
<1>4. i <= m /\ i <= Len(r) /\ i \in Nat /\ i + 1 \in Nat /\ i + 1 <= m /\ (i + 1) + 1 = i + 2
  BY <1>0, <1>3
<1>5. SubSeq(r, 1, i) = SubSeq(s, 1, i)
  <2>1. /\ SubSeq(s, 1, i) \in Seq(S) /\ Len(SubSeq(s, 1, i)) = i
        /\ \A j \in 1 .. i : SubSeq(s, 1, i)[j] = s[j]
    BY <1>4, PrefixType, Zenon DEF m
  <2>2. /\ SubSeq(r, 1, i) \in Seq(S) /\ Len(SubSeq(r, 1, i)) = i
        /\ \A j \in 1 .. i : SubSeq(r, 1, i)[j] = r[j]
    BY <1>2, <1>4, PrefixType, Zenon
  <2>3. \A j \in 1 .. i : j \in 1 .. m /\ j # k
    <3>1. i <= m
      BY <1>4, Zenon
    <3> QED
      BY <1>0, <3>1
  <2>4. \A j \in 1 .. Len(SubSeq(r, 1, i)) : SubSeq(r, 1, i)[j] = SubSeq(s, 1, i)[j]
    BY <1>3, <2>1, <2>2, <2>3, Zenon
  <2> QED
    BY <2>1, <2>2, <2>4, SeqEqual, Zenon
<1>6. SubSeq(r, (i + 1) + 1, m) = SubSeq(s, (i + 1) + 1, m)
  <2> DEFINE x == SubSeq(s, (i + 1) + 1, m)
             y == SubSeq(r, (i + 1) + 1, m)
             h == i + 1
  <2>0. m <= m
    BY <1>0
  <2>1. x \in Seq(S) /\ Len(x) = m - h /\ \A j \in 1 .. m - h : x[j] = s[h + j]
    BY <1>0, <1>4, <2>0, PartType, ZenonT(60) DEF m
  <2>2. y \in Seq(S) /\ Len(y) = m - h /\ \A j \in 1 .. m - h : y[j] = r[h + j]
    <3>1. m <= Len(r) /\ i + 1 <= m /\ i + 1 \in Nat /\ m \in Nat
      BY <1>0, <1>3, <1>4, <2>0, Zenon
    <3> QED
      BY <1>2, <3>1, PartType, Zenon
  <2>3. \A j \in 1 .. m - h : h + j \in 1 .. m /\ h + j # k
    BY <1>0, <1>4
  <2> HIDE DEF x, y, h, k
  <2>4. \A j \in 1 .. Len(y) : y[j] = x[j]
    BY <1>3, <2>1, <2>2, <2>3, Zenon
  <2>5. Len(y) = Len(x)
    BY <2>1, <2>2, Zenon
  <2>6. y = x
    BY <2>1, <2>2, <2>4, <2>5, SeqEqual, Zenon
  <2> QED
    BY <2>6, Zenon DEF x, y
<1> QED
  BY <1>4, <1>5, <1>6, Zenon DEF r, m

LEMMA WithChild ==
    ASSUME NEW s \in Inner, NEW n \in WellFormed[s], NEW slot \in Nat, slot < Len(n.children),
           NEW c \in WellFormed[s - B], Len(elems(c, s - B)) = Len(elems(Child(n, slot), s - B))
    PROVE  /\ with_child(n, slot, c) \in WellFormed[s]
           /\ elems(with_child(n, slot, c), s) = (Before(n, s, slot) \o elems(c, s - B)) \o After(n, s, slot)
<1> DEFINE t == s - B
           ch == n.children
           k == slot + 1
           m == Len(ch)
           dh == Put(ch, k, c)
           r == with_child(n, slot, c)
<1>1. /\ ch \in Seq(WellFormed[t]) /\ n.sizes \in Seq(Nat)
      /\ m \in 1 .. BF /\ SizesFit(ch, n.sizes, s)
  BY FormFields, Zenon
<1>2. m \in Nat /\ slot < m
  <2>1. m \in 1 .. BF /\ slot < m
    BY <1>1, Zenon
  <2> HIDE DEF m
  <2> QED
    BY <2>1, BType
<1>3. k \in 1 .. m
  <2> HIDE DEF m
  <2> QED
    BY <1>2
<1>4. dh \in Seq(WellFormed[t]) /\ Replaced(dh, ch, k, c)
  BY <1>1, <1>3, ReplaceAt, Zenon
<1>5. Len(dh) = m /\ \A j \in 1 .. m : dh[j] = IF j = k THEN c ELSE ch[j]
  BY <1>4, Zenon DEF Replaced
<1> HIDE DEF dh
<1>6. ASSUME NEW j \in 1 .. m PROVE Len(elems(dh[j], t)) = Len(elems(ch[j], t))
  <2>1. CASE j = k
    <3>1. dh[j] = c
      BY <1>5, <2>1, Zenon
    <3> QED
      BY <2>1, <3>1, Zenon DEF Child
  <2>2. CASE j # k
    <3>1. dh[j] = ch[j]
      BY <1>5, <2>2, Zenon
    <3> QED
      BY <3>1, Zenon
  <2> QED
    BY <2>1, <2>2, Zenon
<1>7. SizesFit(dh, n.sizes, s)
  BY <1>1, <1>4, <1>5, <1>6, SameSizes, Zenon
<1>8. r = [children |-> dh, sizes |-> n.sizes]
  BY Zenon DEF with_child, dh, Put
<1>9. Len(dh) \in 1 .. BF
  BY <1>1, <1>5, Zenon
<1>10. r \in WellFormed[s]
  BY <1>1, <1>4, <1>7, <1>8, <1>9, FormOf, Zenon
<1>11. r.children = dh
  BY <1>8
<1> HIDE DEF r
<1>12. Child(r, slot) = c
  BY <1>3, <1>5, <1>11, Zenon DEF Child
<1>13. slot < Len(r.children)
  BY <1>2, <1>5, <1>11, Zenon
<1>14. elems(r, s) = (Before(r, s, slot) \o elems(c, t)) \o After(r, s, slot)
  BY <1>10, <1>12, <1>13, ChildSplit, Zenon
<1>15. SubSeq(dh, 1, slot) = SubSeq(ch, 1, slot) /\ SubSeq(dh, slot + 2, m) = SubSeq(ch, slot + 2, m)
  BY <1>1, <1>2, ReplaceParts, Zenon DEF dh
<1>16. Before(r, s, slot) = Before(n, s, slot) /\ After(r, s, slot) = After(n, s, slot)
  BY <1>5, <1>11, <1>15, Zenon DEF Before, After
<1> QED
  BY <1>10, <1>14, <1>16, Zenon DEF r

DoSetBody(g, s) ==
  [n \in Nodes[s] |->
     [idx \in Nat |->
        [e \in Int |->
           LET nav == vi_nav(n, idx, s)
           IN IF s = 0 THEN [n EXCEPT ![(idx % BF) + 1] = e]
              ELSE with_child(n, nav[1], g[s - B][Child(n, nav[1])][nav[2]][e])]]]
Setting == INSTANCE RecursiveFunctions WITH D <- Shifts, Rank <- NatRank, Body <- DoSetBody

LEMMA DoSetIs == \A s \in Shifts : do_set[s] = DoSetBody(do_set, s)
<1>1. do_set = CHOOSE g : g = [s \in Shifts |-> DoSetBody(g, s)]
  BY Zenon DEF do_set, DoSetBody
<1>2. Setting!Ranked
  BY ShiftsRanked, Zenon DEF Setting!Ranked
<1>3. Setting!Local
  <2> SUFFICES ASSUME NEW g, NEW h, NEW s \in Shifts, \A t \in Shifts : NatRank(t) < NatRank(s) => g[t] = h[t]
               PROVE  DoSetBody(g, s) = DoSetBody(h, s)
    BY Zenon DEF Setting!Local
  <2>1. CASE s = 0
    BY <2>1, Zenon DEF DoSetBody
  <2>2. CASE s # 0
    <3>1. g[s - B] = h[s - B]
      BY <2>2, ShiftBelow, Zenon
    <3> QED
      BY <3>1, Zenon DEF DoSetBody
  <2> QED
    BY <2>1, <2>2
<1> QED
  BY <1>1, <1>2, <1>3, Setting!RecursiveFunction, Zenon

WriteBody(g, s) ==
  [n \in Nodes[s] |->
     [idx \in Nat |->
        [off \in Nat |->
           [e \in Int |->
              LET nav == vi_nav(n, idx, s)
              IN IF s = 0 THEN [n EXCEPT ![off + 1] = e]
                 ELSE with_child(n, nav[1], g[s - B][Child(n, nav[1])][nav[2]][off][e])]]]]
Writing == INSTANCE RecursiveFunctions WITH D <- Shifts, Rank <- NatRank, Body <- WriteBody

LEMMA WriteIs == \A s \in Shifts : write_leaf[s] = WriteBody(write_leaf, s)
<1>1. write_leaf = CHOOSE g : g = [s \in Shifts |-> WriteBody(g, s)]
  BY Zenon DEF write_leaf, WriteBody
<1>2. Writing!Ranked
  BY ShiftsRanked, Zenon DEF Writing!Ranked
<1>3. Writing!Local
  <2> SUFFICES ASSUME NEW g, NEW h, NEW s \in Shifts, \A t \in Shifts : NatRank(t) < NatRank(s) => g[t] = h[t]
               PROVE  WriteBody(g, s) = WriteBody(h, s)
    BY Zenon DEF Writing!Local
  <2>1. CASE s = 0
    BY <2>1, ZenonT(60) DEF WriteBody
  <2>2. CASE s # 0
    <3>1. g[s - B] = h[s - B]
      BY <2>2, ShiftBelow, Zenon
    <3> QED
      BY <3>1, ZenonT(60) DEF WriteBody
  <2> QED
    BY <2>1, <2>2
<1> QED
  BY <1>1, <1>2, <1>3, Writing!RecursiveFunction, Zenon

LEMMA SetStep ==
    ASSUME NEW s \in Inner, NEW n \in WellFormed[s], NEW idx \in Nat, NEW e \in Int
    PROVE  LET slot == vi_nav(n, idx, s)[1]
               rest == vi_nav(n, idx, s)[2]
           IN do_set[s][n][idx][e] = with_child(n, slot, do_set[s - B][Child(n, slot)][rest][e])
<1> DEFINE slot == vi_nav(n, idx, s)[1]
           rest == vi_nav(n, idx, s)[2]
<1>1. n \in Nodes[s] /\ s # 0 /\ s \in Shifts
  BY FormNodes, InnerType
<1>2. do_set[s] = DoSetBody(do_set, s)
  BY <1>1, DoSetIs
<1>3. DoSetBody(do_set, s)[n][idx][e] = with_child(n, slot, do_set[s - B][Child(n, slot)][rest][e])
  BY <1>1, Zenon DEF DoSetBody
<1> QED
  BY <1>2, <1>3, Zenon

LEMMA SetLeaf ==
    ASSUME NEW n \in WellFormed[0], NEW idx \in Nat, NEW e \in Int
    PROVE  do_set[0][n][idx][e] = Put(n, (idx % BF) + 1, e)
<1>1. n \in Nodes[0] /\ 0 \in Shifts
  BY FormNodes, BInner
<1>2. do_set[0] = DoSetBody(do_set, 0)
  BY <1>1, DoSetIs
<1>3. DoSetBody(do_set, 0)[n][idx][e] = Put(n, (idx % BF) + 1, e)
  BY <1>1, Zenon DEF DoSetBody, Put
<1> QED
  BY <1>2, <1>3, Zenon

LEMMA WriteStep ==
    ASSUME NEW s \in Inner, NEW n \in WellFormed[s], NEW idx \in Nat, NEW off \in Nat, NEW e \in Int
    PROVE  LET slot == vi_nav(n, idx, s)[1]
               rest == vi_nav(n, idx, s)[2]
           IN write_leaf[s][n][idx][off][e] = with_child(n, slot, write_leaf[s - B][Child(n, slot)][rest][off][e])
<1> DEFINE slot == vi_nav(n, idx, s)[1]
           rest == vi_nav(n, idx, s)[2]
<1>1. n \in Nodes[s] /\ s # 0 /\ s \in Shifts
  BY FormNodes, InnerType
<1>2. write_leaf[s] = WriteBody(write_leaf, s)
  BY <1>1, WriteIs
<1>3. WriteBody(write_leaf, s)[n][idx][off][e] = with_child(n, slot, write_leaf[s - B][Child(n, slot)][rest][off][e])
  BY <1>1, Zenon DEF WriteBody, Put
<1> QED
  BY <1>2, <1>3, Zenon

LEMMA WriteAtLeaf ==
    ASSUME NEW n \in WellFormed[0], NEW idx \in Nat, NEW off \in Nat, NEW e \in Int
    PROVE  write_leaf[0][n][idx][off][e] = Put(n, off + 1, e)
<1>1. n \in Nodes[0] /\ 0 \in Shifts
  BY FormNodes, BInner
<1>2. write_leaf[0] = WriteBody(write_leaf, 0)
  BY <1>1, WriteIs
<1>3. WriteBody(write_leaf, 0)[n][idx][off][e] = Put(n, off + 1, e)
  BY <1>1, Zenon DEF WriteBody, Put
<1> QED
  BY <1>2, <1>3, Zenon

\* do_set changes the element at its index and nothing else.
Sets(s, n, idx, e) ==
  idx % 2^(s + B) < Len(elems(n, s)) =>
    /\ do_set[s][n][idx][e] \in WellFormed[s]
    /\ elems(do_set[s][n][idx][e], s) = Put(elems(n, s), (idx % 2^(s + B)) + 1, e)

LEMMA SetsLeaf ==
    ASSUME NEW n \in WellFormed[0], NEW idx \in Nat, NEW e \in Int
    PROVE  Sets(0, n, idx, e)
<1> DEFINE k == idx % BF
           r == Put(n, k + 1, e)
<1>1. 2^(0 + B) = BF
  <2>1. 0 + B = B
    BY BType
  <2> QED
    BY <2>1, Zenon DEF BF
<1>2. do_set[0][n][idx][e] = r
  BY SetLeaf, Zenon
<1>3. elems(n, 0) = n /\ elems(r, 0) = r
  BY ElemsLeaf, Zenon
<1>4. n \in Seq(Int) /\ Len(n) \in 1 .. BF
  BY LeafForm, Zenon
<1>5. k \in Nat
  BY BType, Divide
<1> HIDE DEF k
<1>6. ASSUME k < Len(n) PROVE r \in WellFormed[0]
  <2>1. k + 1 \in 1 .. Len(n)
    BY <1>4, <1>5, <1>6
  <2>2. r \in Seq(Int) /\ Replaced(r, n, k + 1, e)
    BY <1>4, <2>1, ReplaceAt, Zenon
  <2>3. Len(r) \in 1 .. BF
    BY <1>4, <2>2, Zenon DEF Replaced
  <2> HIDE DEF r
  <2>4. r \in {m \in Seq(Int) : Len(m) \in 1 .. BF}
    BY <2>2, <2>3, Zenon
  <2> QED
    BY <2>4, LeafForm, Zenon
<1> QED
  BY <1>1, <1>2, <1>3, <1>6, Zenon DEF Sets, k

LEMMA SetsStep ==
    ASSUME NEW s \in Inner, \A c \in WellFormed[s - B] : \A k \in Nat : \A e \in Int : Sets(s - B, c, k, e),
           NEW n \in WellFormed[s], NEW idx \in Nat, NEW e \in Int
    PROVE  Sets(s, n, idx, e)
<1> SUFFICES ASSUME idx % 2^(s + B) < Len(elems(n, s))
             PROVE  /\ do_set[s][n][idx][e] \in WellFormed[s]
                    /\ elems(do_set[s][n][idx][e], s) = Put(elems(n, s), (idx % 2^(s + B)) + 1, e)
  BY Zenon DEF Sets
<1> DEFINE t == s - B
           i == idx % 2^(s + B)
           slot == vi_nav(n, idx, s)[1]
           rest == vi_nav(n, idx, s)[2]
           off == rest % 2^s
           c == Child(n, slot)
           c2 == do_set[t][c][rest][e]
           f == do_set[s][n][idx][e]
           x == Before(n, s, slot)
           y == After(n, s, slot)
           ec == elems(c, t)
<1>1. rest \in Nat /\ Locates(n, s, i, slot, off)
  BY NavExact, Zenon
<1>2. i \in Nat
  <2>1. 2^(s + B) \in Nat /\ 2^(s + B) > 0
    BY ShiftUp, Capacity, InnerType
  <2> QED
    BY <2>1, Divide
<1>3. f = with_child(n, slot, c2)
  BY SetStep, Zenon
<1> HIDE DEF i, slot, rest, off, f
<1>4. /\ slot \in Nat /\ slot < Len(n.children) /\ off \in Nat
      /\ Upto(n, s, slot) + off = i
      /\ off < Len(ec)
  BY <1>1, Zenon DEF Locates
<1>5. /\ c \in WellFormed[t] /\ ec \in Seq(Int)
      /\ x \in Seq(Int) /\ y \in Seq(Int)
      /\ Len(x) = Upto(n, s, slot)
      /\ elems(n, s) = (x \o ec) \o y
  BY <1>4, ChildSplit, Zenon
<1>6. rest % 2^(t + B) = off
  <2>1. t + B = s
    BY InnerType, BType
  <2> QED
    BY <2>1, Zenon DEF off
<1>7. c2 \in WellFormed[t] /\ elems(c2, t) = Put(ec, off + 1, e)
  <2>1. Sets(t, c, rest, e)
    BY <1>1, <1>5, Zenon
  <2> QED
    BY <1>4, <1>6, <2>1, Zenon DEF Sets
<1> DEFINE e2 == Put(ec, off + 1, e)
<1>8. Len(e2) = Len(ec) /\ Put(elems(n, s), i + 1, e) = (x \o e2) \o y
  <2> DEFINE a == elems(n, s)
  <2> HIDE DEF ec, x, y, a
  <2>1. /\ a = (x \o ec) \o y /\ Len(x) + off = i
        /\ x \in Seq(Int) /\ y \in Seq(Int) /\ ec \in Seq(Int) /\ off \in Nat /\ off < Len(ec)
    BY <1>4, <1>5, Zenon DEF a
  <2>2. Len(e2) = Len(ec) /\ Put(a, i + 1, e) = (x \o e2) \o y
    <3>1. /\ Put(ec, off + 1, e) \in Seq(Int) /\ Len(Put(ec, off + 1, e)) = Len(ec)
          /\ Put((x \o ec) \o y, (Len(x) + off) + 1, e) = (x \o Put(ec, off + 1, e)) \o y
      <4>1. PutsInside(x, ec, y, off, e)
        BY <2>1, PutInside, Zenon
      <4> QED
        BY <4>1, Zenon DEF PutsInside
    <3> QED
      BY <2>1, <3>1, Zenon
  <2> QED
    BY <2>2, Zenon DEF a
<1>9. Len(elems(c2, t)) = Len(elems(c, t))
  BY <1>7, <1>8, Zenon
<1> HIDE DEF c2, e2
<1>10. f \in WellFormed[s] /\ elems(f, s) = (x \o elems(c2, t)) \o y
  BY <1>3, <1>4, <1>7, <1>9, WithChild, Zenon
<1> QED
  BY <1>7, <1>8, <1>10, Zenon DEF f, i, e2

LEMMA DoSet == \A s \in Shifts : \A n \in WellFormed[s] : \A idx \in Nat : \A e \in Int : Sets(s, n, idx, e)
<1> DEFINE P == {s \in Shifts : \A n \in WellFormed[s] : \A idx \in Nat : \A e \in Int : Sets(s, n, idx, e)}
<1>1. 0 \in P
  BY BInner, SetsLeaf, Zenon
<1>2. ASSUME NEW s \in Inner, s - B \in P PROVE s \in P
  <2>1. \A n \in WellFormed[s - B] : \A idx \in Nat : \A e \in Int : Sets(s - B, n, idx, e)
    BY <1>2, Zenon
  <2>2. \A n \in WellFormed[s] : \A idx \in Nat : \A e \in Int : Sets(s, n, idx, e)
    BY <2>1, SetsStep, Zenon
  <2>3. s \in Shifts
    BY InnerType
  <2> QED
    BY <2>2, <2>3, Zenon
<1> HIDE DEF P
<1>3. \A s \in Shifts : s \in P
  BY <1>1, <1>2, ShiftInduct, Zenon
<1> QED
  BY <1>3, Zenon DEF P

\* The uncopied write at the offset that leaf_at yields is the copying one.
WritesSame(s, n, idx, e) ==
  idx % 2^(s + B) < Len(elems(n, s)) => write_leaf[s][n][idx][leaf_at[s][n][idx][2]][e] = do_set[s][n][idx][e]

LEMMA WritesStep ==
    ASSUME NEW s \in Inner,
           s # B => \A c \in WellFormed[s - B] : \A k \in Nat : \A e \in Int : WritesSame(s - B, c, k, e),
           NEW n \in WellFormed[s], NEW idx \in Nat, NEW e \in Int
    PROVE  WritesSame(s, n, idx, e)
<1> SUFFICES ASSUME idx % 2^(s + B) < Len(elems(n, s))
             PROVE  write_leaf[s][n][idx][leaf_at[s][n][idx][2]][e] = do_set[s][n][idx][e]
  BY Zenon DEF WritesSame
<1> DEFINE t == s - B
           i == idx % 2^(s + B)
           slot == vi_nav(n, idx, s)[1]
           rest == vi_nav(n, idx, s)[2]
           off == rest % 2^s
           c == Child(n, slot)
           f == leaf_at[s][n][idx]
           k == f[2]
<1>1. rest \in Nat /\ Locates(n, s, i, slot, off)
  BY NavExact, Zenon
<1>2. do_set[s][n][idx][e] = with_child(n, slot, do_set[t][c][rest][e])
  BY SetStep, Zenon
<1>3. f = IF s = B THEN <<c, rest % BF>> ELSE leaf_at[t][c][rest]
  BY LeafAtStep, Zenon
<1>4. k \in Nat
  <2>1. Reads(s, n, idx)
    BY LeafAt, Zenon
  <2> QED
    BY <2>1, Zenon DEF Reads, LeafOf
<1>5. write_leaf[s][n][idx][k][e] = with_child(n, slot, write_leaf[t][c][rest][k][e])
  BY <1>4, WriteStep, ZenonT(60)
<1>6. i \in Nat
  <2>1. 2^(s + B) \in Nat /\ 2^(s + B) > 0
    BY ShiftUp, Capacity, InnerType
  <2> QED
    BY <2>1, Divide
<1> HIDE DEF i, slot, rest, off
<1>7. c \in WellFormed[t] /\ off < Len(elems(c, t))
  BY <1>1, <1>6, NavWithin, Zenon
<1>8. CASE s = B
  <2>1. t = 0
    BY <1>8, InnerType
  <2>2. f = <<c, rest % BF>>
    BY <1>3, <1>8, Zenon
  <2>3. k = rest % BF
    <3> DEFINE z == rest % BF
    <3>1. f = <<c, z>>
      BY <2>2, Zenon
    <3> HIDE DEF f, z, c
    <3>2. f[2] = z
      BY <3>1
    <3> QED
      BY <3>2, Zenon DEF z
  <2>4. write_leaf[0][c][rest][k][e] = Put(c, k + 1, e)
    BY <1>1, <1>4, <1>7, <2>1, WriteAtLeaf, Zenon
  <2>5. do_set[0][c][rest][e] = Put(c, (rest % BF) + 1, e)
    BY <1>1, <1>7, <2>1, SetLeaf, Zenon
  <2>6. write_leaf[t][c][rest][k][e] = do_set[t][c][rest][e]
    BY <2>1, <2>3, <2>4, <2>5, Zenon
  <2> QED
    BY <1>2, <1>5, <2>6, Zenon
<1>9. CASE s # B
  <2>1. WritesSame(t, c, rest, e)
    BY <1>1, <1>7, <1>9, Zenon
  <2>2. rest % 2^(t + B) = off
    <3>1. t + B = s
      BY InnerType, BType
    <3> QED
      BY <3>1, Zenon DEF off
  <2>3. f = leaf_at[t][c][rest]
    BY <1>3, <1>9, Zenon
  <2>4. write_leaf[t][c][rest][k][e] = do_set[t][c][rest][e]
    BY <1>7, <2>1, <2>2, <2>3, Zenon DEF WritesSame
  <2> QED
    BY <1>2, <1>5, <2>4, Zenon
<1> QED
  BY <1>8, <1>9, Zenon

LEMMA WriteLeaf == \A s \in Inner : \A n \in WellFormed[s] : \A idx \in Nat : \A e \in Int : WritesSame(s, n, idx, e)
<1> DEFINE P == {s \in Inner : \A n \in WellFormed[s] : \A idx \in Nat : \A e \in Int : WritesSame(s, n, idx, e)}
<1>1. B \in P
  BY BInner, WritesStep, Zenon
<1>2. ASSUME NEW s \in Inner, s # B, s - B \in P PROVE s \in P
  <2>1. \A n \in WellFormed[s - B] : \A idx \in Nat : \A e \in Int : WritesSame(s - B, n, idx, e)
    BY <1>2, Zenon
  <2>2. \A n \in WellFormed[s] : \A idx \in Nat : \A e \in Int : WritesSame(s, n, idx, e)
    BY <2>1, WritesStep, Zenon
  <2> QED
    BY <2>2, Zenon
<1> HIDE DEF P
<1>3. \A s \in Inner : s \in P
  BY <1>1, <1>2, InnerInduct, Zenon
<1> QED
  BY <1>3, Zenon DEF P

LEMMA PutBesides ==
    ASSUME NEW d \in Seq(Int), NEW t \in Seq(Int), NEW k \in Nat, NEW e \in Int
    PROVE  /\ k < Len(d) => /\ Put(d, k + 1, e) \in Seq(Int) /\ Len(Put(d, k + 1, e)) = Len(d)
                            /\ Put(d \o t, k + 1, e) = Put(d, k + 1, e) \o t
           /\ k < Len(t) => /\ Put(t, k + 1, e) \in Seq(Int) /\ Len(Put(t, k + 1, e)) = Len(t)
                            /\ Put(d \o t, (Len(d) + k) + 1, e) = d \o Put(t, k + 1, e)
<1> DEFINE q == <<>>
<1>1. q \in Seq(Int) /\ q \o d = d /\ Len(q) + k = k
  BY EmptyLeft
<1>2. d \o t \in Seq(Int)
  BY Assoc, Zenon
<1>3. (d \o t) \o q = d \o t
  BY <1>2, EmptyLeft, Zenon
<1>4. ASSUME k < Len(d)
      PROVE  /\ Put(d, k + 1, e) \in Seq(Int) /\ Len(Put(d, k + 1, e)) = Len(d)
             /\ Put(d \o t, k + 1, e) = Put(d, k + 1, e) \o t
  <2> HIDE DEF q
  <2>1. PutsInside(q, d, t, k, e)
    BY <1>1, <1>4, PutInside, Zenon
  <2> DEFINE p == Put(d, k + 1, e)
  <2>2. p \in Seq(Int) /\ Len(p) = Len(d) /\ Put((q \o d) \o t, (Len(q) + k) + 1, e) = (q \o p) \o t
    BY <2>1, Zenon DEF PutsInside
  <2>3. q \o p = p
    BY <2>2, EmptyLeft, Zenon DEF q
  <2> HIDE DEF p
  <2>4. Put(d \o t, k + 1, e) = p \o t
    BY <1>1, <2>2, <2>3, Zenon
  <2> QED
    BY <2>2, <2>4, Zenon DEF p
<1>5. ASSUME k < Len(t)
      PROVE  /\ Put(t, k + 1, e) \in Seq(Int) /\ Len(Put(t, k + 1, e)) = Len(t)
             /\ Put(d \o t, (Len(d) + k) + 1, e) = d \o Put(t, k + 1, e)
  <2> HIDE DEF q
  <2>1. PutsInside(d, t, q, k, e)
    BY <1>1, <1>5, PutInside, Zenon
  <2> DEFINE p == Put(t, k + 1, e)
  <2>2. p \in Seq(Int) /\ Len(p) = Len(t) /\ Put((d \o t) \o q, (Len(d) + k) + 1, e) = (d \o p) \o q
    BY <2>1, Zenon DEF PutsInside
  <2> HIDE DEF p
  <2>5. d \o p \in Seq(Int)
    BY <2>2, Assoc, Zenon
  <2>3. (d \o p) \o q = d \o p
    BY <2>5, EmptyLeft, Zenon DEF q
  <2>4. Put(d \o t, (Len(d) + k) + 1, e) = d \o p
    BY <1>3, <2>2, <2>3, Zenon
  <2> QED
    BY <2>2, <2>4, Zenon DEF p
<1> QED
  BY <1>4, <1>5, Zenon

PutsLeft(d, t, k, e) ==
  /\ Put(d, k + 1, e) \in Seq(Int) /\ Len(Put(d, k + 1, e)) = Len(d)
  /\ Put(d \o t, k + 1, e) = Put(d, k + 1, e) \o t

PutsRight(d, t, k, e) ==
  /\ Put(t, k + 1, e) \in Seq(Int) /\ Len(Put(t, k + 1, e)) = Len(t)
  /\ Put(d \o t, (Len(d) + k) + 1, e) = d \o Put(t, k + 1, e)

LEMMA PutLeft ==
    ASSUME NEW d \in Seq(Int), NEW t \in Seq(Int), NEW k \in Nat, k < Len(d), NEW e \in Int
    PROVE  PutsLeft(d, t, k, e)
BY PutBesides, ZenonT(60) DEF PutsLeft

LEMMA PutRight ==
    ASSUME NEW d \in Seq(Int), NEW t \in Seq(Int), NEW k \in Nat, k < Len(t), NEW e \in Int
    PROVE  PutsRight(d, t, k, e)
BY PutBesides, ZenonT(60) DEF PutsRight

LEMMA RecordWith ==
    ASSUME NEW x, x = [len |-> x.len, shift |-> x.shift, root |-> x.root, tail |-> x.tail], NEW y
    PROVE  /\ [x EXCEPT !.root = y] = [len |-> x.len, shift |-> x.shift, root |-> y, tail |-> x.tail]
           /\ [x EXCEPT !.tail = y] = [len |-> x.len, shift |-> x.shift, root |-> x.root, tail |-> y]
OBVIOUS

\* A vector is made of a tree and a tail that is not empty.
LEMMA LoadedOf ==
    ASSUME NEW root, NEW shift, NEW tail \in WellFormed[0], NEW len, NEW d \in Seq(Int), TreeOf(root, shift, d),
           len = Len(d) + Len(tail)
    PROVE  LET x == [len |-> len, shift |-> shift, root |-> root, tail |-> tail]
           IN VecIs(x, d \o tail)
<1> DEFINE x == [len |-> len, shift |-> shift, root |-> root, tail |-> tail]
<1>1. tail \in Seq(Int) /\ Len(tail) \in 1 .. BF
  BY LeafForm, Zenon
<1>2. Len(tail) <= BF /\ tail # <<>>
  <2> DEFINE k == Len(tail)
  <2>1. k \in 1 .. BF
    BY <1>1, Zenon
  <2> HIDE DEF k
  <2>2. k <= BF /\ k # 0
    BY <2>1, BType
  <2>3. Len(<<>>) = 0
    OBVIOUS
  <2> QED
    BY <2>2, <2>3, Zenon DEF k
<1>3. Vec(x, d) /\ x.tail = tail
  BY <1>1, <1>2, VecOf, Zenon
<1> HIDE DEF x
<1>4. Loaded(x, d \o tail)
  BY <1>2, <1>3, Zenon DEF Loaded
<1>5. d \o tail # <<>>
  BY <1>1, <1>2, EmptyNotNonempty, Zenon
<1> QED
  BY <1>4, <1>5, Zenon DEF VecIs, x

SetsTree(root, shift, d, i, e) ==
  /\ TreeOf(do_set[shift][root][i][e], shift, Put(d, i + 1, e))
  /\ write_leaf[shift][root][i][leaf_at[shift][root][i][2]][e] = do_set[shift][root][i][e]

LEMMA TreeSet ==
    ASSUME NEW root, NEW shift, NEW d, TreeOf(root, shift, d), NEW i \in Nat, i < Len(d), NEW e \in Int
    PROVE  SetsTree(root, shift, d, i, e)
<1>1. d # <<>>
  <2>1. Len(<<>>) = 0
    OBVIOUS
  <2> QED
    BY <2>1
<1>2. shift \in Inner /\ root \in WellFormed[shift] /\ elems(root, shift) = d
  BY <1>1, Zenon DEF TreeOf
<1>3. i % 2^(shift + B) = i /\ shift \in Shifts
  BY <1>2, IndexInTree, InnerType, Zenon
<1> DEFINE r == do_set[shift][root][i][e]
<1>4. r \in WellFormed[shift] /\ elems(r, shift) = Put(d, i + 1, e)
  <2>1. Sets(shift, root, i, e)
    BY <1>2, <1>3, DoSet, Zenon
  <2> QED
    BY <1>2, <1>3, <2>1, Zenon DEF Sets
<1>5. write_leaf[shift][root][i][leaf_at[shift][root][i][2]][e] = r
  <2>1. WritesSame(shift, root, i, e)
    BY <1>2, WriteLeaf, Zenon
  <2> QED
    BY <1>2, <1>3, <2>1, Zenon DEF WritesSame
<1> HIDE DEF r
<1>6. r # Null
  BY <1>2, <1>4, FormFields, Zenon
<1>7. TreeOf(r, shift, Put(d, i + 1, e))
  BY <1>2, <1>4, <1>6, Zenon DEF TreeOf
<1> QED
  BY <1>5, <1>7, Zenon DEF r, SetsTree

\* Both writes change the element at the index, in the same way.
LEMMA SetVec ==
    ASSUME NEW x, NEW a, VecIs(x, a), NEW i \in Nat, i < Len(a), NEW e \in Int
    PROVE  VecIs(set(x, i, e), Put(a, i + 1, e)) /\ set_in_place(x, i, e) = set(x, i, e)
<1>1. Loaded(x, a)
  <2>1. a # <<>>
    <3>1. Len(<<>>) = 0
      OBVIOUS
    <3> QED
      BY <3>1
  <2> QED
    BY <2>1, Zenon DEF VecIs
<1>2. PICK d \in Seq(Int) :
             /\ Vec(x, d) /\ TreeOf(x.root, x.shift, d) /\ a = d \o x.tail
             /\ tailoff(x) = Len(d) /\ Len(d) \in Nat
             /\ x.tail \in Seq(Int) /\ x.tail \in WellFormed[0]
             /\ Len(x.tail) \in Nat /\ Len(x.tail) > 0 /\ Len(x.tail) <= BF
             /\ Len(a) = Len(d) + Len(x.tail)
             /\ x = [len |-> x.len, shift |-> x.shift, root |-> x.root, tail |-> x.tail]
  BY <1>1, LoadedParts, Zenon
<1> DEFINE ld == Len(d)
           lt == Len(x.tail)
           f == get_leaf(x, i)
<1>3. ld \in Nat /\ lt \in Nat /\ i < ld + lt /\ x.len = ld + lt
  <2>1. i < Len(a)
    OBVIOUS
  <2>2. x.len = Len(a)
    BY VecIsFacts, Zenon
  <2> QED
    BY <1>2, <2>1, <2>2, Zenon
<1>4. CASE i >= ld
  <2> DEFINE k == i - ld
             t == x.tail
             t2 == Put(t, k + 1, e)
             y == [x EXCEPT !.tail = t2]
  <2>1. k \in Nat /\ k < lt /\ ld + k = i
    <3> HIDE DEF ld, lt
    <3> QED
      BY <1>3, <1>4
  <2>2. f[2] = k
    <3>1. f = <<t, k>>
      BY <1>2, <1>4, Zenon DEF get_leaf
    <3> HIDE DEF f, t, k
    <3> QED
      BY <3>1
  <2>3. set(x, i, e) = y
    BY <1>2, <1>4, Zenon DEF set, Put
  <2>4. set_in_place(x, i, e) = y
    BY <1>2, <1>4, <2>2, Zenon DEF set_in_place, Put
  <2>5. y = [len |-> x.len, shift |-> x.shift, root |-> x.root, tail |-> t2]
    BY <1>2, RecordWith, Zenon
  <2>6. t2 \in Seq(Int) /\ Len(t2) = Len(t) /\ Put(d \o t, (ld + k) + 1, e) = d \o t2
    <3>1. PutsRight(d, t, k, e)
      BY <1>2, <2>1, PutRight, Zenon
    <3> QED
      BY <3>1, Zenon DEF PutsRight
  <2>7. t2 \in WellFormed[0]
    <3>1. Len(t) \in 1 .. BF /\ t \in Seq(Int)
      BY <1>2, LeafForm, Zenon
    <3>2. t2 \in {m \in Seq(Int) : Len(m) \in 1 .. BF}
      BY <2>6, <3>1, Zenon
    <3> QED
      BY <3>2, LeafForm, Zenon
  <2>8. x.len = Len(d) + Len(t2)
    BY <1>3, <2>6, Zenon
  <2> HIDE DEF t2, y
  <2>9. VecIs(y, d \o t2)
    <3> DEFINE r1 == x.root
               s1 == x.shift
               l1 == x.len
    <3>1. TreeOf(r1, s1, d) /\ l1 = Len(d) + Len(t2)
      BY <1>2, <2>8, Zenon
    <3> HIDE DEF r1, s1, l1
    <3>2. VecIs([len |-> l1, shift |-> s1, root |-> r1, tail |-> t2], d \o t2)
      BY <2>7, <3>1, LoadedOf, Zenon
    <3> QED
      BY <2>5, <3>2, Zenon DEF r1, s1, l1
  <2>10. Put(a, i + 1, e) = d \o t2
    BY <1>2, <2>1, <2>6, Zenon
  <2> QED
    BY <2>3, <2>4, <2>9, <2>10, Zenon
<1>5. CASE ~(i >= ld)
  <2>1. i < ld
    <3> HIDE DEF ld
    <3> QED
      BY <1>3, <1>5
  <2> DEFINE n == do_set[x.shift][x.root][i][e]
             y == [x EXCEPT !.root = n]
             d2 == Put(d, i + 1, e)
             t == x.tail
  <2>2. TreeOf(n, x.shift, d2) /\ write_leaf[x.shift][x.root][i][leaf_at[x.shift][x.root][i][2]][e] = n
    <3>1. SetsTree(x.root, x.shift, d, i, e)
      BY <1>2, <2>1, TreeSet, Zenon
    <3> QED
      BY <3>1, Zenon DEF SetsTree
  <2>3. f = leaf_at[x.shift][x.root][i]
    BY <1>2, <1>5, Zenon DEF get_leaf
  <2>4. set(x, i, e) = y
    BY <1>2, <1>5, Zenon DEF set
  <2>5. set_in_place(x, i, e) = y
    <3>1. set_in_place(x, i, e) = [x EXCEPT !.root = write_leaf[x.shift][x.root][i][f[2]][e]]
      BY <1>2, <1>5, Zenon DEF set_in_place
    <3> QED
      BY <2>2, <2>3, <3>1, Zenon
  <2>6. y = [len |-> x.len, shift |-> x.shift, root |-> n, tail |-> t]
    BY <1>2, RecordWith, Zenon
  <2>7. d2 \in Seq(Int) /\ Len(d2) = Len(d) /\ Put(d \o t, i + 1, e) = d2 \o t
    <3>1. PutsLeft(d, t, i, e)
      BY <1>2, <2>1, PutLeft, Zenon
    <3> QED
      BY <3>1, Zenon DEF PutsLeft
  <2>8. x.len = Len(d2) + Len(t)
    BY <1>3, <2>7, Zenon
  <2> HIDE DEF n, y, d2
  <2>9. VecIs(y, d2 \o t)
    <3> DEFINE s1 == x.shift
               l1 == x.len
    <3>1. TreeOf(n, s1, d2) /\ l1 = Len(d2) + Len(t) /\ t \in WellFormed[0]
      BY <1>2, <2>2, <2>8, Zenon
    <3> HIDE DEF s1, l1, t
    <3>2. VecIs([len |-> l1, shift |-> s1, root |-> n, tail |-> t], d2 \o t)
      BY <2>7, <3>1, LoadedOf, Zenon
    <3> QED
      BY <2>6, <3>2, Zenon DEF s1, l1
  <2>10. Put(a, i + 1, e) = d2 \o t
    BY <1>2, <2>7, Zenon
  <2> QED
    BY <2>4, <2>5, <2>9, <2>10, Zenon
<1> QED
  BY <1>4, <1>5, Zenon

-----------------------------------------------------------------------------
(***************************************************************************)
(* Cutting.                                                                *)
(***************************************************************************)
\* Up to place off of the middle part, and from it on.
Taking(pre, m, post, off) ==
  SubSeq((pre \o m) \o post, 1, (Len(pre) + off) + 1) = pre \o SubSeq(m, 1, off + 1)
Dropping(pre, m, post, off) ==
  SubSeq((pre \o m) \o post, (Len(pre) + off) + 1, Len((pre \o m) \o post)) = SubSeq(m, off + 1, Len(m)) \o post

LEMMA PrefixOf ==
    ASSUME NEW S, NEW x \in Seq(S), NEW y \in Seq(S)
    PROVE  SubSeq(x \o y, 1, Len(x)) = x
<1> DEFINE a == x \o y
           p == SubSeq(a, 1, Len(x))
<1>1. a \in Seq(S) /\ IsTwo(a, x, y)
  BY TwoParts, Zenon
<1>2. Len(a) = Len(x) + Len(y) /\ \A k \in 1 .. Len(x) : a[k] = x[k]
  BY <1>1, Zenon DEF IsTwo
<1>3. Len(x) \in Nat /\ Len(y) \in Nat
  OBVIOUS
<1> HIDE DEF a
<1>4. Len(x) <= Len(a)
  BY <1>2, <1>3
<1>5. p \in Seq(S) /\ Len(p) = Len(x) /\ \A k \in 1 .. Len(x) : p[k] = a[k]
  BY <1>1, <1>3, <1>4, PrefixType, Zenon
<1> HIDE DEF p
<1>6. \A k \in 1 .. Len(p) : p[k] = x[k]
  BY <1>2, <1>5, Zenon
<1>7. p = x
  BY <1>5, <1>6, SeqEqual, Zenon
<1> QED
  BY <1>7, Zenon DEF p, a

LEMMA SuffixOf ==
    ASSUME NEW S, NEW x \in Seq(S), NEW y \in Seq(S)
    PROVE  SubSeq(x \o y, Len(x) + 1, Len(x \o y)) = y
<1> DEFINE a == x \o y
           h == Len(x)
           m == Len(a)
           p == SubSeq(a, h + 1, m)
<1>1. a \in Seq(S) /\ IsTwo(a, x, y)
  BY TwoParts, Zenon
<1>2. m = h + Len(y) /\ \A k \in 1 .. Len(y) : a[h + k] = y[k]
  BY <1>1, Zenon DEF IsTwo
<1>3. h \in Nat /\ Len(y) \in Nat
  OBVIOUS
<1> HIDE DEF h, a
<1>4. m \in Nat /\ h <= m /\ m <= m /\ m - h = Len(y)
  <2> HIDE DEF m
  <2> QED
    BY <1>2, <1>3
<1>5. p \in Seq(S) /\ Len(p) = m - h /\ \A k \in 1 .. m - h : p[k] = a[h + k]
  BY <1>1, <1>3, <1>4, PartType, Zenon
<1> HIDE DEF p
<1>8. Len(p) = Len(y)
  BY <1>4, <1>5, Zenon
<1>6. \A k \in 1 .. Len(p) : p[k] = y[k]
  BY <1>2, <1>4, <1>5, <1>8, Zenon
<1>7. p = y
  BY <1>5, <1>6, <1>8, SeqEqual, Zenon
<1> QED
  BY <1>7, Zenon DEF p, a, h, m

LEMMA Cuts ==
    ASSUME NEW pre \in Seq(Int), NEW m \in Seq(Int), NEW post \in Seq(Int), NEW off \in Nat, off < Len(m)
    PROVE  Taking(pre, m, post, off) /\ Dropping(pre, m, post, off)
<1> DEFINE a == (pre \o m) \o post
           lp == Len(pre)
           lm == Len(m)
<1>0. lp \in Nat /\ lm \in Nat /\ off < lm
  OBVIOUS
<1> HIDE DEF lp, lm
<1>10. off + 1 \in Nat /\ off + 1 <= lm /\ off <= lm
  BY <1>0
<1>1. Taking(pre, m, post, off)
  <2> DEFINE x == SubSeq(m, 1, off + 1)
             y == SubSeq(m, (off + 1) + 1, lm)
             px == pre \o x
             yp == y \o post
  <2>1. x \in Seq(Int) /\ Len(x) = off + 1 /\ y \in Seq(Int) /\ m = x \o y
    BY <1>10, SplitAt, ZenonT(60) DEF lm
  <2> HIDE DEF x, y
  <2>2. px \in Seq(Int) /\ yp \in Seq(Int) /\ x \o y \in Seq(Int)
    BY <2>1, Assoc, Zenon
  <2>3. pre \o (x \o y) = px \o y
    BY <2>1, AssocAll, ZenonT(60)
  <2>4. a = px \o yp
    <3>1. a = (px \o y) \o post
      BY <2>1, <2>3, Zenon
    <3>3. px \in Seq(Int) /\ y \in Seq(Int)
      BY <2>1, <2>2, Zenon
    <3> HIDE DEF px
    <3>2. (px \o y) \o post = px \o yp
      BY <3>3, AssocAll, ZenonT(60)
    <3> QED
      BY <3>1, <3>2, Zenon
  <2>5. Len(px) = lp + Len(x)
    <3>1. x \in Seq(Int)
      BY <2>1, Zenon
    <3> QED
      BY <3>1 DEF lp
  <2>6. lp + Len(x) = (lp + off) + 1
    BY <1>0, <2>1
  <2> HIDE DEF px, yp, a
  <2>7. SubSeq(a, 1, (lp + off) + 1) = px
    <3>1. SubSeq(px \o yp, 1, Len(px)) = px
      BY <2>2, PrefixOf, Zenon
    <3> QED
      BY <2>4, <2>5, <2>6, <3>1, Zenon
  <2> QED
    BY <2>7, Zenon DEF px, x, a, lp, Taking
<1>2. Dropping(pre, m, post, off)
  <2> DEFINE x == SubSeq(m, 1, off)
             y == SubSeq(m, off + 1, lm)
             px == pre \o x
             yp == y \o post
  <2>1. x \in Seq(Int) /\ Len(x) = off /\ y \in Seq(Int) /\ m = x \o y
    BY <1>10, SplitAt, Zenon DEF lm
  <2> HIDE DEF x, y
  <2>2. px \in Seq(Int) /\ yp \in Seq(Int) /\ x \o y \in Seq(Int)
    BY <2>1, Assoc, Zenon
  <2>3. pre \o (x \o y) = px \o y
    BY <2>1, AssocAll, ZenonT(60)
  <2>4. a = px \o yp
    <3>1. a = (px \o y) \o post
      BY <2>1, <2>3, Zenon
    <3>3. px \in Seq(Int) /\ y \in Seq(Int)
      BY <2>1, <2>2, Zenon
    <3> HIDE DEF px
    <3>2. (px \o y) \o post = px \o yp
      BY <3>3, AssocAll, ZenonT(60)
    <3> QED
      BY <3>1, <3>2, Zenon
  <2>5. Len(px) = lp + off
    <3>1. x \in Seq(Int)
      BY <2>1, Zenon
    <3>2. Len(px) = lp + Len(x)
      BY <3>1 DEF lp
    <3> QED
      BY <2>1, <3>2, Zenon
  <2> HIDE DEF px, yp, a
  <2>7. SubSeq(a, (lp + off) + 1, Len(a)) = yp
    <3>1. SubSeq(px \o yp, Len(px) + 1, Len(px \o yp)) = yp
      BY <2>2, SuffixOf, Zenon
    <3> QED
      BY <2>4, <2>5, <3>1, Zenon
  <2> QED
    BY <2>7, Zenon DEF yp, y, a, lp, lm, Dropping
<1> QED
  BY <1>1, <1>2, Zenon

\* A part of a leaf that is not empty is a leaf.
LEMMA LeafPart ==
    ASSUME NEW m \in WellFormed[0], NEW i \in Nat, NEW j \in Nat, i < j, j <= Len(m)
    PROVE  SubSeq(m, i + 1, j) \in WellFormed[0]
<1> DEFINE p == SubSeq(m, i + 1, j)
<1>1. m \in Seq(Int) /\ Len(m) \in 1 .. BF
  BY LeafForm, Zenon
<1>2. i <= j /\ j <= Len(m)
  OBVIOUS
<1>3. p \in Seq(Int) /\ Len(p) = j - i
  BY <1>1, <1>2, PartType, Zenon
<1>4. j - i \in 1 .. BF
  <2> DEFINE k == Len(m)
  <2>1. k \in 1 .. BF /\ j <= k
    BY <1>1, <1>2, Zenon
  <2> HIDE DEF k
  <2> QED
    BY <2>1, BType
<1> HIDE DEF p
<1>5. p \in {q \in Seq(Int) : Len(q) \in 1 .. BF}
  BY <1>3, <1>4, Zenon
<1> QED
  BY <1>5, LeafForm, Zenon DEF p

TrimRightWith(r, s, n, k) ==
  LET nav == vi_nav(n, k - 1, s)
      c == Child(n, nav[1])
      trimmed == IF s = B THEN leaf_upto(c, nav[2]) ELSE r[c][nav[2] + 1]
  IN IF s = 0 THEN SubSeq(n, 1, k)
     ELSE make_relaxed(Append(SubSeq(n.children, 1, nav[1]), trimmed), s)
TrimRightBody(g, s) == [n \in Nodes[s] |-> [k \in Nat |-> TrimRightWith(g[s - B], s, n, k)]]
TrimmingRight == INSTANCE RecursiveFunctions WITH D <- Shifts, Rank <- NatRank, Body <- TrimRightBody

LEMMA TrimRightIs == \A s \in Shifts : slice_trim_right[s] = TrimRightBody(slice_trim_right, s)
<1>1. slice_trim_right = CHOOSE g : g = [s \in Shifts |-> TrimRightBody(g, s)]
  BY Zenon DEF slice_trim_right, TrimRightBody, TrimRightWith
<1>2. TrimmingRight!Ranked
  BY ShiftsRanked, Zenon DEF TrimmingRight!Ranked
<1>3. TrimmingRight!Local
  <2> SUFFICES ASSUME NEW g, NEW h, NEW s \in Shifts, \A t \in Shifts : NatRank(t) < NatRank(s) => g[t] = h[t]
               PROVE  TrimRightBody(g, s) = TrimRightBody(h, s)
    BY Zenon DEF TrimmingRight!Local
  <2>1. CASE s = 0
    BY <2>1, Zenon DEF TrimRightBody, TrimRightWith
  <2>2. CASE s # 0
    <3>1. g[s - B] = h[s - B]
      BY <2>2, ShiftBelow, Zenon
    <3> QED
      BY <3>1, Zenon DEF TrimRightBody
  <2> QED
    BY <2>1, <2>2
<1> QED
  BY <1>1, <1>2, <1>3, TrimmingRight!RecursiveFunction, Zenon

TrimLeftWith(r, s, n, k) ==
  LET nav == vi_nav(n, k, s)
      c == Child(n, nav[1])
      trimmed == IF s = B THEN leaf_from(c, nav[2]) ELSE r[c][nav[2]]
  IN IF s = 0 THEN SubSeq(n, k + 1, Len(n))
     ELSE make_relaxed(<<trimmed>> \o SubSeq(n.children, nav[1] + 2, child_count(n)), s)
TrimLeftBody(g, s) == [n \in Nodes[s] |-> [k \in Nat |-> TrimLeftWith(g[s - B], s, n, k)]]
TrimmingLeft == INSTANCE RecursiveFunctions WITH D <- Shifts, Rank <- NatRank, Body <- TrimLeftBody

LEMMA TrimLeftIs == \A s \in Shifts : slice_trim_left[s] = TrimLeftBody(slice_trim_left, s)
<1>1. slice_trim_left = CHOOSE g : g = [s \in Shifts |-> TrimLeftBody(g, s)]
  BY Zenon DEF slice_trim_left, TrimLeftBody, TrimLeftWith
<1>2. TrimmingLeft!Ranked
  BY ShiftsRanked, Zenon DEF TrimmingLeft!Ranked
<1>3. TrimmingLeft!Local
  <2> SUFFICES ASSUME NEW g, NEW h, NEW s \in Shifts, \A t \in Shifts : NatRank(t) < NatRank(s) => g[t] = h[t]
               PROVE  TrimLeftBody(g, s) = TrimLeftBody(h, s)
    BY Zenon DEF TrimmingLeft!Local
  <2>1. CASE s = 0
    BY <2>1, Zenon DEF TrimLeftBody, TrimLeftWith
  <2>2. CASE s # 0
    <3>1. g[s - B] = h[s - B]
      BY <2>2, ShiftBelow, Zenon
    <3> QED
      BY <3>1, Zenon DEF TrimLeftBody
  <2> QED
    BY <2>1, <2>2
<1> QED
  BY <1>1, <1>2, <1>3, TrimmingLeft!RecursiveFunction, Zenon

LEMMA TrimRightStep ==
    ASSUME NEW s \in Inner, NEW n \in WellFormed[s], NEW idx \in Nat
    PROVE  LET slot == vi_nav(n, idx, s)[1]
               rest == vi_nav(n, idx, s)[2]
               c == Child(n, slot)
               trimmed == IF s = B THEN leaf_upto(c, rest) ELSE slice_trim_right[s - B][c][rest + 1]
           IN slice_trim_right[s][n][idx + 1] = make_relaxed(Append(SubSeq(n.children, 1, slot), trimmed), s)
<1> DEFINE slot == vi_nav(n, idx, s)[1]
           rest == vi_nav(n, idx, s)[2]
           c == Child(n, slot)
           trimmed == IF s = B THEN leaf_upto(c, rest) ELSE slice_trim_right[s - B][c][rest + 1]
           r == slice_trim_right[s - B]
<1>1. n \in Nodes[s] /\ s # 0 /\ s \in Shifts
  BY FormNodes, InnerType
<1>2. slice_trim_right[s] = TrimRightBody(slice_trim_right, s)
  BY <1>1, TrimRightIs
<1>3. idx + 1 \in Nat /\ (idx + 1) - 1 = idx
  OBVIOUS
<1>4. slice_trim_right[s][n][idx + 1] = TrimRightWith(r, s, n, idx + 1)
  <2>1. TrimRightBody(slice_trim_right, s)[n][idx + 1] = TrimRightWith(r, s, n, idx + 1)
    BY <1>1, <1>3, Zenon DEF TrimRightBody
  <2> QED
    BY <1>2, <2>1, Zenon
<1>5. vi_nav(n, (idx + 1) - 1, s) = vi_nav(n, idx, s)
  BY <1>3, Zenon
<1>6. TrimRightWith(r, s, n, idx + 1) = make_relaxed(Append(SubSeq(n.children, 1, slot), trimmed), s)
  BY <1>1, <1>5, Zenon DEF TrimRightWith
<1> QED
  BY <1>4, <1>6, Zenon

LEMMA TrimLeftStep ==
    ASSUME NEW s \in Inner, NEW n \in WellFormed[s], NEW idx \in Nat
    PROVE  LET slot == vi_nav(n, idx, s)[1]
               rest == vi_nav(n, idx, s)[2]
               c == Child(n, slot)
               trimmed == IF s = B THEN leaf_from(c, rest) ELSE slice_trim_left[s - B][c][rest]
           IN slice_trim_left[s][n][idx] = make_relaxed(<<trimmed>> \o SubSeq(n.children, slot + 2, Len(n.children)), s)
<1> DEFINE slot == vi_nav(n, idx, s)[1]
           rest == vi_nav(n, idx, s)[2]
           c == Child(n, slot)
           trimmed == IF s = B THEN leaf_from(c, rest) ELSE slice_trim_left[s - B][c][rest]
           r == slice_trim_left[s - B]
<1>1. n \in Nodes[s] /\ s # 0 /\ s \in Shifts
  BY FormNodes, InnerType
<1>2. slice_trim_left[s] = TrimLeftBody(slice_trim_left, s)
  BY <1>1, TrimLeftIs
<1>3. child_count(n) = Len(n.children)
  BY FormCount, Zenon
<1>4. slice_trim_left[s][n][idx] = TrimLeftWith(r, s, n, idx)
  <2>1. TrimLeftBody(slice_trim_left, s)[n][idx] = TrimLeftWith(r, s, n, idx)
    BY <1>1, Zenon DEF TrimLeftBody
  <2> QED
    BY <1>2, <2>1, Zenon
<1>6. TrimLeftWith(r, s, n, idx) = make_relaxed(<<trimmed>> \o SubSeq(n.children, slot + 2, Len(n.children)), s)
  BY <1>1, <1>3, Zenon DEF TrimLeftWith
<1> QED
  BY <1>4, <1>6, Zenon

\* What lies in the children before a slot and in another one behind them.
LEMMA HeadOf ==
    ASSUME NEW s \in Inner, NEW n \in WellFormed[s], NEW slot \in Nat, slot < Len(n.children),
           NEW c \in WellFormed[s - B]
    PROVE  LET r == make_relaxed(Append(SubSeq(n.children, 1, slot), c), s)
           IN r \in WellFormed[s] /\ elems(r, s) = Before(n, s, slot) \o elems(c, s - B)
<1> DEFINE ch == n.children
           m == Len(ch)
           t == s - B
           p == SubSeq(ch, 1, slot)
           q == p \o <<c>>
<1>1. ch \in Seq(WellFormed[t]) /\ m \in 1 .. BF /\ t \in Shifts
  BY FormFields, InnerType, Zenon
<1>2. slot + 1 \in 1 .. BF /\ slot <= m
  <2>1. m \in 1 .. BF /\ slot < m
    BY <1>1, Zenon
  <2> HIDE DEF m
  <2> QED
    BY <2>1, BType
<1>3. p \in Seq(WellFormed[t]) /\ Len(p) = slot
  BY <1>1, <1>2, PrefixType, Zenon
<1>4. q \in Seq(WellFormed[t]) /\ Len(q) = slot + 1 /\ all(q, t) = all(p, t) \o elems(c, t)
  BY <1>1, <1>3, ListSnoc, Zenon
<1>5. Append(p, c) = q
  <2> DEFINE W == WellFormed[t]
  <2>1. p \in Seq(W) /\ c \in W
    BY <1>3, Zenon
  <2> HIDE DEF W, p
  <2> QED
    BY <2>1, AppendIsConcat
<1> HIDE DEF q
<1>6. Len(q) \in 1 .. BF
  BY <1>2, <1>4, Zenon
<1>7. make_relaxed(q, s) \in WellFormed[s] /\ elems(make_relaxed(q, s), s) = all(q, t)
  BY <1>4, <1>6, MakeRelaxed, Zenon
<1> QED
  BY <1>4, <1>5, <1>7, Zenon DEF Before

LEMMA RestOf ==
    ASSUME NEW s \in Inner, NEW n \in WellFormed[s], NEW slot \in Nat, slot < Len(n.children),
           NEW c \in WellFormed[s - B]
    PROVE  LET r == make_relaxed(<<c>> \o SubSeq(n.children, slot + 2, Len(n.children)), s)
           IN r \in WellFormed[s] /\ elems(r, s) = elems(c, s - B) \o After(n, s, slot)
<1> DEFINE ch == n.children
           m == Len(ch)
           t == s - B
           p == SubSeq(ch, slot + 2, m)
           o == <<c>>
           q == o \o p
<1>1. ch \in Seq(WellFormed[t]) /\ m \in 1 .. BF /\ t \in Shifts
  BY FormFields, InnerType, Zenon
<1>3. p \in Seq(WellFormed[t]) /\ Len(p) = m - (slot + 1)
  BY <1>1, SplitAround, Zenon
<1>2. 1 + (m - (slot + 1)) \in 1 .. BF
  <2>1. m \in 1 .. BF /\ slot < m
    BY <1>1, Zenon
  <2> HIDE DEF m
  <2> QED
    BY <2>1, BType
<1>4. o \in Seq(WellFormed[t]) /\ Len(o) = 1 /\ all(o, t) = elems(c, t)
  BY <1>1, ListOne, Zenon
<1> HIDE DEF o, p
<1>5. q \in Seq(WellFormed[t]) /\ Len(q) = Len(o) + Len(p) /\ all(q, t) = all(o, t) \o all(p, t)
  BY <1>1, <1>3, <1>4, ListConcat, Zenon
<1> HIDE DEF q
<1>6. Len(q) \in 1 .. BF
  BY <1>2, <1>3, <1>4, <1>5, Zenon
<1>7. make_relaxed(q, s) \in WellFormed[s] /\ elems(make_relaxed(q, s), s) = all(q, t)
  BY <1>5, <1>6, MakeRelaxed, Zenon
<1> QED
  BY <1>4, <1>5, <1>7, Zenon DEF After, o, p, q

\* Trimming at an index keeps what is up to it, and what is from it on.
TrimsRight(s, n, idx) ==
  idx % 2^(s + B) < Len(elems(n, s)) =>
    /\ slice_trim_right[s][n][idx + 1] \in WellFormed[s]
    /\ elems(slice_trim_right[s][n][idx + 1], s) = SubSeq(elems(n, s), 1, (idx % 2^(s + B)) + 1)

TrimsLeft(s, n, idx) ==
  idx % 2^(s + B) < Len(elems(n, s)) =>
    /\ slice_trim_left[s][n][idx] \in WellFormed[s]
    /\ elems(slice_trim_left[s][n][idx], s) = SubSeq(elems(n, s), (idx % 2^(s + B)) + 1, Len(elems(n, s)))

\* The node at slot holds place i at off, and the index goes on as rest.
Descends(n, s, i, slot, rest, off) ==
  /\ rest \in Nat /\ off = rest % 2^s /\ (s = B => off = rest % BF) /\ off = rest % 2^((s - B) + B)
  /\ slot \in Nat /\ slot < Len(n.children) /\ off \in Nat
  /\ Len(Before(n, s, slot)) + off = i /\ off < Len(elems(Child(n, slot), s - B))
  /\ Child(n, slot) \in WellFormed[s - B] /\ elems(Child(n, slot), s - B) \in Seq(Int)
  /\ Before(n, s, slot) \in Seq(Int) /\ After(n, s, slot) \in Seq(Int)
  /\ elems(n, s) = (Before(n, s, slot) \o elems(Child(n, slot), s - B)) \o After(n, s, slot)

LEMMA Descend ==
    ASSUME NEW s \in Inner, NEW n \in WellFormed[s], NEW idx \in Nat, idx % 2^(s + B) < Len(elems(n, s))
    PROVE  LET rest == vi_nav(n, idx, s)[2]
           IN Descends(n, s, idx % 2^(s + B), vi_nav(n, idx, s)[1], rest, rest % 2^s)
<1> DEFINE i == idx % 2^(s + B)
           slot == vi_nav(n, idx, s)[1]
           rest == vi_nav(n, idx, s)[2]
           off == rest % 2^s
<1>1. rest \in Nat /\ Locates(n, s, i, slot, off)
  BY NavExact, Zenon
<1>2. (s - B) + B = s
  BY InnerType, BType
<1>3. s = B => 2^s = BF
  BY Zenon DEF BF
<1> HIDE DEF i, slot, rest
<1>4. /\ slot \in Nat /\ slot < Len(n.children) /\ off \in Nat
      /\ Upto(n, s, slot) + off = i /\ off < Len(elems(Child(n, slot), s - B))
  BY <1>1, Zenon DEF Locates
<1>5. /\ Child(n, slot) \in WellFormed[s - B] /\ elems(Child(n, slot), s - B) \in Seq(Int)
      /\ Before(n, s, slot) \in Seq(Int) /\ After(n, s, slot) \in Seq(Int)
      /\ Len(Before(n, s, slot)) = Upto(n, s, slot)
      /\ elems(n, s) = (Before(n, s, slot) \o elems(Child(n, slot), s - B)) \o After(n, s, slot)
  BY <1>4, ChildSplit, Zenon
<1>6. off = rest % 2^((s - B) + B) /\ (s = B => off = rest % BF)
  BY <1>2, <1>3, Zenon
<1> HIDE DEF off
<1>7. off = rest % 2^s
  BY Zenon DEF off
<1>8. Descends(n, s, i, slot, rest, off)
  BY <1>1, <1>4, <1>5, <1>6, <1>7, Zenon DEF Descends
<1> QED
  BY <1>8, Zenon DEF i, slot, rest, off

LEMMA TrimRightNext ==
    ASSUME NEW s \in Inner, s # B => \A c \in WellFormed[s - B] : \A k \in Nat : TrimsRight(s - B, c, k),
           NEW n \in WellFormed[s], NEW idx \in Nat
    PROVE  TrimsRight(s, n, idx)
<1> SUFFICES ASSUME idx % 2^(s + B) < Len(elems(n, s))
             PROVE  /\ slice_trim_right[s][n][idx + 1] \in WellFormed[s]
                    /\ elems(slice_trim_right[s][n][idx + 1], s) = SubSeq(elems(n, s), 1, (idx % 2^(s + B)) + 1)
  BY Zenon DEF TrimsRight
<1> DEFINE t == s - B
           i == idx % 2^(s + B)
           slot == vi_nav(n, idx, s)[1]
           rest == vi_nav(n, idx, s)[2]
           off == rest % 2^s
           c == Child(n, slot)
           d == IF s = B THEN leaf_upto(c, rest) ELSE slice_trim_right[t][c][rest + 1]
           f == slice_trim_right[s][n][idx + 1]
           x == Before(n, s, slot)
           y == After(n, s, slot)
           ec == elems(c, t)
<1>1. Descends(n, s, i, slot, rest, off)
  BY Descend, Zenon
<1>2. f = make_relaxed(Append(SubSeq(n.children, 1, slot), d), s)
  BY TrimRightStep, Zenon
<1> HIDE DEF i, slot, rest, f
<1>3. /\ rest \in Nat /\ (s = B => off = rest % BF) /\ off = rest % 2^(t + B)
      /\ slot \in Nat /\ slot < Len(n.children) /\ off \in Nat
      /\ Len(x) + off = i /\ off < Len(ec)
      /\ c \in WellFormed[t] /\ ec \in Seq(Int) /\ x \in Seq(Int) /\ y \in Seq(Int)
      /\ elems(n, s) = (x \o ec) \o y
  BY <1>1, Zenon DEF Descends
<1> HIDE DEF off
<1>4. d \in WellFormed[t] /\ elems(d, t) = SubSeq(ec, 1, off + 1)
  <2>1. CASE s = B
    <3>1. t = 0
      BY <2>1, InnerType
    <3>2. ec = c
      BY <3>1, ElemsLeaf, Zenon
    <3>3. d = SubSeq(c, 1, off + 1)
      BY <1>3, <2>1, Zenon DEF leaf_upto
    <3>4. c \in WellFormed[0] /\ off < Len(c) /\ c \in Seq(Int)
      BY <1>3, <3>1, <3>2, Zenon
    <3>5. SubSeq(c, 0 + 1, off + 1) \in WellFormed[0]
      <4>1. 0 \in Nat /\ off + 1 \in Nat /\ 0 < off + 1 /\ off + 1 <= Len(c)
        <5>1. off \in Nat /\ off < Len(c)
          BY <1>3, <3>4, Zenon
        <5> HIDE DEF c
        <5> QED
          BY <3>4, <5>1
      <4> QED
        BY <3>4, <4>1, LeafPart, Zenon
    <3>6. 0 + 1 = 1
      OBVIOUS
    <3>7. elems(d, t) = d
      BY <3>1, ElemsLeaf, Zenon
    <3>8. d \in WellFormed[t]
      BY <3>1, <3>3, <3>5, <3>6, Zenon
    <3> HIDE DEF d
    <3> QED
      BY <3>2, <3>3, <3>7, <3>8, Zenon
  <2>2. CASE s # B
    <3>1. TrimsRight(t, c, rest)
      BY <1>3, <2>2, Zenon
    <3>2. d = slice_trim_right[t][c][rest + 1]
      BY <2>2, Zenon
    <3> HIDE DEF d
    <3> QED
      BY <1>3, <3>1, <3>2, Zenon DEF TrimsRight
  <2> QED
    BY <2>1, <2>2, Zenon
<1> HIDE DEF d
<1>5. f \in WellFormed[s] /\ elems(f, s) = x \o elems(d, t)
  BY <1>2, <1>3, <1>4, HeadOf, Zenon
<1>6. SubSeq((x \o ec) \o y, 1, (Len(x) + off) + 1) = x \o SubSeq(ec, 1, off + 1)
  <2> HIDE DEF x, y, ec
  <2>1. Taking(x, ec, y, off)
    BY <1>3, Cuts, Zenon
  <2> QED
    BY <2>1, Zenon DEF Taking
<1> HIDE DEF x, y, ec
<1>7. SubSeq(elems(n, s), 1, i + 1) = x \o SubSeq(ec, 1, off + 1)
  BY <1>3, <1>6, Zenon
<1>8. elems(f, s) = SubSeq(elems(n, s), 1, i + 1)
  BY <1>4, <1>5, <1>7, Zenon
<1> QED
  BY <1>5, <1>8, Zenon DEF f, i

LEMMA TrimLeftNext ==
    ASSUME NEW s \in Inner, s # B => \A c \in WellFormed[s - B] : \A k \in Nat : TrimsLeft(s - B, c, k),
           NEW n \in WellFormed[s], NEW idx \in Nat
    PROVE  TrimsLeft(s, n, idx)
<1> SUFFICES ASSUME idx % 2^(s + B) < Len(elems(n, s))
             PROVE  /\ slice_trim_left[s][n][idx] \in WellFormed[s]
                    /\ elems(slice_trim_left[s][n][idx], s)
                         = SubSeq(elems(n, s), (idx % 2^(s + B)) + 1, Len(elems(n, s)))
  BY Zenon DEF TrimsLeft
<1> DEFINE t == s - B
           i == idx % 2^(s + B)
           slot == vi_nav(n, idx, s)[1]
           rest == vi_nav(n, idx, s)[2]
           off == rest % 2^s
           c == Child(n, slot)
           d == IF s = B THEN leaf_from(c, rest) ELSE slice_trim_left[t][c][rest]
           f == slice_trim_left[s][n][idx]
           x == Before(n, s, slot)
           y == After(n, s, slot)
           ec == elems(c, t)
<1>1. Descends(n, s, i, slot, rest, off)
  BY Descend, Zenon
<1>2. f = make_relaxed(<<d>> \o SubSeq(n.children, slot + 2, Len(n.children)), s)
  BY TrimLeftStep, Zenon
<1> HIDE DEF i, slot, rest, f
<1>3. /\ rest \in Nat /\ (s = B => off = rest % BF) /\ off = rest % 2^(t + B)
      /\ slot \in Nat /\ slot < Len(n.children) /\ off \in Nat
      /\ Len(x) + off = i /\ off < Len(ec)
      /\ c \in WellFormed[t] /\ ec \in Seq(Int) /\ x \in Seq(Int) /\ y \in Seq(Int)
      /\ elems(n, s) = (x \o ec) \o y
  BY <1>1, Zenon DEF Descends
<1> HIDE DEF off
<1>4. d \in WellFormed[t] /\ elems(d, t) = SubSeq(ec, off + 1, Len(ec))
  <2>1. CASE s = B
    <3>1. t = 0
      BY <2>1, InnerType
    <3>2. ec = c
      BY <3>1, ElemsLeaf, Zenon
    <3>3. d = SubSeq(c, off + 1, Len(c))
      BY <1>3, <2>1, Zenon DEF leaf_from
    <3>4. c \in WellFormed[0] /\ off < Len(c) /\ c \in Seq(Int)
      BY <1>3, <3>1, <3>2, Zenon
    <3>5. SubSeq(c, off + 1, Len(c)) \in WellFormed[0]
      <4>1. Len(c) \in Nat /\ Len(c) <= Len(c)
        <5> HIDE DEF c
        <5> QED
          BY <3>4
      <4> QED
        BY <1>3, <3>4, <4>1, LeafPart, Zenon
    <3>7. elems(d, t) = d
      BY <3>1, ElemsLeaf, Zenon
    <3>8. d \in WellFormed[t]
      BY <3>1, <3>3, <3>5, Zenon
    <3> HIDE DEF d
    <3> QED
      BY <3>2, <3>3, <3>7, <3>8, Zenon
  <2>2. CASE s # B
    <3>1. TrimsLeft(t, c, rest)
      BY <1>3, <2>2, Zenon
    <3>2. d = slice_trim_left[t][c][rest]
      BY <2>2, Zenon
    <3> HIDE DEF d
    <3> QED
      BY <1>3, <3>1, <3>2, Zenon DEF TrimsLeft
  <2> QED
    BY <2>1, <2>2, Zenon
<1> HIDE DEF d
<1>5. f \in WellFormed[s] /\ elems(f, s) = elems(d, t) \o y
  BY <1>2, <1>3, <1>4, RestOf, Zenon
<1>6. SubSeq((x \o ec) \o y, (Len(x) + off) + 1, Len((x \o ec) \o y)) = SubSeq(ec, off + 1, Len(ec)) \o y
  <2> HIDE DEF x, y, ec
  <2>1. Dropping(x, ec, y, off)
    BY <1>3, Cuts, Zenon
  <2> QED
    BY <2>1, Zenon DEF Dropping
<1> HIDE DEF x, y, ec
<1>7. SubSeq(elems(n, s), i + 1, Len(elems(n, s))) = SubSeq(ec, off + 1, Len(ec)) \o y
  BY <1>3, <1>6, Zenon
<1>8. elems(f, s) = SubSeq(elems(n, s), i + 1, Len(elems(n, s)))
  BY <1>4, <1>5, <1>7, Zenon
<1> QED
  BY <1>5, <1>8, Zenon DEF f, i

LEMMA TrimRight == \A s \in Inner : \A n \in WellFormed[s] : \A idx \in Nat : TrimsRight(s, n, idx)
<1> DEFINE P == {s \in Inner : \A n \in WellFormed[s] : \A idx \in Nat : TrimsRight(s, n, idx)}
<1>1. B \in P
  BY BInner, TrimRightNext, Zenon
<1>2. ASSUME NEW s \in Inner, s # B, s - B \in P PROVE s \in P
  <2>1. \A n \in WellFormed[s - B] : \A idx \in Nat : TrimsRight(s - B, n, idx)
    BY <1>2, Zenon
  <2>2. \A n \in WellFormed[s] : \A idx \in Nat : TrimsRight(s, n, idx)
    BY <2>1, TrimRightNext, Zenon
  <2> QED
    BY <2>2, Zenon
<1> HIDE DEF P
<1>3. \A s \in Inner : s \in P
  BY <1>1, <1>2, InnerInduct, Zenon
<1> QED
  BY <1>3, Zenon DEF P

LEMMA TrimLeft == \A s \in Inner : \A n \in WellFormed[s] : \A idx \in Nat : TrimsLeft(s, n, idx)
<1> DEFINE P == {s \in Inner : \A n \in WellFormed[s] : \A idx \in Nat : TrimsLeft(s, n, idx)}
<1>1. B \in P
  BY BInner, TrimLeftNext, Zenon
<1>2. ASSUME NEW s \in Inner, s # B, s - B \in P PROVE s \in P
  <2>1. \A n \in WellFormed[s - B] : \A idx \in Nat : TrimsLeft(s - B, n, idx)
    BY <1>2, Zenon
  <2>2. \A n \in WellFormed[s] : \A idx \in Nat : TrimsLeft(s, n, idx)
    BY <2>1, TrimLeftNext, Zenon
  <2> QED
    BY <2>2, Zenon
<1> HIDE DEF P
<1>3. \A s \in Inner : s \in P
  BY <1>1, <1>2, InnerInduct, Zenon
<1> QED
  BY <1>3, Zenon DEF P

-----------------------------------------------------------------------------
(***************************************************************************)
(* The last leaf, and the tree without it.                                 *)
(***************************************************************************)
LastBody(g, s) == [n \in Nodes[s] |-> IF s = 0 THEN n ELSE g[s - B][Child(n, child_count(n) - 1)]]
Lasting == INSTANCE RecursiveFunctions WITH D <- Shifts, Rank <- NatRank, Body <- LastBody

LEMMA LastIs == \A s \in Shifts : slice_last_leaf[s] = LastBody(slice_last_leaf, s)
<1>1. slice_last_leaf = CHOOSE g : g = [s \in Shifts |-> LastBody(g, s)]
  BY Zenon DEF slice_last_leaf, LastBody
<1>2. Lasting!Ranked
  BY ShiftsRanked, Zenon DEF Lasting!Ranked
<1>3. Lasting!Local
  <2> SUFFICES ASSUME NEW g, NEW h, NEW s \in Shifts, \A t \in Shifts : NatRank(t) < NatRank(s) => g[t] = h[t]
               PROVE  LastBody(g, s) = LastBody(h, s)
    BY Zenon DEF Lasting!Local
  <2>1. CASE s = 0
    BY <2>1, Zenon DEF LastBody
  <2>2. CASE s # 0
    <3>1. g[s - B] = h[s - B]
      BY <2>2, ShiftBelow, Zenon
    <3> QED
      BY <3>1, Zenon DEF LastBody
  <2> QED
    BY <2>1, <2>2
<1> QED
  BY <1>1, <1>2, <1>3, Lasting!RecursiveFunction, Zenon

PopWith(r, s, n) ==
  LET popped == IF s > B THEN r[Last(n.children)] ELSE Null
      rest == Front(n.children) \o IF popped = Null THEN <<>> ELSE <<popped>>
  IN IF rest = <<>> THEN Null ELSE make_relaxed(rest, s)
PopBody(g, s) == [n \in Nodes[s] |-> PopWith(g[s - B], s, n)]
Popping == INSTANCE RecursiveFunctions WITH D <- Inner, Rank <- NatRank, Body <- PopBody

LEMMA PopIs == \A s \in Inner : pop_tail[s] = PopBody(pop_tail, s)
<1>1. pop_tail = CHOOSE g : g = [s \in Inner |-> PopBody(g, s)]
  BY Zenon DEF pop_tail, PopBody, PopWith
<1>2. Popping!Ranked
  BY InnerRanked, Zenon DEF Popping!Ranked
<1>3. Popping!Local
  <2> SUFFICES ASSUME NEW g, NEW h, NEW s \in Inner, \A t \in Inner : NatRank(t) < NatRank(s) => g[t] = h[t]
               PROVE  PopBody(g, s) = PopBody(h, s)
    BY Zenon DEF Popping!Local
  <2>0. s = B => ~(s > B)
    BY BType
  <2>1. CASE ~(s > B)
    BY <2>1, Zenon DEF PopBody, PopWith
  <2>2. CASE s > B
    <3>1. g[s - B] = h[s - B]
      BY <2>0, <2>2, InnerBelow, Zenon
    <3> QED
      BY <3>1, Zenon DEF PopBody
  <2> QED
    BY <2>1, <2>2
<1> QED
  BY <1>1, <1>2, <1>3, Popping!RecursiveFunction, Zenon

CollapseBody(g, s) ==
  [n \in Nodes[s] |->
     IF n = Null \/ s <= B \/ child_count(n) # 1 THEN <<n, s>> ELSE g[s - B][Child(n, 0)]]
Collapsing == INSTANCE RecursiveFunctions WITH D <- Inner, Rank <- NatRank, Body <- CollapseBody

LEMMA CollapseIs == \A s \in Inner : slice_collapse_root[s] = CollapseBody(slice_collapse_root, s)
<1>1. slice_collapse_root = CHOOSE g : g = [s \in Inner |-> CollapseBody(g, s)]
  BY Zenon DEF slice_collapse_root, CollapseBody
<1>2. Collapsing!Ranked
  BY InnerRanked, Zenon DEF Collapsing!Ranked
<1>3. Collapsing!Local
  <2> SUFFICES ASSUME NEW g, NEW h, NEW s \in Inner, \A t \in Inner : NatRank(t) < NatRank(s) => g[t] = h[t]
               PROVE  CollapseBody(g, s) = CollapseBody(h, s)
    BY Zenon DEF Collapsing!Local
  <2>0. s = B => s <= B
    BY BType
  <2>1. CASE s <= B
    BY <2>1, Zenon DEF CollapseBody
  <2>2. CASE ~(s <= B)
    <3>1. g[s - B] = h[s - B]
      BY <2>0, <2>2, InnerBelow, Zenon
    <3> QED
      BY <3>1, Zenon DEF CollapseBody
  <2> QED
    BY <2>1, <2>2
<1> QED
  BY <1>1, <1>2, <1>3, Collapsing!RecursiveFunction, Zenon

\* The last child.
LEMMA LastChild ==
    ASSUME NEW s \in Inner, NEW n \in WellFormed[s]
    PROVE  /\ Child(n, child_count(n) - 1) = Last(n.children)
           /\ Last(n.children) \in WellFormed[s - B]
<1> DEFINE m == Len(n.children)
<1>1. n.children \in Seq(WellFormed[s - B]) /\ m \in 1 .. BF /\ n.children # <<>>
  BY FormFields, Zenon
<1>2. child_count(n) = m
  BY FormCount, Zenon
<1>3. (m - 1) + 1 = m
  <2> HIDE DEF m
  <2> QED
    BY <1>1, BType
<1>4. Child(n, child_count(n) - 1) = Last(n.children)
  BY <1>2, <1>3, Zenon DEF Child, Last
<1>5. s - B \in Shifts
  BY InnerType
<1> QED
  BY <1>1, <1>4, <1>5, ListFront, Zenon

LEMMA LastLeafStep ==
    ASSUME NEW s \in Inner, NEW n \in WellFormed[s]
    PROVE  slice_last_leaf[s][n] = slice_last_leaf[s - B][Last(n.children)]
<1>1. n \in Nodes[s] /\ s # 0 /\ s \in Shifts
  BY FormNodes, InnerType
<1>2. slice_last_leaf[s] = LastBody(slice_last_leaf, s)
  BY <1>1, LastIs
<1>3. LastBody(slice_last_leaf, s)[n] = slice_last_leaf[s - B][Child(n, child_count(n) - 1)]
  BY <1>1, Zenon DEF LastBody
<1>4. Child(n, child_count(n) - 1) = Last(n.children)
  BY LastChild, Zenon
<1> QED
  BY <1>2, <1>3, <1>4, Zenon

LEMMA LastLeafLeaf ==
    ASSUME NEW n \in WellFormed[0]
    PROVE  slice_last_leaf[0][n] = n
<1>1. n \in Nodes[0] /\ 0 \in Shifts
  BY FormNodes, BInner
<1>2. slice_last_leaf[0] = LastBody(slice_last_leaf, 0)
  BY <1>1, LastIs
<1>3. LastBody(slice_last_leaf, 0)[n] = n
  BY <1>1, Zenon DEF LastBody
<1> QED
  BY <1>2, <1>3, Zenon

\* A popped tree holds pre, or is gone when there is nothing left.
Remains(r, s, pre) == IF r = Null THEN pre = <<>> ELSE r \in WellFormed[s] /\ elems(r, s) = pre

Pops(s, n) ==
  /\ slice_last_leaf[s][n] \in WellFormed[0]
  /\ \E pre \in Seq(Int) : elems(n, s) = pre \o slice_last_leaf[s][n] /\ Remains(pop_tail[s][n], s, pre)

LEMMA PopStep ==
    ASSUME NEW s \in Inner, NEW n \in WellFormed[s]
    PROVE  LET popped == IF s = B THEN Null ELSE pop_tail[s - B][Last(n.children)]
               rest == Front(n.children) \o IF popped = Null THEN <<>> ELSE <<popped>>
           IN pop_tail[s][n] = IF rest = <<>> THEN Null ELSE make_relaxed(rest, s)
<1> DEFINE r == pop_tail[s - B]
           popped == IF s = B THEN Null ELSE r[Last(n.children)]
           p2 == IF s > B THEN r[Last(n.children)] ELSE Null
           rest == Front(n.children) \o IF popped = Null THEN <<>> ELSE <<popped>>
<1>1. n \in Nodes[s]
  BY FormNodes, InnerType
<1>2. pop_tail[s] = PopBody(pop_tail, s)
  BY PopIs
<1>3. (s > B) <=> (s # B)
  BY InnerType, BType
<1>4. PopBody(pop_tail, s)[n] = PopWith(r, s, n)
  BY <1>1, Zenon DEF PopBody
<1>5. p2 = popped
  <2>1. CASE s = B
    BY <1>3, <2>1, Zenon
  <2>2. CASE s # B
    BY <1>3, <2>2, Zenon
  <2> QED
    BY <2>1, <2>2, Zenon
<1>6. PopWith(r, s, n) = IF rest = <<>> THEN Null ELSE make_relaxed(rest, s)
  <2>1. PopWith(r, s, n) = LET q == Front(n.children) \o IF p2 = Null THEN <<>> ELSE <<p2>>
                           IN IF q = <<>> THEN Null ELSE make_relaxed(q, s)
    BY Zenon DEF PopWith
  <2> HIDE DEF p2, popped
  <2> QED
    BY <1>5, <2>1, Zenon
<1> QED
  BY <1>2, <1>4, <1>6, Zenon

LEMMA PopsNext ==
    ASSUME NEW s \in Inner, s # B => \A c \in WellFormed[s - B] : Pops(s - B, c), NEW n \in WellFormed[s]
    PROVE  Pops(s, n)
<1> DEFINE t == s - B
           ch == n.children
           m == Len(ch)
           fr == Front(ch)
           l == Last(ch)
           leaf == slice_last_leaf[t][l]
           popped == IF s = B THEN Null ELSE pop_tail[t][l]
           ps == IF popped = Null THEN <<>> ELSE <<popped>>
           rest == fr \o ps
           f == pop_tail[s][n]
<1>1. ch \in Seq(WellFormed[t]) /\ m \in 1 .. BF /\ ch # <<>> /\ t \in Shifts
  BY FormFields, InnerType, Zenon
<1>2. fr \in Seq(WellFormed[t]) /\ Len(fr) = m - 1 /\ l \in WellFormed[t] /\ all(ch, t) = all(fr, t) \o elems(l, t)
  BY <1>1, ListFront, Zenon
<1>3. elems(n, s) = all(fr, t) \o elems(l, t)
  BY <1>2, ElemsInner, Zenon
<1>4. slice_last_leaf[s][n] = leaf
  BY LastLeafStep, Zenon
<1>5. f = IF rest = <<>> THEN Null ELSE make_relaxed(rest, s)
  BY PopStep, Zenon
<1> HIDE DEF fr, l, f
<1>6. leaf \in WellFormed[0] /\ \E q \in Seq(Int) : elems(l, t) = q \o leaf /\ Remains(popped, t, q)
  <2>1. CASE s = B
    <3>1. t = 0
      BY <2>1, InnerType
    <3>2. l \in WellFormed[0]
      BY <1>2, <3>1, Zenon
    <3>3. leaf = l /\ elems(l, t) = l
      BY <3>1, <3>2, LastLeafLeaf, ElemsLeaf, Zenon
    <3>4. l \in Seq(Int)
      BY <3>2, LeafForm, Zenon
    <3>5. popped = Null
      BY <2>1, Zenon
    <3> HIDE DEF leaf, popped
    <3>6. <<>> \in Seq(Int) /\ <<>> \o l = l
      BY <3>4, EmptyLeft, Zenon
    <3>7. Remains(popped, t, <<>>)
      BY <3>5, Zenon DEF Remains
    <3>8. elems(l, t) = <<>> \o leaf
      BY <3>3, <3>6, Zenon
    <3> QED
      BY <3>2, <3>3, <3>6, <3>7, <3>8, Zenon
  <2>2. CASE s # B
    <3>1. Pops(t, l)
      BY <1>2, <2>2, Zenon
    <3>2. popped = pop_tail[t][l]
      BY <2>2, Zenon
    <3> HIDE DEF popped
    <3> QED
      BY <3>1, <3>2, Zenon DEF Pops
  <2> QED
    BY <2>1, <2>2, Zenon
<1>7. PICK q \in Seq(Int) : elems(l, t) = q \o leaf /\ Remains(popped, t, q)
  BY <1>6, Zenon
<1> HIDE DEF popped, leaf
<1>8. ps \in Seq(WellFormed[t]) /\ all(ps, t) = q /\ (Len(ps) = 0 \/ Len(ps) = 1)
  <2>1. CASE popped = Null
    <3>1. ps = <<>> /\ q = <<>>
      BY <1>7, <2>1, Zenon DEF Remains
    <3>2. <<>> \in Seq(WellFormed[t]) /\ Len(<<>>) = 0
      <4> DEFINE W == WellFormed[t]
      <4> HIDE DEF W
      <4>1. <<>> \in Seq(W) /\ Len(<<>>) = 0
        OBVIOUS
      <4> QED
        BY <4>1, Zenon DEF W
    <3> QED
      BY <3>1, <3>2, AllEmpty, Zenon
  <2>2. CASE popped # Null
    <3>1. ps = <<popped>> /\ popped \in WellFormed[t] /\ elems(popped, t) = q
      BY <1>7, <2>2, Zenon DEF Remains
    <3> HIDE DEF ps
    <3> QED
      BY <1>1, <3>1, ListOne, Zenon
  <2> QED
    BY <2>1, <2>2, Zenon
<1> HIDE DEF ps
<1>9. /\ rest \in Seq(WellFormed[t]) /\ Len(rest) = Len(fr) + Len(ps)
      /\ all(rest, t) = all(fr, t) \o q
  BY <1>1, <1>2, <1>8, ListConcat, Zenon
<1> DEFINE pre == all(fr, t) \o q
<1>10. all(fr, t) \in Seq(Int) /\ pre \in Seq(Int) /\ leaf \in Seq(Int)
  <2>1. all(fr, t) \in Seq(Int)
    BY <1>1, <1>2, ListType, Zenon
  <2>2. leaf \in Seq(Int)
    BY <1>6, LeafForm, Zenon
  <2> QED
    BY <2>1, <2>2, Assoc, Zenon
<1>11. elems(n, s) = pre \o leaf
  <2> DEFINE fa == all(fr, t)
  <2>1. (fa \o q) \o leaf = fa \o (q \o leaf)
    <3>1. fa \in Seq(Int) /\ leaf \in Seq(Int)
      BY <1>10, Zenon
    <3> HIDE DEF fa
    <3> QED
      BY <3>1, AssocAll, Zenon
  <2> QED
    BY <1>3, <1>7, <2>1, Zenon
<1> HIDE DEF rest
<1>12. Remains(f, s, pre)
  <2>1. CASE rest = <<>>
    <3>1. f = Null
      BY <1>5, <2>1, Zenon
    <3>2. pre = <<>>
      BY <1>9, <2>1, AllEmpty, Zenon
    <3> QED
      BY <3>1, <3>2, Zenon DEF Remains
  <2>2. CASE rest # <<>>
    <3>1. f = make_relaxed(rest, s)
      BY <1>5, <2>2, Zenon
    <3>2. Len(rest) \in 1 .. BF
      <4> DEFINE lr == Len(rest)
                 lf == Len(fr)
                 lps == Len(ps)
      <4>1. lr = lf + lps /\ lf = m - 1 /\ (lps = 0 \/ lps = 1) /\ m \in 1 .. BF
        BY <1>1, <1>2, <1>8, <1>9, Zenon
      <4>2. lr # 0
        <5> DEFINE W == WellFormed[t]
        <5>1. rest \in Seq(W)
          BY <1>9, Zenon
        <5> HIDE DEF W
        <5> QED
          BY <2>2, <5>1, EmptySeq
      <4> HIDE DEF lr, lf, lps, m
      <4>3. lr \in 1 .. BF
        <5>1. CASE lps = 0
          BY <4>1, <4>2, <5>1, BType
        <5>2. CASE lps = 1
          BY <4>1, <4>2, <5>2, BType
        <5> QED
          BY <4>1, <5>1, <5>2
      <4> QED
        BY <4>3, Zenon DEF lr
    <3>3. f \in WellFormed[s] /\ elems(f, s) = pre
      BY <1>9, <3>1, <3>2, MakeRelaxed, Zenon
    <3>4. f # Null
      BY <3>3, FormFields, Zenon
    <3> QED
      BY <3>3, <3>4, Zenon DEF Remains
  <2> QED
    BY <2>1, <2>2, Zenon
<1> HIDE DEF pre
<1> QED
  BY <1>4, <1>6, <1>10, <1>11, <1>12, Zenon DEF Pops, f

LEMMA PopTail == \A s \in Inner : \A n \in WellFormed[s] : Pops(s, n)
<1> DEFINE P == {s \in Inner : \A n \in WellFormed[s] : Pops(s, n)}
<1>1. B \in P
  BY BInner, PopsNext, Zenon
<1>2. ASSUME NEW s \in Inner, s # B, s - B \in P PROVE s \in P
  <2>1. \A n \in WellFormed[s - B] : Pops(s - B, n)
    BY <1>2, Zenon
  <2>2. \A n \in WellFormed[s] : Pops(s, n)
    BY <2>1, PopsNext, Zenon
  <2> QED
    BY <2>2, Zenon
<1> HIDE DEF P
<1>3. \A s \in Inner : s \in P
  BY <1>1, <1>2, InnerInduct, Zenon
<1> QED
  BY <1>3, Zenon DEF P

\* A node with one child holds what that child holds.
LEMMA OnlyChild ==
    ASSUME NEW s \in Inner, NEW n \in WellFormed[s], child_count(n) = 1
    PROVE  Child(n, 0) \in WellFormed[s - B] /\ elems(Child(n, 0), s - B) = elems(n, s)
<1> DEFINE ch == n.children
           t == s - B
           c == ch[1]
<1>1. ch \in Seq(WellFormed[t]) /\ Len(ch) = 1 /\ t \in Shifts
  BY FormFields, FormCount, InnerType, Zenon
<1>2. ch = <<c>> /\ c \in WellFormed[t]
  <2> DEFINE W == WellFormed[t]
  <2>1. ch \in Seq(W)
    BY <1>1, Zenon
  <2> HIDE DEF W
  <2>2. ch = <<c>> /\ c \in W
    BY <1>1, <2>1
  <2> QED
    BY <2>2, Zenon DEF W
<1>3. all(ch, t) = elems(c, t)
  BY <1>1, <1>2, ListOne, Zenon
<1>4. elems(n, s) = all(ch, t)
  BY ElemsInner, Zenon
<1>5. Child(n, 0) = c
  <2>1. 0 + 1 = 1
    OBVIOUS
  <2> QED
    BY <2>1, Zenon DEF Child
<1> QED
  BY <1>2, <1>3, <1>4, <1>5, Zenon

Collapses(s, n) ==
  TreeOf(slice_collapse_root[s][n][1], slice_collapse_root[s][n][2], elems(n, s))

LEMMA CollapseNext ==
    ASSUME NEW s \in Inner, s # B => \A c \in WellFormed[s - B] : Collapses(s - B, c), NEW n \in WellFormed[s]
    PROVE  Collapses(s, n)
<1> DEFINE f == slice_collapse_root[s][n]
           t == s - B
           c == Child(n, 0)
<1>1. n \in Nodes[s]
  BY FormNodes, InnerType
<1>2. slice_collapse_root[s] = CollapseBody(slice_collapse_root, s)
  BY CollapseIs
<1>3. n # Null
  BY FormFields, Zenon
<1>4. f = IF n = Null \/ s <= B \/ child_count(n) # 1 THEN <<n, s>> ELSE slice_collapse_root[t][c]
  <2>1. CollapseBody(slice_collapse_root, s)[n]
          = IF n = Null \/ s <= B \/ child_count(n) # 1 THEN <<n, s>> ELSE slice_collapse_root[t][c]
    BY <1>1, Zenon DEF CollapseBody
  <2> QED
    BY <1>2, <2>1, Zenon
<1>5. CASE s <= B \/ child_count(n) # 1
  <2>1. f = <<n, s>>
    BY <1>4, <1>5, Zenon
  <2> HIDE DEF f
  <2>2. f[1] = n /\ f[2] = s
    BY <2>1
  <2> QED
    BY <1>3, <2>2, Zenon DEF Collapses, TreeOf, f
<1>6. CASE ~(s <= B \/ child_count(n) # 1)
  <2>1. f = slice_collapse_root[t][c]
    BY <1>3, <1>4, <1>6, Zenon
  <2>2. s # B
    <3>1. B <= B
      BY BType
    <3> QED
      BY <1>6, <3>1, Zenon
  <2>3. child_count(n) = 1
    BY <1>6, Zenon
  <2>4. c \in WellFormed[t] /\ elems(c, t) = elems(n, s)
    BY <2>3, OnlyChild, Zenon
  <2>5. Collapses(t, c)
    BY <2>2, <2>4, Zenon
  <2> QED
    BY <2>1, <2>4, <2>5, Zenon DEF Collapses
<1> QED
  BY <1>5, <1>6, Zenon

LEMMA CollapseRoot == \A s \in Inner : \A n \in WellFormed[s] : Collapses(s, n)
<1> DEFINE P == {s \in Inner : \A n \in WellFormed[s] : Collapses(s, n)}
<1>1. B \in P
  BY BInner, CollapseNext, Zenon
<1>2. ASSUME NEW s \in Inner, s # B, s - B \in P PROVE s \in P
  <2>1. \A n \in WellFormed[s - B] : Collapses(s - B, n)
    BY <1>2, Zenon
  <2>2. \A n \in WellFormed[s] : Collapses(s, n)
    BY <2>1, CollapseNext, Zenon
  <2> QED
    BY <2>2, Zenon
<1> HIDE DEF P
<1>3. \A s \in Inner : s \in P
  BY <1>1, <1>2, InnerInduct, Zenon
<1> QED
  BY <1>3, Zenon DEF P

LEMMA PartOfPrefix ==
    ASSUME NEW S, NEW a \in Seq(S), NEW i \in Nat, NEW j \in Nat, i <= j, j <= Len(a)
    PROVE  SubSeq(SubSeq(a, 1, j), i + 1, j) = SubSeq(a, i + 1, j)
<1> DEFINE p == SubSeq(a, 1, j)
           q == SubSeq(p, i + 1, j)
           r == SubSeq(a, i + 1, j)
<1>1. p \in Seq(S) /\ Len(p) = j /\ \A k \in 1 .. j : p[k] = a[k]
  BY PrefixType, Zenon
<1>2. r \in Seq(S) /\ Len(r) = j - i /\ \A k \in 1 .. j - i : r[k] = a[i + k]
  BY PartType, Zenon
<1>0. j <= Len(p)
  <2>1. j <= j
    OBVIOUS
  <2> QED
    BY <1>1, <2>1, Zenon
<1> HIDE DEF p, r
<1>3. q \in Seq(S) /\ Len(q) = j - i /\ \A k \in 1 .. j - i : q[k] = p[i + k]
  <2>1. p \in Seq(S) /\ i \in Nat /\ j \in Nat /\ i <= j /\ j <= Len(p)
    BY <1>0, <1>1, Zenon
  <2> QED
    BY <2>1, PartType, Zenon
<1> HIDE DEF q
<1>4. \A k \in 1 .. j - i : i + k \in 1 .. j
  OBVIOUS
<1>5. \A k \in 1 .. Len(q) : q[k] = r[k]
  BY <1>1, <1>2, <1>3, <1>4, Zenon
<1>6. Len(q) = Len(r)
  BY <1>2, <1>3, Zenon
<1>7. q = r
  BY <1>2, <1>3, <1>5, <1>6, SeqEqual, Zenon
<1> QED
  BY <1>7, Zenon DEF p, q, r

\* A tree becomes a vector: its last leaf the tail, the rest the tree.
LEMMA FromFullTree ==
    ASSUME NEW s \in Inner, NEW n \in WellFormed[s], NEW len, len = Len(elems(n, s)), ~(len <= BF)
    PROVE  VecIs(slice_from_full_tree(n, s, len), elems(n, s))
<1> DEFINE leaf == slice_last_leaf[s][n]
           popped == pop_tail[s][n]
           t == slice_collapse_root[s][popped]
           f == slice_from_full_tree(n, s, len)
           L == Len(elems(n, s))
<1>1. leaf \in WellFormed[0] /\ \E pre \in Seq(Int) : elems(n, s) = pre \o leaf /\ Remains(popped, s, pre)
  BY PopTail, Zenon DEF Pops
<1>2. PICK pre \in Seq(Int) : elems(n, s) = pre \o leaf /\ Remains(popped, s, pre)
  BY <1>1, Zenon
<1>3. leaf \in Seq(Int) /\ Len(leaf) \in 1 .. BF
  BY <1>1, LeafForm, Zenon
<1>4. f = [len |-> len, shift |-> t[2], root |-> t[1], tail |-> leaf]
  BY Zenon DEF slice_from_full_tree, vector
<1> HIDE DEF leaf, popped
<1>5. L = Len(pre) + Len(leaf) /\ Len(pre) \in Nat
  <2>1. Len(pre \o leaf) = Len(pre) + Len(leaf) /\ Len(pre) \in Nat
    BY <1>3
  <2> QED
    BY <1>2, <2>1, Zenon
<1>6. pre # <<>>
  <2> SUFFICES ASSUME pre = <<>> PROVE FALSE
    OBVIOUS
  <2> DEFINE ll == Len(leaf)
  <2>1. pre \o leaf = leaf
    BY <1>3, EmptyLeft, Zenon
  <2>2. L = ll /\ ll \in 1 .. BF /\ ~(L <= BF)
    BY <1>2, <1>3, <2>1, Zenon
  <2> HIDE DEF L, ll
  <2> QED
    BY <2>2, BType
<1>7. popped \in WellFormed[s] /\ elems(popped, s) = pre
  BY <1>2, <1>6, Zenon DEF Remains
<1>8. TreeOf(t[1], t[2], pre)
  BY <1>7, CollapseRoot, Zenon DEF Collapses
<1> DEFINE t1 == t[1]
           t2 == t[2]
<1> HIDE DEF t, f, L
<1>9. TreeOf(t1, t2, pre) /\ len = Len(pre) + Len(leaf)
  BY <1>5, <1>8, Zenon DEF L
<1>10. f = [len |-> len, shift |-> t2, root |-> t1, tail |-> leaf]
  BY <1>4, Zenon
<1> HIDE DEF t1, t2
<1>11. VecIs([len |-> len, shift |-> t2, root |-> t1, tail |-> leaf], pre \o leaf)
  BY <1>1, <1>9, LoadedOf, Zenon
<1>12. VecIs(f, elems(n, s))
  BY <1>2, <1>10, <1>11, Zenon
<1> QED
  BY <1>12, Zenon DEF f

\* The two trims of a tree that holds a.
Cut(sh, n, s, e) ==
  IF s = 0 THEN slice_trim_right[sh][n][e] ELSE slice_trim_left[sh][slice_trim_right[sh][n][e]][s]

LEMMA TrimBoth ==
    ASSUME NEW sh \in Inner, NEW n \in WellFormed[sh],
           NEW s \in Nat, NEW e \in Nat, s < e, e <= Len(elems(n, sh))
    PROVE  Cut(sh, n, s, e) \in WellFormed[sh] /\ elems(Cut(sh, n, s, e), sh) = SubSeq(elems(n, sh), s + 1, e)
<1> DEFINE a == elems(n, sh)
<1> DEFINE k == e - 1
           right == slice_trim_right[sh][n][e]
           left == slice_trim_left[sh][right][s]
           both == Cut(sh, n, s, e)
<1>1. a \in Seq(Int) /\ Len(a) \in Nat /\ elems(n, sh) = a
  BY FormElems, InnerType
<1>2. k \in Nat /\ k < Len(a) /\ k + 1 = e /\ e <= Len(a) /\ s <= e
  BY <1>1
<1>3. k % 2^(sh + B) = k
  BY <1>1, <1>2, IndexInTree, Zenon
<1>4. right \in WellFormed[sh] /\ elems(right, sh) = SubSeq(a, 1, e)
  <2>1. TrimsRight(sh, n, k)
    BY <1>2, TrimRight, Zenon
  <2> QED
    BY <1>1, <1>2, <1>3, <2>1, Zenon DEF TrimsRight
<1> HIDE DEF right
<1>5. CASE s = 0
  <2>1. s + 1 = 1
    BY <1>5
  <2>2. both = right
    BY <1>5, Zenon DEF right, Cut
  <2> HIDE DEF both
  <2> QED
    BY <1>4, <2>1, <2>2, Zenon DEF both
<1>6. CASE s # 0
  <2> DEFINE p == SubSeq(a, 1, e)
  <2>1. Len(p) = e
    BY <1>1, <1>2, PrefixType, Zenon
  <2>2. s < Len(p)
    BY <2>1, Zenon
  <2>3. s % 2^(sh + B) = s
    BY <1>4, <2>2, IndexInTree, Zenon
  <2>4. left \in WellFormed[sh] /\ elems(left, sh) = SubSeq(p, s + 1, Len(p))
    <3>1. TrimsLeft(sh, right, s)
      BY <1>4, TrimLeft, Zenon
    <3> QED
      BY <1>4, <2>2, <2>3, <3>1, Zenon DEF TrimsLeft
  <2>5. SubSeq(p, s + 1, e) = SubSeq(a, s + 1, e)
    BY <1>1, <1>2, PartOfPrefix, Zenon
  <2>6. both = left
    BY <1>6, Zenon DEF right, Cut
  <2> HIDE DEF left, both
  <2> QED
    BY <2>1, <2>4, <2>5, <2>6, Zenon DEF both
<1> QED
  BY <1>5, <1>6, Zenon

\* A slice is a part.
LEMMA SliceVec ==
    ASSUME NEW x, NEW a, VecIs(x, a), NEW s \in Nat, NEW e \in Nat, s <= e, e <= Len(a)
    PROVE  VecIs(slice(x, s, e), SubSeq(a, s + 1, e))
<1> DEFINE q == SubSeq(a, s + 1, e)
<1>1. a \in Seq(Int) /\ x.len = Len(a) /\ to_array(x) = a /\ Len(a) \in Nat
  BY VecIsFacts, Zenon
<1>2. q \in Seq(Int) /\ Len(q) = e - s
  <2>1. a \in Seq(Int) /\ s \in Nat /\ e \in Nat /\ s <= e /\ e <= Len(a)
    BY <1>1, Zenon
  <2> QED
    BY <2>1, PartType, Zenon
<1>3. CASE e = s
  <2>1. slice(x, s, e) = EmptyVec
    BY <1>3, Zenon DEF slice
  <2>2. Len(q) = 0
    BY <1>2, <1>3
  <2>3. q = <<>>
    BY <1>2, <2>2, EmptySeq
  <2> QED
    BY <2>1, <2>3, Zenon DEF VecIs
<1>4. CASE e # s /\ s = 0 /\ e = x.len
  <2>1. slice(x, s, e) = x
    BY <1>4, Zenon DEF slice
  <2>2. s + 1 = 1
    BY <1>4
  <2>3. q = a
    BY <1>1, <1>4, <2>2, PartWhole, Zenon
  <2> QED
    BY <2>1, <2>3, Zenon
<1>5. CASE e # s /\ ~(s = 0 /\ e = x.len) /\ e - s <= BF
  <2>1. slice(x, s, e) = from_array(q)
    BY <1>1, <1>5, Zenon DEF slice
  <2> QED
    BY <1>2, <2>1, FromArrayIs, Zenon
<1>6. CASE e # s /\ ~(s = 0 /\ e = x.len) /\ ~(e - s <= BF)
  <2>1. a # <<>>
    <3> SUFFICES ASSUME a = <<>> PROVE FALSE
      OBVIOUS
    <3>1. Len(a) = 0
      OBVIOUS
    <3> QED
      BY <1>6, <3>1
  <2>2. Loaded(x, a)
    BY <2>1, Zenon DEF VecIs
  <2>3. PICK d \in Seq(Int) :
             /\ TreeOf(x.root, x.shift, d) /\ a = d \o x.tail
             /\ x.tail \in Seq(Int)
             /\ Len(x.tail) \in Nat /\ Len(x.tail) > 0 /\ Len(x.tail) <= BF
    BY <2>2, LoadedParts, Zenon
  <2>4. x.tail # <<>>
    BY <2>2, LoadedFacts, Zenon
  <2>5. x.root # Null
    <3> SUFFICES ASSUME x.root = Null PROVE FALSE
      OBVIOUS
    <3>1. d = <<>>
      BY <2>3, Zenon DEF TreeOf
    <3>2. a = x.tail
      BY <2>3, <3>1, EmptyLeft, Zenon
    <3> DEFINE la == Len(a)
    <3>3. la <= BF /\ la \in Nat /\ e <= la /\ ~(e - s <= BF)
      BY <1>1, <1>6, <2>3, <3>2, Zenon
    <3> HIDE DEF la
    <3> QED
      BY <3>3, BType
  <2> DEFINE t == concat_trees[<<x.shift, B>>][x.root][wrap_leaf(x.tail)]
             t1 == t[1]
             t2 == t[2]
             both == Cut(t2, t1, s, e)
  <2>6. TreeOf(t1, t2, a) /\ t1 # Null /\ t2 \in Inner
    <3> DEFINE u == IF x.root = Null THEN <<wrap_leaf(x.tail), B>> ELSE t
    <3>1. TreeOf(u[1], u[2], a) /\ u[1] # Null /\ u[2] \in Inner
      BY <2>2, TailInTree, Zenon
    <3>2. u = t
      BY <2>5, Zenon
    <3> HIDE DEF u, t
    <3> QED
      BY <3>1, <3>2, Zenon
  <2>7. t1 \in WellFormed[t2] /\ elems(t1, t2) = a
    BY <2>6, Zenon DEF TreeOf
  <2>8. slice(x, s, e) = slice_from_full_tree(both, t2, e - s)
    <3> DEFINE full == IF x.root = Null THEN <<x.tail, 0>>
                       ELSE IF x.tail = <<>> THEN <<x.root, x.shift>>
                       ELSE t
    <3>1. full = t
      BY <2>4, <2>5, Zenon
    <3> DEFINE r2 == slice_trim_right[full[2]][full[1]][e]
               b2 == IF s = 0 THEN r2 ELSE slice_trim_left[full[2]][r2][s]
    <3>2. slice(x, s, e) = slice_from_full_tree(b2, full[2], e - s)
      BY <1>6, Zenon DEF slice
    <3>3. b2 = Cut(full[2], full[1], s, e)
      BY Zenon DEF Cut
    <3> HIDE DEF full, t, b2
    <3> QED
      BY <3>1, <3>2, <3>3, Zenon
  <2>10. s < e
    BY <1>6
  <2> HIDE DEF t1, t2
  <2>9. both \in WellFormed[t2] /\ elems(both, t2) = q
    <3>1. t2 \in Inner /\ t1 \in WellFormed[t2] /\ s < e /\ e <= Len(elems(t1, t2))
      BY <2>6, <2>7, <2>10, Zenon
    <3>2. both \in WellFormed[t2] /\ elems(both, t2) = SubSeq(elems(t1, t2), s + 1, e)
      BY <3>1, TrimBoth, Zenon
    <3> QED
      BY <2>7, <3>2, Zenon
  <2> HIDE DEF both
  <2>11. e - s = Len(elems(both, t2)) /\ ~(e - s <= BF)
    BY <1>2, <1>6, <2>9, Zenon
  <2>12. VecIs(slice_from_full_tree(both, t2, e - s), elems(both, t2))
    BY <2>6, <2>9, <2>11, FromFullTree, Zenon
  <2> QED
    BY <2>8, <2>9, <2>12, Zenon
<1> QED
  BY <1>3, <1>4, <1>5, <1>6, Zenon

\* The leaf of the last index is the last leaf.
ReadsLast(s, n, idx) ==
  (idx % 2^(s + B)) + 1 = Len(elems(n, s)) => leaf_at[s][n][idx][1] = slice_last_leaf[s][n]

\* The last place of a tree is the last place of its last child.
EndsThere(n, s, slot, off) ==
  Child(n, slot) = Last(n.children) /\ off + 1 = Len(elems(Child(n, slot), s - B))

LEMMA DescendLast ==
    ASSUME NEW s \in Inner, NEW n \in WellFormed[s], NEW i, NEW slot, NEW rest, NEW off,
           Descends(n, s, i, slot, rest, off), i + 1 = Len(elems(n, s))
    PROVE  EndsThere(n, s, slot, off)
<1> DEFINE ch == n.children
           t == s - B
           x == Before(n, s, slot)
           y == After(n, s, slot)
           ec == elems(Child(n, slot), t)
           tl == SubSeq(ch, slot + 2, Len(ch))
           lx == Len(x)
           ly == Len(y)
           le == Len(ec)
           m == Len(ch)
<1>1. /\ slot \in Nat /\ slot < m /\ off \in Nat /\ lx + off = i /\ off < le
      /\ ec \in Seq(Int) /\ x \in Seq(Int) /\ y \in Seq(Int)
      /\ elems(n, s) = (x \o ec) \o y
  BY Zenon DEF Descends
<1>2. ch \in Seq(WellFormed[t]) /\ m \in 1 .. BF /\ t \in Shifts
  BY FormFields, InnerType, Zenon
<1>3. Len((x \o ec) \o y) = (lx + le) + ly /\ lx \in Nat /\ le \in Nat /\ ly \in Nat
  <2> HIDE DEF x, y, ec
  <2> QED
    BY <1>1
<1>4. i + 1 = (lx + le) + ly
  BY <1>1, <1>3, Zenon
<1>5. ly = 0 /\ off + 1 = le
  <2> HIDE DEF lx, ly, le
  <2> QED
    BY <1>1, <1>3, <1>4
<1>6. m \in Nat
  <2> HIDE DEF m
  <2> QED
    BY <1>2, BType
<1>7. (slot + 1) + 1 = slot + 2 /\ slot + 1 \in Nat /\ slot + 1 <= m
  <2> HIDE DEF m
  <2> QED
    BY <1>1, <1>6
<1>8. tl \in Seq(WellFormed[t]) /\ Len(tl) = m - (slot + 1)
  <2> DEFINE W == WellFormed[t]
  <2> HIDE DEF W
  <2> DEFINE k == slot + 1
  <2>1. ch \in Seq(W) /\ k \in Nat /\ m \in Nat /\ k <= m /\ m <= Len(ch)
    <3>1. m <= m
      BY <1>6
    <3> QED
      BY <1>2, <1>6, <1>7, <3>1, Zenon DEF W
  <2> HIDE DEF ch, m, k
  <2>2. SubSeq(ch, k + 1, m) \in Seq(W) /\ Len(SubSeq(ch, k + 1, m)) = m - k
    BY <2>1, PartType, Zenon
  <2> QED
    BY <1>7, <2>2, Zenon DEF W, m, k
<1>9. Len(tl) <= ly
  BY <1>2, <1>8, ListBounds, Zenon DEF After
<1>10. slot + 1 = m
  <2> DEFINE lt == Len(tl)
  <2>1. lt = m - (slot + 1) /\ lt <= ly
    BY <1>8, <1>9, Zenon
  <2> HIDE DEF lt, m, ly
  <2> QED
    BY <1>1, <1>5, <1>6, <2>1
<1>11. Child(n, slot) = Last(ch)
  BY <1>10, Zenon DEF Child, Last
<1> QED
  BY <1>5, <1>11, Zenon DEF EndsThere

LEMMA ReadsLastNext ==
    ASSUME NEW s \in Inner, s # B => \A c \in WellFormed[s - B] : \A k \in Nat : ReadsLast(s - B, c, k),
           NEW n \in WellFormed[s], NEW idx \in Nat
    PROVE  ReadsLast(s, n, idx)
<1> SUFFICES ASSUME (idx % 2^(s + B)) + 1 = Len(elems(n, s))
             PROVE  leaf_at[s][n][idx][1] = slice_last_leaf[s][n]
  BY Zenon DEF ReadsLast
<1> DEFINE t == s - B
           i == idx % 2^(s + B)
           slot == vi_nav(n, idx, s)[1]
           rest == vi_nav(n, idx, s)[2]
           off == rest % 2^s
           c == Child(n, slot)
           f == leaf_at[s][n][idx]
<1>0. i \in Nat
  <2>1. 2^(s + B) \in Nat /\ 2^(s + B) > 0
    BY ShiftUp, Capacity, InnerType
  <2> QED
    BY <2>1, Divide
<1>1. i < Len(elems(n, s)) /\ i + 1 = Len(elems(n, s))
  <2> HIDE DEF i
  <2>1. i + 1 = Len(elems(n, s))
    BY Zenon DEF i
  <2> QED
    BY <1>0, <2>1
<1>2. Descends(n, s, i, slot, rest, off)
  BY <1>1, Descend, Zenon
<1>3. f = IF s = B THEN <<c, rest % BF>> ELSE leaf_at[t][c][rest]
  BY LeafAtStep, Zenon
<1>4. slice_last_leaf[s][n] = slice_last_leaf[t][Last(n.children)]
  BY LastLeafStep, Zenon
<1> HIDE DEF i, slot, rest, off, f
<1>5. c = Last(n.children) /\ off + 1 = Len(elems(c, t))
  BY <1>1, <1>2, DescendLast, Zenon DEF EndsThere
<1>6. rest \in Nat /\ off = rest % 2^(t + B) /\ c \in WellFormed[t]
  BY <1>2, Zenon DEF Descends
<1> HIDE DEF c
<1>7. CASE s = B
  <2>1. t = 0
    BY <1>7, InnerType
  <2>2. f = <<c, rest % BF>>
    BY <1>3, <1>7, Zenon
  <2>3. f[1] = c
    BY <2>2
  <2>4. slice_last_leaf[t][c] = c
    BY <1>6, <2>1, LastLeafLeaf, Zenon
  <2> QED
    BY <1>4, <1>5, <2>3, <2>4, Zenon DEF f
<1>8. CASE s # B
  <2>1. ReadsLast(t, c, rest)
    BY <1>6, <1>8, Zenon
  <2>2. f = leaf_at[t][c][rest]
    BY <1>3, <1>8, Zenon
  <2>3. f[1] = slice_last_leaf[t][c]
    BY <1>5, <1>6, <2>1, <2>2, Zenon DEF ReadsLast
  <2> QED
    BY <1>4, <1>5, <2>3, Zenon DEF f
<1> QED
  BY <1>7, <1>8, Zenon

LEMMA LastLeafAt == \A s \in Inner : \A n \in WellFormed[s] : \A idx \in Nat : ReadsLast(s, n, idx)
<1> DEFINE P == {s \in Inner : \A n \in WellFormed[s] : \A idx \in Nat : ReadsLast(s, n, idx)}
<1>1. B \in P
  BY BInner, ReadsLastNext, Zenon
<1>2. ASSUME NEW s \in Inner, s # B, s - B \in P PROVE s \in P
  <2>1. \A n \in WellFormed[s - B] : \A idx \in Nat : ReadsLast(s - B, n, idx)
    BY <1>2, Zenon
  <2>2. \A n \in WellFormed[s] : \A idx \in Nat : ReadsLast(s, n, idx)
    BY <2>1, ReadsLastNext, Zenon
  <2> QED
    BY <2>2, Zenon
<1> HIDE DEF P
<1>3. \A s \in Inner : s \in P
  BY <1>1, <1>2, InnerInduct, Zenon
<1> QED
  BY <1>3, Zenon DEF P

LEMMA FrontJoin ==
    ASSUME NEW x \in Seq(Int), NEW y \in Seq(Int), y # <<>>
    PROVE  /\ Front(x \o y) = x \o Front(y) /\ Front(y) \in Seq(Int) /\ Len(Front(y)) = Len(y) - 1
           /\ Len(y) = 1 => Front(x \o y) = x
<1> DEFINE ly == Len(y)
           k == ly - 1
           p == SubSeq(y, 1, k)
           q == SubSeq(y, k + 1, ly)
<1>1. ly \in Nat /\ ly # 0
  BY EmptySeq
<1>2. k \in Nat /\ k <= ly /\ ly <= ly
  BY <1>1
<1>3. p \in Seq(Int) /\ Len(p) = k
  <2>1. y \in Seq(Int) /\ k \in Nat /\ k <= Len(y)
    BY <1>2, Zenon
  <2> HIDE DEF k
  <2> QED
    BY <2>1, PrefixType, Zenon
<1>4. y = p \o q /\ q \in Seq(Int)
  <2>1. k <= Len(y)
    BY <1>2
  <2> HIDE DEF k
  <2> QED
    BY <1>2, <2>1, SplitAt, Zenon
<1> HIDE DEF p, q, k
<1>5. (x \o p) \o q = x \o y
  BY <1>3, <1>4, AssocAll, ZenonT(60)
<1>6. x \o p \in Seq(Int) /\ Len(x \o p) = Len(x) + k
  <2>1. p \in Seq(Int)
    BY <1>3, Zenon
  <2>2. x \o p \in Seq(Int) /\ Len(x \o p) = Len(x) + Len(p)
    BY <2>1
  <2> QED
    BY <1>3, <2>2, Zenon
<1>7. Len(x \o y) - 1 = Len(x) + k
  BY <1>1, <1>2 DEF k
<1>8. Front(x \o y) = x \o p
  <2>1. SubSeq((x \o p) \o q, 1, Len(x \o p)) = x \o p
    BY <1>4, <1>6, PrefixOf, Zenon
  <2> QED
    BY <1>5, <1>6, <1>7, <2>1, Zenon DEF Front
<1>9. Front(y) = p
  BY Zenon DEF Front, p, k
<1>10. ASSUME Len(y) = 1 PROVE x \o p = x
  <2>1. Len(p) = 0
    BY <1>3, <1>10 DEF k
  <2>2. p = <<>>
    BY <1>3, <2>1, EmptySeq
  <2> QED
    BY <2>2
<1>11. Len(p) = Len(y) - 1
  BY <1>3, Zenon DEF k
<1> QED
  BY <1>3, <1>8, <1>9, <1>10, <1>11, Zenon

\* What the tree becomes when its last leaf takes the place of the tail.
LEMMA PopTree ==
    ASSUME NEW s \in Inner, NEW n \in WellFormed[s]
    PROVE  LET popped == pop_tail[s][n]
               collapse == popped # Null /\ s > B /\ child_count(popped) = 1
           IN \E pre \in Seq(Int) :
                /\ elems(n, s) = pre \o slice_last_leaf[s][n]
                /\ TreeOf(IF collapse THEN Child(popped, 0) ELSE popped,
                          IF popped = Null THEN 0 ELSE IF collapse THEN s - B ELSE s, pre)
<1> DEFINE leaf == slice_last_leaf[s][n]
           popped == pop_tail[s][n]
           collapse == popped # Null /\ s > B /\ child_count(popped) = 1
           root == IF collapse THEN Child(popped, 0) ELSE popped
           shift == IF popped = Null THEN 0 ELSE IF collapse THEN s - B ELSE s
<1>1. PICK pre \in Seq(Int) : elems(n, s) = pre \o leaf /\ Remains(popped, s, pre)
  BY PopTail, Zenon DEF Pops
<1> HIDE DEF leaf, popped
<1>2. CASE popped = Null
  <2>1. root = Null /\ shift = 0 /\ pre = <<>>
    BY <1>1, <1>2, Zenon DEF Remains
  <2> HIDE DEF root, shift
  <2>2. TreeOf(root, shift, pre)
    BY <2>1, Zenon DEF TreeOf
  <2> QED
    BY <1>1, <2>2, Zenon DEF leaf, popped, root, shift
<1>3. CASE popped # Null
  <2>1. popped \in WellFormed[s] /\ elems(popped, s) = pre
    BY <1>1, <1>3, Zenon DEF Remains
  <2>2. TreeOf(root, shift, pre)
    <3>1. CASE collapse
      <4>1. root = Child(popped, 0) /\ shift = s - B /\ child_count(popped) = 1 /\ s > B
        BY <3>1, Zenon
      <4>2. s - B \in Inner
        <5>1. s # B
          BY <4>1, BType
        <5> QED
          BY <5>1, InnerType, Zenon
      <4>3. Child(popped, 0) \in WellFormed[s - B] /\ elems(Child(popped, 0), s - B) = pre
        BY <2>1, <4>1, OnlyChild, Zenon
      <4>4. Child(popped, 0) # Null
        BY <4>2, <4>3, FormFields, Zenon
      <4> HIDE DEF root, shift
      <4> QED
        BY <4>1, <4>2, <4>3, <4>4, Zenon DEF TreeOf
    <3>2. CASE ~collapse
      <4>1. root = popped /\ shift = s
        BY <1>3, <3>2, Zenon
      <4> HIDE DEF root, shift
      <4> QED
        BY <1>3, <2>1, <4>1, Zenon DEF TreeOf
    <3> QED
      BY <3>1, <3>2, Zenon
  <2> HIDE DEF root, shift
  <2> QED
    BY <1>1, <2>2, Zenon DEF leaf, popped, root, shift
<1> QED
  BY <1>2, <1>3, Zenon

\* The vector without its last element.
LEMMA DropVec ==
    ASSUME NEW x, NEW a, VecIs(x, a)
    PROVE  VecIs(drop_last(x), IF a = <<>> THEN <<>> ELSE Front(a))
<1>1. a \in Seq(Int) /\ x.len = Len(a) /\ Len(a) \in Nat
  BY VecIsFacts, Zenon
<1>2. CASE x.len <= 1
  <2>1. drop_last(x) = EmptyVec
    BY <1>2, Zenon DEF drop_last
  <2>2. a # <<>> => Front(a) = <<>>
    <3> SUFFICES ASSUME a # <<>> PROVE Front(a) = <<>>
      OBVIOUS
    <3> DEFINE la == Len(a)
    <3>1. la # 0
      BY <1>1, EmptySeq
    <3>2. la = 1
      <4>1. la \in Nat /\ la <= 1
        BY <1>1, <1>2, Zenon
      <4> HIDE DEF la
      <4> QED
        BY <3>1, <4>1
    <3>3. <<>> \in Seq(Int) /\ <<>> \o a = a
      BY <1>1, EmptyLeft, Zenon
    <3>4. Front(<<>> \o a) = <<>>
      BY <1>1, <3>2, <3>3, FrontJoin, Zenon
    <3> QED
      BY <3>3, <3>4, Zenon
  <2> QED
    BY <2>1, <2>2, Zenon DEF VecIs
<1>3. CASE ~(x.len <= 1)
  <2>1. a # <<>>
    <3> SUFFICES ASSUME a = <<>> PROVE FALSE
      OBVIOUS
    <3>1. Len(a) = 0
      OBVIOUS
    <3> QED
      BY <1>1, <1>3, <3>1
  <2>2. Loaded(x, a)
    BY <2>1, Zenon DEF VecIs
  <2>3. PICK d \in Seq(Int) :
             /\ TreeOf(x.root, x.shift, d) /\ a = d \o x.tail
             /\ tailoff(x) = Len(d) /\ Len(d) \in Nat
             /\ x.tail \in Seq(Int) /\ x.tail \in WellFormed[0]
             /\ Len(x.tail) \in Nat /\ Len(x.tail) > 0 /\ Len(x.tail) <= BF
             /\ Len(a) = Len(d) + Len(x.tail)
             /\ x = [len |-> x.len, shift |-> x.shift, root |-> x.root, tail |-> x.tail]
    BY <2>2, LoadedParts, Zenon
  <2>4. x.tail # <<>>
    BY <2>2, LoadedFacts, Zenon
  <2> DEFINE t == x.tail
             lt == Len(t)
             ld == Len(d)
             l1 == x.len - 1
  <2>5. ld \in Nat /\ lt \in Nat /\ lt > 0 /\ lt <= BF /\ x.len = ld + lt
    BY <1>1, <2>3, Zenon
  <2>6. /\ Front(a) = d \o Front(t) /\ Front(t) \in Seq(Int) /\ Len(Front(t)) = lt - 1
        /\ lt = 1 => Front(a) = d
    BY <2>3, <2>4, FrontJoin, Zenon
  <2>7. CASE lt > 1
    <3> DEFINE f == Front(t)
               y == [x EXCEPT !.len = l1, !.tail = f]
    <3>1. drop_last(x) = y
      BY <1>3, <2>7, Zenon DEF drop_last
    <3>2. y = [len |-> l1, shift |-> x.shift, root |-> x.root, tail |-> f]
      <4> HIDE DEF l1, f
      <4> QED
        BY <2>3, WithTail, Zenon
    <3>3. f \in WellFormed[0] /\ l1 = Len(d) + Len(f)
      <4> DEFINE lf == Len(f)
      <4>1. lf = lt - 1
        BY <2>6, Zenon
      <4> HIDE DEF lf, lt, ld
      <4>2. lf \in 1 .. BF /\ l1 = ld + lf
        BY <2>5, <2>7, <4>1, BType
      <4>3. f \in {m \in Seq(Int) : Len(m) \in 1 .. BF}
        BY <2>6, <4>2, Zenon DEF lf
      <4> QED
        BY <4>2, <4>3, LeafForm, Zenon DEF lf, ld
    <3> DEFINE r1 == x.root
               s1 == x.shift
    <3>4. TreeOf(r1, s1, d)
      BY <2>3, Zenon
    <3> HIDE DEF f, y, r1, s1, l1
    <3>5. VecIs([len |-> l1, shift |-> s1, root |-> r1, tail |-> f], d \o f)
      BY <3>3, <3>4, LoadedOf, Zenon
    <3>6. VecIs(y, d \o f)
      BY <3>2, <3>5, Zenon DEF r1, s1
    <3> QED
      BY <2>1, <2>6, <3>1, <3>6, Zenon DEF f
  <2>8. CASE ~(lt > 1)
    <3>1. lt = 1 /\ ld >= 1 /\ l1 = ld /\ ~(lt = 0) /\ x.len - 2 = ld - 1
      <4> HIDE DEF lt, ld
      <4> QED
        BY <1>3, <2>5, <2>8
    <3>2. x.root # Null
      <4> SUFFICES ASSUME x.root = Null PROVE FALSE
        OBVIOUS
      <4>1. d = <<>>
        BY <2>3, Zenon DEF TreeOf
      <4>2. ld = 0
        BY <4>1
      <4> HIDE DEF ld
      <4> QED
        BY <3>1, <4>2
    <3> DEFINE n == x.root
               s == x.shift
               i == ld - 1
               g == leaf_at[s][n][i]
               leaf == slice_last_leaf[s][n]
               popped == pop_tail[s][n]
               collapse == popped # Null /\ s > B /\ child_count(popped) = 1
               root == IF collapse THEN Child(popped, 0) ELSE popped
               shift == IF popped = Null THEN 0 ELSE IF collapse THEN s - B ELSE s
               y == [len |-> l1, shift |-> shift, root |-> root, tail |-> leaf]
    <3>3. s \in Inner /\ n \in WellFormed[s] /\ elems(n, s) = d
      BY <2>3, <3>2, Zenon DEF TreeOf
    <3>4. i \in Nat /\ i < ld /\ i + 1 = ld /\ ~(i >= ld)
      <4> HIDE DEF ld
      <4> QED
        BY <2>5, <3>1
    <3>5. g[1] = leaf
      <4>1. i < Len(elems(n, s))
        BY <3>3, <3>4, Zenon
      <4>2. i % 2^(s + B) = i
        BY <3>3, <3>4, <4>1, IndexInTree, Zenon
      <4>3. ReadsLast(s, n, i)
        BY <3>3, <3>4, LastLeafAt, Zenon
      <4> QED
        BY <3>3, <3>4, <4>2, <4>3, Zenon DEF ReadsLast
    <3>6. get_leaf(x, i) = g
      BY <2>3, <3>4, Zenon DEF get_leaf
    <3>7. drop_last(x) = y
      <4> DEFINE idx == IF lt = 0 THEN x.len - 1 ELSE x.len - 2
                 found == get_leaf(x, idx)
                 tail == IF lt = 0 THEN SubSeq(found[1], 1, found[2]) ELSE found[1]
      <4>1. drop_last(x) = [len |-> l1, shift |-> shift, root |-> root, tail |-> tail]
        BY <1>3, <2>8, Zenon DEF drop_last
      <4>2. idx = i
        BY <3>1, Zenon
      <4>3. found = g
        <5> HIDE DEF idx, i
        <5> QED
          BY <3>6, <4>2, Zenon
      <4>4. tail = leaf
        <5>1. tail = found[1]
          BY <3>1, Zenon
        <5> HIDE DEF tail, found, g, leaf
        <5> QED
          BY <3>5, <4>3, <5>1, Zenon
      <4> HIDE DEF tail, shift, root, leaf
      <4> QED
        BY <4>1, <4>4, Zenon
    <3>8. leaf \in WellFormed[0]
      BY <3>3, PopTail, Zenon DEF Pops
    <3>9. PICK pre \in Seq(Int) : elems(n, s) = pre \o leaf /\ TreeOf(root, shift, pre)
      BY <3>3, PopTree, Zenon
    <3> HIDE DEF leaf, root, shift
    <3>10. l1 = Len(pre) + Len(leaf)
      <4>1. leaf \in Seq(Int)
        BY <3>8, LeafForm, Zenon
      <4>2. Len(pre \o leaf) = Len(pre) + Len(leaf)
        BY <4>1
      <4> QED
        BY <3>1, <3>3, <3>9, <4>2, Zenon
    <3> HIDE DEF l1
    <3>11. VecIs(y, pre \o leaf)
      BY <3>8, <3>9, <3>10, LoadedOf, Zenon
    <3>12. Front(a) = pre \o leaf
      BY <2>6, <3>1, <3>3, <3>9, Zenon
    <3> HIDE DEF y
    <3> QED
      BY <2>1, <3>7, <3>11, <3>12, Zenon
  <2> QED
    BY <2>7, <2>8, Zenon
<1> QED
  BY <1>2, <1>3, Zenon

-----------------------------------------------------------------------------
(***************************************************************************)
(* Numbering: a vector of the same shape whose elements are 1, 2, ...      *)
(***************************************************************************)
Run(from, k) == [i \in 1 .. k |-> from + i]

LEMMA RunType ==
    ASSUME NEW from \in Nat, NEW k \in Nat
    PROVE  /\ Run(from, k) \in Seq(Int) /\ Len(Run(from, k)) = k
           /\ \A i \in 1 .. k : Run(from, k)[i] = from + i
BY DEF Run

LEMMA RunJoin ==
    ASSUME NEW from \in Nat, NEW k \in Nat, NEW m \in Nat
    PROVE  Run(from, k) \o Run(from + k, m) = Run(from, k + m)
<1> DEFINE x == Run(from, k)
           y == Run(from + k, m)
           z == Run(from, k + m)
           a == x \o y
<1>0. from + k \in Nat /\ k + m \in Nat
  OBVIOUS
<1>1. x \in Seq(Int) /\ Len(x) = k /\ \A i \in 1 .. k : x[i] = from + i
  BY RunType, Zenon
<1>2. y \in Seq(Int) /\ Len(y) = m /\ \A i \in 1 .. m : y[i] = (from + k) + i
  BY <1>0, RunType, Zenon
<1>3. z \in Seq(Int) /\ Len(z) = k + m /\ \A i \in 1 .. k + m : z[i] = from + i
  BY <1>0, RunType, Zenon
<1> HIDE DEF x, y, z
<1>4. a \in Seq(Int) /\ IsTwo(a, x, y)
  BY <1>1, <1>2, TwoParts, Zenon
<1>5. /\ Len(a) = k + m /\ \A i \in 1 .. k : a[i] = x[i]
      /\ \A i \in 1 .. m : a[k + i] = y[i]
  BY <1>1, <1>2, <1>4, Zenon DEF IsTwo
<1> HIDE DEF a
<1>6. ASSUME NEW i \in 1 .. k + m PROVE a[i] = z[i]
  <2>1. CASE i \in 1 .. k
    BY <1>1, <1>3, <1>5, <2>1, Zenon
  <2>2. CASE i \notin 1 .. k
    <3> DEFINE j == i - k
    <3>1. j \in 1 .. m /\ k + j = i /\ (from + k) + j = from + i
      BY <2>2
    <3> HIDE DEF j
    <3> QED
      BY <1>2, <1>3, <1>5, <3>1, Zenon
  <2> QED
    BY <2>1, <2>2, Zenon
<1>7. a = z
  <2>1. Len(a) = Len(z) /\ \A i \in 1 .. Len(a) : a[i] = z[i]
    BY <1>3, <1>5, <1>6, Zenon
  <2> QED
    BY <1>3, <1>4, <2>1, SeqEqual, Zenon
<1> QED
  BY <1>7, Zenon DEF a, x, y, z

FromNth(s, n, from, i) == from + total[[j \in 1 .. i - 1 |-> node_total_size[s - B][n.children[j]]]]
NumberWith(r, s, n, from) ==
  IF s = 0 THEN [i \in 1 .. Len(n) |-> from + i]
  ELSE [children |-> [i \in 1 .. Len(n.children) |-> r[n.children[i]][FromNth(s, n, from, i)]], sizes |-> n.sizes]
NumberBody(g, s) == [n \in Nodes[s] |-> [from \in Nat |-> NumberWith(g[s - B], s, n, from)]]
Numbering == INSTANCE RecursiveFunctions WITH D <- Shifts, Rank <- NatRank, Body <- NumberBody

LEMMA NumberIs == \A s \in Shifts : NumberNode[s] = NumberBody(NumberNode, s)
<1>1. NumberNode = CHOOSE g : g = [s \in Shifts |-> NumberBody(g, s)]
  BY Zenon DEF NumberNode, NumberBody, NumberWith, FromNth
<1>2. Numbering!Ranked
  BY ShiftsRanked, Zenon DEF Numbering!Ranked
<1>3. Numbering!Local
  <2> SUFFICES ASSUME NEW g, NEW h, NEW s \in Shifts, \A t \in Shifts : NatRank(t) < NatRank(s) => g[t] = h[t]
               PROVE  NumberBody(g, s) = NumberBody(h, s)
    BY Zenon DEF Numbering!Local
  <2>1. CASE s = 0
    BY <2>1, Zenon DEF NumberBody, NumberWith
  <2>2. CASE s # 0
    <3>1. g[s - B] = h[s - B]
      BY <2>2, ShiftBelow, Zenon
    <3> QED
      BY <3>1, Zenon DEF NumberBody
  <2> QED
    BY <2>1, <2>2
<1> QED
  BY <1>1, <1>2, <1>3, Numbering!RecursiveFunction, Zenon

NumbersFrom(s, n, from) ==
  NumberNode[s][n][from] \in WellFormed[s] /\ elems(NumberNode[s][n][from], s) = Run(from, Len(elems(n, s)))

LEMMA NumbersLeaf ==
    ASSUME NEW n \in WellFormed[0], NEW from \in Nat
    PROVE  NumbersFrom(0, n, from)
<1> DEFINE f == NumberNode[0][n][from]
<1>1. n \in Nodes[0] /\ 0 \in Shifts
  BY FormNodes, BInner
<1>2. NumberNode[0] = NumberBody(NumberNode, 0)
  BY <1>1, NumberIs
<1>3. NumberBody(NumberNode, 0)[n][from] = Run(from, Len(n))
  BY <1>1, Zenon DEF NumberBody, NumberWith, Run
<1>4. f = Run(from, Len(n))
  BY <1>2, <1>3, Zenon
<1>5. n \in Seq(Int) /\ Len(n) \in 1 .. BF
  BY LeafForm, Zenon
<1>6. Len(n) \in Nat
  BY <1>5
<1> HIDE DEF f
<1>7. f \in Seq(Int) /\ Len(f) = Len(n)
  BY <1>4, <1>6, RunType, Zenon
<1>8. f \in {m \in Seq(Int) : Len(m) \in 1 .. BF}
  BY <1>5, <1>7, Zenon
<1>9. elems(n, 0) = n /\ elems(f, 0) = f
  BY ElemsLeaf, Zenon
<1> QED
  BY <1>4, <1>8, <1>9, LeafForm, Zenon DEF NumbersFrom, f

LEMMA NumbersNext ==
    ASSUME NEW s \in Inner, \A c \in WellFormed[s - B] : \A k \in Nat : NumbersFrom(s - B, c, k),
           NEW n \in WellFormed[s], NEW from \in Nat
    PROVE  NumbersFrom(s, n, from)
<1> DEFINE t == s - B
           ch == n.children
           m == Len(ch)
           r == NumberNode[s][n][from]
           dh == [i \in 1 .. m |-> NumberNode[t][ch[i]][FromNth(s, n, from, i)]]
<1>1. n \in Nodes[s] /\ s # 0 /\ s \in Shifts /\ t \in Shifts
  BY FormNodes, InnerType
<1>2. NumberNode[s] = NumberBody(NumberNode, s)
  BY <1>1, NumberIs
<1>3. r = [children |-> dh, sizes |-> n.sizes]
  <2>1. NumberBody(NumberNode, s)[n][from] = [children |-> dh, sizes |-> n.sizes]
    BY <1>1, Zenon DEF NumberBody, NumberWith
  <2> QED
    BY <1>2, <2>1, Zenon
<1>4. /\ ch \in Seq(WellFormed[t]) /\ n.sizes \in Seq(Nat)
      /\ m \in 1 .. BF /\ SizesFit(ch, n.sizes, s)
  BY FormFields, Zenon
<1>5. m \in Nat
  <2> HIDE DEF m
  <2> QED
    BY <1>4, BType
\* What the child at slot j becomes.
<1>6. ASSUME NEW j \in Nat, j < m
      PROVE  /\ j + 1 \in 1 .. m /\ Upto(n, s, j) \in Nat
             /\ dh[j + 1] \in WellFormed[t]
             /\ elems(dh[j + 1], t) = Run(from + Upto(n, s, j), Len(elems(ch[j + 1], t)))
  <2> DEFINE c == ch[j + 1]
             k == FromNth(s, n, from, j + 1)
             u == Upto(n, s, j)
  <2>1. j + 1 \in 1 .. m /\ (j + 1) - 1 = j /\ j <= m
    <3> HIDE DEF m
    <3> QED
      BY <1>5, <1>6
  <2>2. u \in Nat
    BY <2>1, UptoBounds, Zenon
  <2>3. k = from + u
    <3>1. total[SizesUpto(ch, t, j)] = u
      BY <1>1, <1>4, <2>1, SizesSum, Zenon DEF Upto
    <3> QED
      BY <2>1, <3>1, Zenon DEF FromNth, SizesUpto
  <2>4. k \in Nat
    <3> HIDE DEF k, u
    <3> QED
      BY <2>2, <2>3
  <2>5. c \in WellFormed[t]
    BY <1>6, UptoNext, Zenon DEF Child
  <2>6. dh[j + 1] = NumberNode[t][c][k]
    BY <2>1, Zenon
  <2>7. NumbersFrom(t, c, k)
    BY <2>4, <2>5, Zenon
  <2> HIDE DEF dh, k
  <2> QED
    BY <2>1, <2>2, <2>3, <2>6, <2>7, Zenon DEF NumbersFrom
<1>7. ASSUME NEW i \in 1 .. m
      PROVE  dh[i] \in WellFormed[t] /\ Len(elems(dh[i], t)) = Len(elems(ch[i], t))
  <2> DEFINE j == i - 1
  <2>1. j \in Nat /\ j < m /\ j + 1 = i
    <3> HIDE DEF m
    <3> QED
      BY <1>5
  <2> HIDE DEF j, dh
  <2> DEFINE k == Len(elems(ch[i], t))
             b == from + Upto(n, s, j)
  <2>2. dh[i] \in WellFormed[t] /\ elems(dh[i], t) = Run(b, k) /\ Upto(n, s, j) \in Nat
    BY <1>6, <2>1, Zenon
  <2>3. b \in Nat
    BY <2>2
  <2>4. k \in Nat
    <3>1. ch[i] \in WellFormed[t]
      BY <2>1, UptoNext, Zenon DEF Child
    <3> QED
      BY <1>1, <3>1, FormElems, Zenon
  <2> HIDE DEF k, b
  <2>5. Len(Run(b, k)) = k
    BY <2>3, <2>4, RunType, Zenon
  <2> QED
    BY <2>2, <2>5, Zenon DEF k
<1>8. dh \in Seq(WellFormed[t]) /\ Len(dh) = m
  <2> DEFINE W == WellFormed[t]
             F(i) == NumberNode[t][ch[i]][FromNth(s, n, from, i)]
  <2>1. \A i \in 1 .. m : F(i) \in W
    BY <1>7, Zenon
  <2>2. dh = [i \in 1 .. m |-> F(i)]
    BY Zenon
  <2> HIDE DEF W, F, m, dh
  <2>3. dh \in Seq(W) /\ Len(dh) = m
    BY <1>5, <2>1, <2>2
  <2> QED
    BY <2>3, Zenon DEF W
<1> HIDE DEF dh
<1>9. SizesFit(dh, n.sizes, s)
  <2>1. Len(dh) = Len(ch) /\ \A i \in 1 .. Len(ch) : Len(elems(dh[i], s - B)) = Len(elems(ch[i], s - B))
    BY <1>7, <1>8, Zenon
  <2> QED
    BY <1>4, <1>8, <2>1, SameSizes, Zenon
<1>10. r \in WellFormed[s]
  <2>1. Len(dh) \in 1 .. BF
    BY <1>4, <1>8, Zenon
  <2> QED
    BY <1>3, <1>4, <1>8, <1>9, <2>1, FormOf, Zenon
<1>11. r.children = dh
  BY <1>3
<1> HIDE DEF r
<1> DEFINE P == {j \in Nat : j <= m => all(SubSeq(dh, 1, j), t) = Run(from, Upto(n, s, j))}
<1>12. 0 \in P
  <2>1. SubSeq(dh, 1, 0) = <<>>
    BY SubSeqEmpty
  <2>2. Upto(n, s, 0) = 0
    BY UptoEnds, Zenon
  <2>3. Run(from, 0) = <<>>
    <3>1. Run(from, 0) \in Seq(Int) /\ Len(Run(from, 0)) = 0
      BY RunType
    <3> QED
      BY <3>1, EmptySeq
  <2> QED
    BY <2>1, <2>2, <2>3, AllEmpty
<1>13. ASSUME NEW j \in Nat, j \in P PROVE j + 1 \in P
  <2> SUFFICES ASSUME j + 1 <= m
               PROVE  all(SubSeq(dh, 1, j + 1), t) = Run(from, Upto(n, s, j + 1))
    OBVIOUS
  <2> DEFINE p == SubSeq(dh, 1, j)
             c == dh[j + 1]
             u == Upto(n, s, j)
             k == Len(elems(ch[j + 1], t))
  <2>1. j < m /\ j <= m
    <3> HIDE DEF m
    <3> QED
      BY <1>5
  <2>2. all(p, t) = Run(from, u)
    BY <1>13, <2>1
  <2>3. p \in Seq(WellFormed[t]) /\ c \in WellFormed[t] /\ SubSeq(dh, 1, j + 1) = p \o <<c>>
    BY <1>8, <2>1, PrefixStep, Zenon
  <2>4. u \in Nat /\ elems(c, t) = Run(from + u, k)
    BY <1>6, <2>1, Zenon
  <2>5. Upto(n, s, j + 1) = u + k /\ k \in Nat
    <3>1. Upto(n, s, j + 1) = u + k /\ ch[j + 1] \in WellFormed[t]
      BY <2>1, UptoNext, Zenon DEF Child
    <3> QED
      BY <1>1, <3>1, FormElems, Zenon
  <2>6. all(p \o <<c>>, t) = all(p, t) \o elems(c, t)
    BY <1>1, <2>3, ListSnoc, Zenon
  <2> HIDE DEF u, k, p, c
  <2>7. Run(from, u) \o Run(from + u, k) = Run(from, u + k)
    BY <2>4, <2>5, RunJoin, Zenon
  <2> QED
    BY <2>2, <2>3, <2>4, <2>5, <2>6, <2>7, Zenon
<1> HIDE DEF P
<1>14. \A j \in Nat : j \in P
  BY <1>12, <1>13, OnNat!NatInduct, Zenon
<1>15. all(SubSeq(dh, 1, m), t) = Run(from, Upto(n, s, m))
  <2>1. m <= m
    <3> HIDE DEF m
    <3> QED
      BY <1>5
  <2>2. m \in P
    BY <1>5, <1>14, Zenon
  <2> QED
    BY <2>1, <2>2, Zenon DEF P
<1>16. SubSeq(dh, 1, m) = dh /\ Upto(n, s, m) = Len(elems(n, s))
  BY <1>8, PartWhole, UptoEnds, Zenon
<1>17. elems(r, s) = all(dh, t)
  BY <1>10, <1>11, ElemsInner, Zenon
<1> QED
  BY <1>10, <1>15, <1>16, <1>17, Zenon DEF NumbersFrom, r

LEMMA NumberTree == \A s \in Shifts : \A n \in WellFormed[s] : \A from \in Nat : NumbersFrom(s, n, from)
<1> DEFINE P == {s \in Shifts : \A n \in WellFormed[s] : \A from \in Nat : NumbersFrom(s, n, from)}
<1>1. 0 \in P
  BY BInner, NumbersLeaf, Zenon
<1>2. ASSUME NEW s \in Inner, s - B \in P PROVE s \in P
  <2>1. \A n \in WellFormed[s - B] : \A from \in Nat : NumbersFrom(s - B, n, from)
    BY <1>2, Zenon
  <2>2. \A n \in WellFormed[s] : \A from \in Nat : NumbersFrom(s, n, from)
    BY <2>1, NumbersNext, Zenon
  <2>3. s \in Shifts
    BY InnerType
  <2> QED
    BY <2>2, <2>3, Zenon
<1> HIDE DEF P
<1>3. \A s \in Shifts : s \in P
  BY <1>1, <1>2, ShiftInduct, Zenon
<1> QED
  BY <1>3, Zenon DEF P

LEMMA WithRootTail ==
    ASSUME NEW x, x = [len |-> x.len, shift |-> x.shift, root |-> x.root, tail |-> x.tail], NEW n, NEW t
    PROVE  [x EXCEPT !.root = n, !.tail = t] = [len |-> x.len, shift |-> x.shift, root |-> n, tail |-> t]
<1> DEFINE y == [x EXCEPT !.root = n]
           s == x.shift
           r == x.root
           u == x.tail
           k == x.len
<1>1. x = [len |-> k, shift |-> s, root |-> r, tail |-> u]
  BY Zenon
<1> HIDE DEF k, s, r, u
<1>2. y = [len |-> k, shift |-> s, root |-> n, tail |-> u]
  BY <1>1
<1> HIDE DEF y
<1>3. [y EXCEPT !.tail = t] = [len |-> k, shift |-> s, root |-> n, tail |-> t]
  BY <1>2
<1>4. [x EXCEPT !.root = n, !.tail = t] = [y EXCEPT !.tail = t]
  BY DEF y
<1> QED
  BY <1>3, <1>4, Zenon DEF s, k

LEMMA NumbersRun ==
    ASSUME NEW n \in Nat
    PROVE  /\ Numbers(n) = Run(0, n) /\ Numbers(n) \in Seq(Int) /\ Len(Numbers(n)) = n
           /\ \A i \in 1 .. n : Numbers(n)[i] = i
<1>1. Numbers(n) \in Seq(Int) /\ Len(Numbers(n)) = n /\ \A i \in 1 .. n : Numbers(n)[i] = i
  BY DEF Numbers
<1>4. \A i \in 1 .. n : 0 + i = i
  OBVIOUS
<1>6. Numbers(n) = Run(0, n)
  BY <1>4, Zenon DEF Numbers, Run
<1> QED
  BY <1>1, <1>6, Zenon

\* A numbered vector holds 1, 2, ... in the shape it had.
LEMMA NumberedVec ==
    ASSUME NEW x, NEW a, VecIs(x, a)
    PROVE  VecIs(Numbered(x), Numbers(Len(a)))
<1> DEFINE r == IF x.root = Null THEN Null ELSE NumberNode[x.shift][x.root][0]
           t == [i \in DOMAIN x.tail |-> tailoff(x) + i]
           y == [x EXCEPT !.root = r, !.tail = t]
<1>0. a \in Seq(Int) /\ Len(a) \in Nat
  BY VecIsFacts, Zenon
<1>1. Numbered(x) = y
  BY Zenon DEF Numbered
<1>2. CASE a = <<>>
  <2>1. x = EmptyVec
    BY <1>2, Zenon DEF VecIs
  <2>2. x.root = Null /\ x.tail = <<>> /\ x = [len |-> x.len, shift |-> x.shift, root |-> x.root, tail |-> x.tail]
    BY <2>1 DEF EmptyVec
  <2>3. r = Null
    BY <2>2, Zenon
  <2>4. t = <<>>
    <3>1. DOMAIN x.tail = {}
      BY <2>2
    <3>2. t = [i \in {} |-> tailoff(x) + i]
      BY <3>1
    <3> QED
      BY <3>2
  <2> HIDE DEF r, t
  <2>5. y = [len |-> x.len, shift |-> x.shift, root |-> x.root, tail |-> x.tail]
    BY <2>2, <2>3, <2>4, WithRootTail, Zenon
  <2>6. y = EmptyVec
    BY <2>1, <2>2, <2>5, Zenon
  <2>7. Numbers(Len(a)) = <<>>
    <3>1. Len(a) = 0
      BY <1>2
    <3>2. Numbers(0) \in Seq(Int) /\ Len(Numbers(0)) = 0
      BY NumbersRun
    <3>3. Numbers(0) = <<>>
      BY <3>2, EmptySeq
    <3> QED
      BY <3>1, <3>3, Zenon
  <2> QED
    BY <1>1, <2>6, <2>7, Zenon DEF VecIs
<1>3. CASE a # <<>>
  <2>1. Loaded(x, a)
    BY <1>3, Zenon DEF VecIs
  <2>2. PICK d \in Seq(Int) :
             /\ TreeOf(x.root, x.shift, d) /\ a = d \o x.tail
             /\ tailoff(x) = Len(d) /\ Len(d) \in Nat
             /\ x.tail \in Seq(Int) /\ x.tail \in WellFormed[0]
             /\ Len(x.tail) \in Nat /\ Len(x.tail) > 0 /\ Len(x.tail) <= BF
             /\ Len(a) = Len(d) + Len(x.tail)
             /\ x = [len |-> x.len, shift |-> x.shift, root |-> x.root, tail |-> x.tail]
    BY <2>1, LoadedParts, Zenon
  <2> DEFINE ld == Len(d)
             lt == Len(x.tail)
             e == Run(0, ld)
  <2>3. t = Run(ld, lt)
    <3>1. DOMAIN x.tail = 1 .. lt
      BY <2>2
    <3> QED
      BY <2>2, <3>1, Zenon DEF Run
  <2>4. t \in WellFormed[0] /\ Len(t) = lt
    <3>1. t \in Seq(Int) /\ Len(t) = lt
      <4>1. ld \in Nat /\ lt \in Nat
        BY <2>2, Zenon
      <4> HIDE DEF t, ld, lt
      <4> QED
        BY <2>3, <4>1, RunType, Zenon
    <3>2. lt \in 1 .. BF
      BY <2>2, LeafForm, Zenon
    <3>3. t \in {m \in Seq(Int) : Len(m) \in 1 .. BF}
      BY <3>1, <3>2, Zenon
    <3> QED
      BY <3>1, <3>3, LeafForm, Zenon
  <2>5. e \in Seq(Int) /\ Len(e) = ld
    <3>1. 0 \in Nat /\ ld \in Nat
      BY <2>2
    <3> QED
      BY <3>1, RunType, Zenon
  <2>6. TreeOf(r, x.shift, e)
    <3>1. CASE x.root = Null
      <4>1. r = Null /\ x.shift = 0 /\ d = <<>>
        BY <2>2, <3>1, Zenon DEF TreeOf
      <4>2. ld = 0
        BY <4>1
      <4>3. e = <<>>
        BY <2>5, <4>2, EmptySeq
      <4> HIDE DEF r, e
      <4> QED
        BY <4>1, <4>3, Zenon DEF TreeOf
    <3>2. CASE x.root # Null
      <4>1. r = NumberNode[x.shift][x.root][0]
        BY <3>2, Zenon
      <4>2. x.shift \in Inner /\ x.root \in WellFormed[x.shift] /\ elems(x.root, x.shift) = d
        BY <2>2, <3>2, Zenon DEF TreeOf
      <4>3. NumbersFrom(x.shift, x.root, 0)
        <5>1. 0 \in Nat /\ x.shift \in Shifts
          BY <4>2, InnerType
        <5> QED
          BY <4>2, <5>1, NumberTree, Zenon
      <4> HIDE DEF r
      <4>4. r \in WellFormed[x.shift] /\ elems(r, x.shift) = e
        BY <4>1, <4>2, <4>3, Zenon DEF NumbersFrom
      <4>5. r # Null
        BY <4>2, <4>4, FormFields, Zenon
      <4> QED
        BY <4>2, <4>4, <4>5, Zenon DEF TreeOf
    <3> QED
      BY <3>1, <3>2, Zenon
  <2> DEFINE l1 == x.len
             s1 == x.shift
  <2> HIDE DEF r, t
  <2>7. y = [len |-> l1, shift |-> s1, root |-> r, tail |-> t]
    BY <2>2, WithRootTail, Zenon
  <2>8. l1 = Len(e) + Len(t)
    BY <2>2, <2>4, <2>5, VecIsFacts, Zenon
  <2>9. TreeOf(r, s1, e)
    BY <2>6, Zenon
  <2>10. e \o t = Numbers(Len(a))
    <3>1. 0 \in Nat /\ ld \in Nat /\ lt \in Nat /\ 0 + ld = ld
      BY <2>2
    <3>2. Run(0, ld) \o Run(0 + ld, lt) = Run(0, ld + lt)
      BY <3>1, RunJoin, Zenon
    <3>3. Numbers(Len(a)) = Run(0, Len(a))
      BY <1>0, NumbersRun, Zenon
    <3> QED
      BY <2>2, <2>3, <3>1, <3>2, <3>3, Zenon
  <2> HIDE DEF y, l1, s1, e
  <2>11. VecIs([len |-> l1, shift |-> s1, root |-> r, tail |-> t], e \o t)
    BY <2>4, <2>5, <2>8, <2>9, LoadedOf, Zenon
  <2> QED
    BY <1>1, <2>7, <2>10, <2>11, Zenon
<1> QED
  BY <1>2, <1>3, Zenon

-----------------------------------------------------------------------------
(***************************************************************************)
(* Reading by index: gather and eq_vec.                                    *)
(***************************************************************************)
GatherWith(r, is, s, x) == IF is = <<>> THEN builder_new ELSE builder_push(r[s][x], get(x, Last(is)))
GatherBody(g, is) == [s \in Shifts |-> [x \in Vectors(s) |-> GatherWith(g[Front(is)], is, s, x)]]
Gathering == INSTANCE RecursiveFunctions WITH D <- Seq(Nat), Rank <- LenRank, Body <- GatherBody

LEMMA GatheredIs == \A is \in Seq(Nat) : gathered[is] = GatherBody(gathered, is)
<1>1. gathered = CHOOSE g : g = [is \in Seq(Nat) |-> GatherBody(g, is)]
  BY Zenon DEF gathered, GatherBody, GatherWith
<1>2. Gathering!Ranked
  <2>1. \A is \in Seq(Nat) : LenRank(is) \in Nat
    BY DEF LenRank
  <2> QED
    BY <2>1, Zenon DEF Gathering!Ranked
<1>3. Gathering!Local
  <2> SUFFICES ASSUME NEW g, NEW h, NEW is \in Seq(Nat), \A t \in Seq(Nat) : LenRank(t) < LenRank(is) => g[t] = h[t]
               PROVE  GatherBody(g, is) = GatherBody(h, is)
    BY Zenon DEF Gathering!Local
  <2>1. CASE is = <<>>
    BY <2>1, Zenon DEF GatherBody, GatherWith
  <2>2. CASE is # <<>>
    <3>1. g[Front(is)] = h[Front(is)]
      BY <2>2, FrontRank, Zenon
    <3> QED
      BY <3>1, Zenon DEF GatherBody
  <2> QED
    BY <2>1, <2>2
<1> QED
  BY <1>1, <1>2, <1>3, Gathering!RecursiveFunction, Zenon

Picked(a, is) == [i \in 1 .. Len(is) |-> a[is[i] + 1]]

LEMMA Gathered ==
    ASSUME NEW x, NEW a, VecIs(x, a), Indexable(x)
    PROVE  \A is \in Seq(0 .. Len(a) - 1) : Builder(gathered[is][x.shift][x], Picked(a, is))
<1> DEFINE S == 0 .. Len(a) - 1
           G(is) == gathered[is][x.shift][x]
           P == {is \in Seq(S) : Builder(G(is), Picked(a, is))}
<1>0. a \in Seq(Int) /\ Len(a) \in Nat
  BY VecIsFacts, Zenon
<1>1. x.shift \in Shifts /\ x \in Vectors(x.shift)
  <2>1. PICK d : Vec(x, d)
    BY VecIsVec, Zenon
  <2> QED
    BY <2>1, VecFacts, Zenon
<1>2. \A is \in Seq(S) : is \in Seq(Nat)
  BY <1>0
<1>3. ASSUME NEW is \in Seq(Nat) PROVE G(is) = GatherWith(gathered[Front(is)], is, x.shift, x)
  <2>1. gathered[is] = GatherBody(gathered, is)
    BY GatheredIs
  <2>2. GatherBody(gathered, is)[x.shift][x] = GatherWith(gathered[Front(is)], is, x.shift, x)
    BY <1>1, Zenon DEF GatherBody
  <2> QED
    BY <2>1, <2>2, Zenon
<1>4. <<>> \in P
  <2>1. <<>> \in Seq(S) /\ <<>> \in Seq(Nat)
    OBVIOUS
  <2>2. G(<<>>) = builder_new
    BY <1>3, <2>1, Zenon DEF GatherWith
  <2>3. Picked(a, <<>>) = <<>>
    BY DEF Picked
  <2> QED
    BY <2>1, <2>2, <2>3, BuilderNew, Zenon
<1>5. ASSUME NEW is \in Seq(S), NEW k \in S, is \in P PROVE is \o <<k>> \in P
  <2> DEFINE ks == is \o <<k>>
             e == a[k + 1]
  <2>1. ks \in Seq(S) /\ ks # <<>> /\ Len(ks) = Len(is) + 1 /\ Front(ks) = is /\ Last(ks) = k
    <3> HIDE DEF S
    <3> QED
      BY FrontOfConcat, Zenon
  <2>2. k \in Nat /\ k < Len(a)
    BY <1>0
  <2>3. get(x, k) = e /\ e \in Int
    BY <2>2, GetNth, Zenon
  <2>4. G(ks) = builder_push(G(is), e)
    BY <1>2, <1>3, <2>1, <2>3, Zenon DEF GatherWith
  <2>5. Builder(G(is), Picked(a, is))
    BY <1>5, Zenon
  <2>6. Builder(builder_push(G(is), e), Picked(a, is) \o <<e>>)
    <3> HIDE DEF e
    <3> QED
      BY <2>3, <2>5, BuilderPush, Zenon
  <2>7. Picked(a, ks) = Picked(a, is) \o <<e>>
    <3> DEFINE F(i) == a[ks[i] + 1]
               n == Len(is)
    <3>1. Len(ks) = n + 1 /\ n \in Nat
      BY <2>1
    <3>2. \A i \in 1 .. n : ks[i] = is[i]
      BY DEF S
    <3>3. ks[n + 1] = k
      BY DEF S
    <3>4. Picked(a, ks) = [i \in 1 .. n + 1 |-> F(i)]
      BY <3>1, Zenon DEF Picked
    <3>5. Picked(a, is) = [i \in 1 .. n |-> F(i)]
      BY <3>2, Zenon DEF Picked
    <3>6. F(n + 1) = e
      BY <3>3, Zenon
    <3> HIDE DEF F, n, e
    <3>7. [j \in 1 .. n + 1 |-> F(j)] = [j \in 1 .. n |-> F(j)] \o <<F(n + 1)>>
      BY <3>1
    <3> QED
      BY <3>4, <3>5, <3>6, <3>7, Zenon
  <2> QED
    BY <2>1, <2>4, <2>6, <2>7, Zenon
<1>6. \A is \in Seq(S) : is \in P
  <2> HIDE DEF P, S
  <2> QED
    BY <1>4, <1>5, SeqInduct, Zenon
<1> QED
  BY <1>6, Zenon

LEMMA GatherVec ==
    ASSUME NEW x, NEW a, VecIs(x, a), Indexable(x), NEW y, NEW is \in Seq(0 .. Len(a) - 1), VecIs(y, is)
    PROVE  VecIs(gather(x, y), Picked(a, is))
<1>1. to_array(y) = is
  BY VecIsFacts, Zenon
<1>2. Builder(gathered[is][x.shift][x], Picked(a, is))
  BY Gathered, Zenon
<1>3. VecIs(builder_freeze(gathered[is][x.shift][x]), Picked(a, is))
  BY <1>2, BuilderFreeze, Zenon
<1> QED
  BY <1>1, <1>3, Zenon DEF gather

-----------------------------------------------------------------------------
(***************************************************************************)
(* The system.  The invariant: both vectors are what a sequence of that    *)
(* length is represented by, a well-formed tree and a tail.                *)
(***************************************************************************)
Holds(x) == x.len \in Nat /\ VecIs(x, Numbers(x.len))

VectorsHold == Holds(v) /\ Holds(w)

LEMMA HoldsOf ==
    ASSUME NEW y, NEW n \in Nat, VecIs(y, Numbers(n))
    PROVE  Holds(y) /\ y.len = n
<1>1. y.len = Len(Numbers(n))
  BY VecIsFacts, Zenon
<1>2. Len(Numbers(n)) = n
  BY NumbersRun, Zenon
<1> QED
  BY <1>1, <1>2, Zenon DEF Holds

LEMMA NumbersEmpty == Numbers(0) = <<>>
<1>1. Numbers(0) \in Seq(Int) /\ Len(Numbers(0)) = 0
  BY NumbersRun
<1> QED
  BY <1>1, EmptySeq

LEMMA NumbersNextIs ==
    ASSUME NEW n \in Nat
    PROVE  /\ Numbers(n) \o <<n + 1>> = Numbers(n + 1)
           /\ Numbers(n + 1) # <<>> /\ Front(Numbers(n + 1)) = Numbers(n)
<1> DEFINE F(i) == i
<1>1. Numbers(n + 1) = [i \in 1 .. n + 1 |-> F(i)] /\ Numbers(n) = [i \in 1 .. n |-> F(i)] /\ F(n + 1) = n + 1
  BY Zenon DEF Numbers
<1> HIDE DEF F
<1>2. [i \in 1 .. n + 1 |-> F(i)] = [i \in 1 .. n |-> F(i)] \o <<F(n + 1)>>
  OBVIOUS
<1>3. Numbers(n) \o <<n + 1>> = Numbers(n + 1)
  BY <1>1, <1>2, Zenon
<1>4. Numbers(n) \in Seq(Int) /\ n + 1 \in Int
  BY NumbersRun
<1>5. Numbers(n) \o <<n + 1>> # <<>> /\ Front(Numbers(n) \o <<n + 1>>) = Numbers(n)
  BY <1>4, FrontOfConcat, Zenon
<1> QED
  BY <1>3, <1>5, Zenon

\* Where drop_last leaves the numbers.
LEMMA DropNumbers ==
    ASSUME NEW n \in Nat
    PROVE  /\ (IF n = 0 THEN 0 ELSE n - 1) \in Nat
           /\ (IF Numbers(n) = <<>> THEN <<>> ELSE Front(Numbers(n))) = Numbers(IF n = 0 THEN 0 ELSE n - 1)
<1>1. CASE n = 0
  BY <1>1, NumbersEmpty
<1>2. CASE n # 0
  <2> DEFINE m == n - 1
  <2>1. m \in Nat /\ m + 1 = n
    BY <1>2
  <2> HIDE DEF m
  <2>2. Numbers(m + 1) # <<>> /\ Front(Numbers(m + 1)) = Numbers(m)
    BY <2>1, NumbersNextIs, Zenon
  <2> QED
    BY <1>2, <2>1, <2>2, Zenon DEF m
<1> QED
  BY <1>1, <1>2, Zenon

LEMMA DropHolds ==
    ASSUME NEW x, Holds(x)
    PROVE  VecIs(drop_last(x), Numbers(IF x.len = 0 THEN 0 ELSE x.len - 1))
<1> DEFINE n == x.len
           m == IF n = 0 THEN 0 ELSE n - 1
           f == IF Numbers(n) = <<>> THEN <<>> ELSE Front(Numbers(n))
<1>1. n \in Nat /\ VecIs(x, Numbers(n))
  BY Zenon DEF Holds
<1> HIDE DEF n
<1>2. f = Numbers(m)
  BY <1>1, DropNumbers, Zenon
<1>3. VecIs(drop_last(x), f)
  BY <1>1, DropVec, Zenon
<1> HIDE DEF f, m
<1>4. VecIs(drop_last(x), Numbers(m))
  BY <1>2, <1>3, Zenon
<1> QED
  BY <1>4, Zenon DEF m, n

LEMMA SliceHolds ==
    ASSUME NEW x, Holds(x), NEW s \in 0 .. x.len, NEW e \in 0 .. x.len, s <= e
    PROVE  /\ VecIs(slice(x, s, e), SubSeq(Numbers(x.len), s + 1, e))
           /\ Len(SubSeq(Numbers(x.len), s + 1, e)) = e - s /\ e - s \in Nat
<1> DEFINE n == x.len
           a == Numbers(n)
<1>1. n \in Nat /\ VecIs(x, a)
  BY Zenon DEF Holds
<1>2. Len(a) = n /\ a \in Seq(Int)
  BY <1>1, NumbersRun, Zenon
<1>3. s \in Nat /\ e \in Nat /\ e <= n /\ e - s \in Nat /\ s <= e
  <2>1. s \in 0 .. n /\ e \in 0 .. n /\ s <= e
    BY Zenon
  <2> HIDE DEF n
  <2> QED
    BY <1>1, <2>1
<1> HIDE DEF n, a
<1>4. e <= Len(a)
  BY <1>2, <1>3, Zenon
<1>5. VecIs(slice(x, s, e), SubSeq(a, s + 1, e))
  BY <1>1, <1>3, <1>4, SliceVec, Zenon
<1>6. Len(SubSeq(a, s + 1, e)) = e - s
  <2>1. a \in Seq(Int) /\ s \in Nat /\ e \in Nat /\ s <= e /\ e <= Len(a)
    BY <1>2, <1>3, <1>4, Zenon
  <2> QED
    BY <2>1, PartType, Zenon
<1> QED
  BY <1>3, <1>5, <1>6, Zenon DEF a, n

LEMMA NumberedHolds ==
    ASSUME NEW x, NEW a, VecIs(x, a)
    PROVE  Holds(Numbered(x))
<1>1. Len(a) \in Nat
  BY VecIsFacts, Zenon
<1>2. VecIs(Numbered(x), Numbers(Len(a)))
  BY NumberedVec, Zenon
<1> QED
  BY <1>1, <1>2, HoldsOf, Zenon

LEMMA VectorsHoldInit == Init => VectorsHold
<1>1. Holds(EmptyVec)
  <2>1. EmptyVec.len = 0 /\ 0 \in Nat
    BY EmptyIs
  <2> QED
    BY <2>1, NumbersEmpty, Zenon DEF Holds, VecIs
<1> QED
  BY <1>1, Zenon DEF Init, VectorsHold

LEMMA VectorsHoldNext == VectorsHold /\ [Next]_vars => VectorsHold'
<1> SUFFICES ASSUME VectorsHold, [Next]_vars PROVE VectorsHold'
  OBVIOUS
<1>0. Holds(v) /\ Holds(w)
  BY Zenon DEF VectorsHold
<1> SUFFICES Holds(v') /\ Holds(w')
  BY Zenon DEF VectorsHold, Holds
<1>1. CASE Push
  <2> DEFINE n == v.len
  <2>1. v' = push(v, n + 1) /\ w' = w
    BY <1>1, Zenon DEF Push
  <2>2. n \in Nat /\ VecIs(v, Numbers(n))
    BY <1>0, Zenon DEF Holds
  <2> HIDE DEF n
  <2>3. n + 1 \in Int /\ n + 1 \in Nat
    BY <2>2
  <2>4. VecIs(push(v, n + 1), Numbers(n) \o <<n + 1>>)
    BY <2>2, <2>3, PushIs, Zenon
  <2>5. VecIs(push(v, n + 1), Numbers(n + 1))
    BY <2>2, <2>4, NumbersNextIs, Zenon
  <2>6. Holds(push(v, n + 1))
    BY <2>3, <2>5, HoldsOf, Zenon
  <2> QED
    BY <1>0, <2>1, <2>6, Zenon
<1>2. CASE Concat
  <2>1. v' = Numbered(concat(v, w)) /\ w' = w
    BY <1>2, Zenon DEF Concat
  <2>2. VecIs(v, Numbers(v.len)) /\ VecIs(w, Numbers(w.len))
    BY <1>0, Zenon DEF Holds
  <2>3. VecIs(concat(v, w), Numbers(v.len) \o Numbers(w.len))
    BY <2>2, ConcatVec, Zenon
  <2>4. Holds(Numbered(concat(v, w)))
    BY <2>3, NumberedHolds, Zenon
  <2> QED
    BY <1>0, <2>1, <2>4, Zenon
<1>3. CASE Slice
  <2>1. PICK s, e \in 0 .. v.len : s <= e /\ v' = Numbered(slice(v, s, e))
    BY <1>3, Zenon DEF Slice
  <2>2. w' = w
    BY <1>3, Zenon DEF Slice
  <2>3. VecIs(slice(v, s, e), SubSeq(Numbers(v.len), s + 1, e))
    BY <1>0, <2>1, SliceHolds, Zenon
  <2>4. Holds(Numbered(slice(v, s, e)))
    BY <2>3, NumberedHolds, Zenon
  <2> QED
    BY <1>0, <2>1, <2>2, <2>4, Zenon
<1>4. CASE DropLast
  <2> DEFINE n == v.len
             m == IF n = 0 THEN 0 ELSE n - 1
  <2>1. v' = drop_last(v) /\ w' = w
    BY <1>4, Zenon DEF DropLast
  <2>2. n \in Nat
    BY <1>0, Zenon DEF Holds
  <2>3. m \in Nat
    <3> HIDE DEF n
    <3> QED
      BY <2>2, DropNumbers, Zenon
  <2>4. VecIs(drop_last(v), Numbers(m))
    BY <1>0, DropHolds, Zenon
  <2> HIDE DEF m
  <2>5. Holds(drop_last(v))
    BY <2>3, <2>4, HoldsOf, Zenon
  <2> QED
    BY <1>0, <2>1, <2>5, Zenon
<1>5. CASE Collect
  <2>1. PICK n \in 0 .. MaxLen : v' = from_array(Numbers(n))
    BY <1>5, Zenon DEF Collect
  <2>2. w' = w
    BY <1>5, Zenon DEF Collect
  <2>3. n \in Nat
    BY BoundsAssumption
  <2>4. VecIs(from_array(Numbers(n)), Numbers(n))
    BY <2>3, NumbersRun, FromArrayIs, Zenon
  <2>5. Holds(from_array(Numbers(n)))
    BY <2>3, <2>4, HoldsOf, Zenon
  <2> QED
    BY <1>0, <2>1, <2>2, <2>5, Zenon
<1>6. CASE Share
  BY <1>0, <1>6, Zenon DEF Share
<1>7. CASE Swap
  BY <1>0, <1>7, Zenon DEF Swap
<1>8. CASE UNCHANGED vars
  <2>1. v' = v /\ w' = w
    BY <1>8 DEF vars
  <2> QED
    BY <1>0, <2>1, Zenon
<1> QED
  BY <1>1, <1>2, <1>3, <1>4, <1>5, <1>6, <1>7, <1>8, Zenon DEF Next

\* However the two vectors were made, they are the representation of a
\* sequence of their length: the inductive invariant.
THEOREM VectorsHoldAlways == Spec => []VectorsHold
BY VectorsHoldInit, VectorsHoldNext, PTL DEF Spec

\* The shape of a vector that represents a.
Shaped(x) ==
  IF x.root = Null THEN x.shift = 0 ELSE x.shift \in Inner /\ x.root \in WellFormed[x.shift]

LEMMA VecIsShaped ==
    ASSUME NEW x, NEW a, VecIs(x, a)
    PROVE  Shaped(x) /\ (a # <<>> => Len(x.tail) \in 1 .. BF)
<1>1. PICK d : Vec(x, d)
  BY VecIsVec, Zenon
<1>2. TreeOf(x.root, x.shift, d)
  BY <1>1, Zenon DEF Vec
<1>3. Shaped(x)
  BY <1>2, Zenon DEF TreeOf, Shaped
<1>4. a # <<>> => Len(x.tail) \in 1 .. BF
  BY LoadedFacts, Zenon DEF VecIs
<1> QED
  BY <1>3, <1>4, Zenon

LEMMA HoldsFacts ==
    ASSUME NEW x, Holds(x)
    PROVE  /\ x.len \in Nat /\ VecIs(x, Numbers(x.len)) /\ to_array(x) = Numbers(x.len)
           /\ Numbers(x.len) \in Seq(Int) /\ Len(Numbers(x.len)) = x.len
<1>1. x.len \in Nat /\ VecIs(x, Numbers(x.len))
  BY Zenon DEF Holds
<1> QED
  BY <1>1, VecIsFacts, NumbersRun, Zenon

LEMMA TreeExactFrom == VectorsHold => TreeExact
<1> SUFFICES ASSUME VectorsHold PROVE TreeExact
  OBVIOUS
<1> DEFINE n == v.len
<1>1. n \in Nat /\ VecIs(v, Numbers(n)) /\ to_array(v) = Numbers(n) /\ Len(Numbers(n)) = n
  BY HoldsFacts, Zenon DEF VectorsHold
<1>2. Shaped(v) /\ (Numbers(n) # <<>> => Len(v.tail) \in 1 .. BF)
  BY <1>1, VecIsShaped, Zenon
<1>3. n > 0 => Numbers(n) # <<>>
  <2> SUFFICES ASSUME n > 0, Numbers(n) = <<>> PROVE FALSE
    OBVIOUS
  <2>1. Len(<<>>) = 0
    OBVIOUS
  <2>2. n = 0
    BY <1>1, <2>1, Zenon
  <2> QED
    BY <2>2
<1> QED
  BY <1>1, <1>2, <1>3, Zenon DEF TreeExact, Shaped

LEMMA ConcatFrom == VectorsHold => ConcatIsAppend
<1> SUFFICES ASSUME VectorsHold PROVE ConcatIsAppend
  OBVIOUS
<1> DEFINE c == concat(v, w)
           x == Numbers(v.len)
           y == Numbers(w.len)
           a == x \o y
<1>1. VecIs(v, x) /\ x \in Seq(Int) /\ Len(x) = v.len
  BY HoldsFacts, Zenon DEF VectorsHold
<1>2. VecIs(w, y) /\ y \in Seq(Int) /\ Len(y) = w.len
  BY HoldsFacts, Zenon DEF VectorsHold
<1>3. VecIs(c, a)
  BY <1>1, <1>2, ConcatVec, Zenon
<1>4. to_array(c) = a /\ c.len = Len(a)
  BY <1>3, VecIsFacts, Zenon
<1>5. Len(a) = Len(x) + Len(y)
  <2>1. x \in Seq(Int) /\ y \in Seq(Int)
    BY <1>1, <1>2, Zenon
  <2> HIDE DEF x, y
  <2> QED
    BY <2>1
<1>6. Shaped(c)
  BY <1>3, VecIsShaped, Zenon
<1>7. c.len = v.len + w.len
  BY <1>1, <1>2, <1>4, <1>5, Zenon
<1> HIDE DEF c
<1>8. /\ to_array(c) = Numbers(v.len) \o Numbers(w.len)
      /\ c.len = v.len + w.len
      /\ c.root # Null => c.shift \in Inner /\ c.root \in WellFormed[c.shift]
  BY <1>4, <1>6, <1>7, Zenon DEF Shaped
<1> QED
  BY <1>8, Zenon DEF ConcatIsAppend, Appended, c

LEMMA SliceFrom == VectorsHold => SliceIsSubSeq
<1> SUFFICES ASSUME VectorsHold PROVE SliceIsSubSeq
  OBVIOUS
<1>0. Holds(v)
  BY Zenon DEF VectorsHold
<1>1. ASSUME NEW s \in 0 .. v.len, NEW e \in 0 .. v.len, s <= e
      PROVE  to_array(slice(v, s, e)) = SubSeq(Numbers(v.len), s + 1, e) /\ slice(v, s, e).len = e - s
  <2>1. /\ VecIs(slice(v, s, e), SubSeq(Numbers(v.len), s + 1, e))
        /\ Len(SubSeq(Numbers(v.len), s + 1, e)) = e - s
    BY <1>0, <1>1, SliceHolds, Zenon
  <2> QED
    BY <2>1, VecIsFacts, Zenon
<1>2. to_array(drop_last(v)) = Numbers(IF v.len = 0 THEN 0 ELSE v.len - 1)
  <2> DEFINE a == Numbers(IF v.len = 0 THEN 0 ELSE v.len - 1)
  <2>1. VecIs(drop_last(v), a)
    BY <1>0, DropHolds, Zenon
  <2> HIDE DEF a
  <2>2. to_array(drop_last(v)) = a
    BY <2>1, VecIsFacts, Zenon
  <2> QED
    BY <2>2, Zenon DEF a
<1> QED
  BY <1>1, <1>2, Zenon DEF SliceIsSubSeq

LEMMA BuilderKeepsFrom == VectorsHold => BuilderKeepsAll
<1> SUFFICES ASSUME VectorsHold PROVE BuilderKeepsAll
  OBVIOUS
<1> DEFINE x == Numbers(v.len)
           y == Numbers(w.len)
           b0 == builder_from(v)
           b1 == builder_push(b0, 0)
           b2 == builder_extend(b1, w)
           f == builder_freeze(b2)
           p == x \o <<0>>
           a == p \o y
<1>1. VecIs(v, x) /\ x \in Seq(Int) /\ Len(x) = v.len /\ v.len \in Nat
  BY HoldsFacts, Zenon DEF VectorsHold
<1>2. VecIs(w, y) /\ y \in Seq(Int) /\ Len(y) = w.len /\ w.len \in Nat
  BY HoldsFacts, Zenon DEF VectorsHold
<1>3. Builder(b0, x)
  BY <1>1, BuilderFrom, Zenon
<1>4. Builder(b1, p)
  <2>1. 0 \in Int
    OBVIOUS
  <2> QED
    BY <1>3, <2>1, BuilderPush, Zenon
<1>5. Builder(b2, a)
  BY <1>2, <1>4, BuilderExtend, Zenon
<1>6. VecIs(f, a)
  BY <1>5, BuilderFreeze, Zenon
<1>7. to_array(f) = a /\ f.len = Len(a)
  BY <1>6, VecIsFacts, Zenon
<1>8. Append(x, 0) = p /\ Len(a) = (Len(x) + 1) + Len(y) /\ a # <<>>
  <2> HIDE DEF x, y
  <2>1. p \in Seq(Int) /\ Len(p) = Len(x) + 1 /\ Append(x, 0) = p /\ p # <<>>
    BY <1>1
  <2> HIDE DEF p
  <2>2. Len(a) = Len(p) + Len(y)
    <3>1. p \in Seq(Int) /\ y \in Seq(Int)
      BY <1>2, <2>1, Zenon
    <3> QED
      BY <3>1
  <2>3. a # <<>>
    BY <1>2, <2>1, EmptyNotNonempty, Zenon
  <2> QED
    BY <2>1, <2>2, <2>3, Zenon DEF p
<1>9. Len(f.tail) \in 1 .. BF
  BY <1>6, <1>8, VecIsShaped, Zenon
<1>10. f.len = (v.len + 1) + w.len
  BY <1>1, <1>2, <1>7, <1>8, Zenon
<1>11. to_array(f) = Append(x, 0) \o y
  BY <1>7, <1>8, Zenon
<1> QED
  BY <1>9, <1>10, <1>11, Zenon DEF BuilderKeepsAll, Kept

LEMMA ReadsFrom == VectorsHold => ReadsNth
<1> SUFFICES ASSUME VectorsHold, NEW i \in 0 .. (v.len - 1)
             PROVE  /\ At(get_leaf(v, i)[1], get_leaf(v, i)[2]) = i + 1
                    /\ Indexable(v) => get(v, i) = i + 1
  BY Zenon DEF ReadsNth
<1> DEFINE n == v.len
           a == Numbers(n)
<1>1. n \in Nat /\ VecIs(v, a) /\ a \in Seq(Int) /\ Len(a) = n
  BY HoldsFacts, Zenon DEF VectorsHold
<1>2. i \in Nat /\ i < n /\ i + 1 \in 1 .. n
  <2>1. i \in 0 .. (n - 1)
    OBVIOUS
  <2> HIDE DEF n
  <2> QED
    BY <1>1, <2>1
<1>3. a[i + 1] = i + 1
  BY <1>1, <1>2, NumbersRun, Zenon
<1>4. LeafOf(get_leaf(v, i), a, i)
  BY <1>1, <1>2, GetLeaf, Zenon
<1>5. At(get_leaf(v, i)[1], get_leaf(v, i)[2]) = a[i + 1]
  BY <1>2, <1>4, ReadLeaf, Zenon
<1>6. Indexable(v) => get(v, i) = a[i + 1]
  BY <1>1, <1>2, GetNth, Zenon
<1> QED
  BY <1>3, <1>5, <1>6, Zenon

LEMMA WritesFrom == VectorsHold => WritesNth
<1> SUFFICES ASSUME VectorsHold, NEW i \in 0 .. (v.len - 1)
             PROVE  /\ to_array(set(v, i, 0)) = [Numbers(v.len) EXCEPT ![i + 1] = 0]
                    /\ set_in_place(v, i, 0) = set(v, i, 0)
  BY Zenon DEF WritesNth
<1> DEFINE n == v.len
           a == Numbers(n)
<1>1. n \in Nat /\ VecIs(v, a) /\ a \in Seq(Int) /\ Len(a) = n
  BY HoldsFacts, Zenon DEF VectorsHold
<1>2. i \in Nat /\ i < n /\ 0 \in Int
  <2>1. i \in 0 .. (n - 1)
    OBVIOUS
  <2> HIDE DEF n
  <2> QED
    BY <1>1, <2>1
<1>3. VecIs(set(v, i, 0), Put(a, i + 1, 0)) /\ set_in_place(v, i, 0) = set(v, i, 0)
  BY <1>1, <1>2, SetVec, Zenon
<1>4. to_array(set(v, i, 0)) = Put(a, i + 1, 0)
  BY <1>3, VecIsFacts, Zenon
<1> QED
  BY <1>3, <1>4, Zenon DEF Put

LEMMA GatherBackwards ==
    ASSUME NEW x, Holds(x), Indexable(x)
    PROVE  to_array(gather(x, from_array([i \in 1 .. x.len |-> x.len - i]))) = [i \in 1 .. x.len |-> x.len + 1 - i]
<1> DEFINE n == x.len
           a == Numbers(n)
           is == [i \in 1 .. n |-> n - i]
           y == from_array(is)
<1>1. n \in Nat /\ VecIs(x, a) /\ Len(a) = n
  BY HoldsFacts, Zenon
<1>2. is \in Seq(0 .. n - 1) /\ is \in Seq(Int) /\ Len(is) = n /\ \A i \in 1 .. n : is[i] = n - i
  <2> HIDE DEF n
  <2>1. n \in Nat
    BY <1>1, Zenon
  <2> QED
    BY <2>1
<1> HIDE DEF is, n
<1>3. VecIs(y, is)
  BY <1>2, FromArrayIs, Zenon
<1>4. is \in Seq(0 .. Len(a) - 1)
  BY <1>1, <1>2, Zenon
<1> HIDE DEF a, y
<1>5. VecIs(gather(x, y), Picked(a, is))
  BY <1>1, <1>3, <1>4, GatherVec, Zenon
<1>6. to_array(gather(x, y)) = Picked(a, is)
  BY <1>5, VecIsFacts, Zenon
<1>7. Picked(a, is) = [i \in 1 .. n |-> n + 1 - i]
  <2>1. ASSUME NEW i \in 1 .. n PROVE a[is[i] + 1] = n + 1 - i
    <3> DEFINE k == (n - i) + 1
    <3>1. k \in 1 .. n /\ k = n + 1 - i
      BY <1>1
    <3>2. is[i] + 1 = k
      BY <1>2, Zenon
    <3> HIDE DEF k
    <3>3. a[k] = k
      BY <1>1, <3>1, NumbersRun, Zenon DEF a
    <3> QED
      BY <3>1, <3>2, <3>3, Zenon
  <2> QED
    BY <1>2, <2>1, Zenon DEF Picked
<1> QED
  BY <1>6, <1>7, Zenon DEF y, is, n

LEMMA EqualByLength ==
    ASSUME NEW x, NEW y, Holds(x), Holds(y), Indexable(x), Indexable(y)
    PROVE  eq_vec(x, y) <=> x.len = y.len
<1> DEFINE n == x.len
<1>1. ASSUME NEW z, Holds(z), Indexable(z), z.len = n, NEW i \in 0 .. (n - 1) PROVE get(z, i) = i + 1
  <2>0. n \in Nat
    BY HoldsFacts, Zenon
  <2>1. VecIs(z, Numbers(n)) /\ Len(Numbers(n)) = n
    BY <1>1, HoldsFacts, Zenon
  <2>2. i \in Nat /\ i < n /\ i + 1 \in 1 .. n
    <3> HIDE DEF n
    <3> QED
      BY <2>0
  <2>3. get(z, i) = Numbers(n)[i + 1]
    BY <1>1, <2>1, <2>2, GetNth, Zenon
  <2> QED
    BY <2>0, <2>2, <2>3, NumbersRun, Zenon
<1>2. ASSUME x.len = y.len PROVE eq_vec(x, y)
  <2>1. \A i \in 0 .. (x.len - 1) : get(x, i) = get(y, i)
    BY <1>1, <1>2, Zenon
  <2> QED
    BY <1>2, <2>1, Zenon DEF eq_vec
<1>3. ASSUME eq_vec(x, y) PROVE x.len = y.len
  BY <1>3, Zenon DEF eq_vec
<1> QED
  BY <1>2, <1>3, Zenon

LEMMA ReadersFrom == VectorsHold => ReadersIgnoreShape
<1> SUFFICES ASSUME VectorsHold PROVE ReadersIgnoreShape
  OBVIOUS
<1>0. Holds(v) /\ Holds(w)
  BY Zenon DEF VectorsHold
<1>1. Indexable(v) =>
        to_array(gather(v, from_array([i \in 1 .. v.len |-> v.len - i]))) = [i \in 1 .. v.len |-> v.len + 1 - i]
  BY <1>0, GatherBackwards, Zenon
<1>2. Indexable(v) /\ Indexable(w) => (eq_vec(v, w) <=> v.len = w.len)
  BY <1>0, EqualByLength, Zenon
<1> QED
  BY <1>1, <1>2, Zenon DEF ReadersIgnoreShape

\* Every reachable vector is a well-formed relaxed tree with exact sizes and
\* a tail that is not empty, for every branching factor and any lengths.
THEOREM TreeExactHolds == Spec => []TreeExact
BY VectorsHoldAlways, TreeExactFrom, PTL

\* concat of any two reachable vectors keeps all elements in order and gives
\* a well-formed tree, whatever shapes the operations before left behind.
THEOREM ConcatIsAppendHolds == Spec => []ConcatIsAppend
BY VectorsHoldAlways, ConcatFrom, PTL

\* slice cuts out exactly its range, drop_last exactly the last element.
THEOREM SliceIsSubSeqHolds == Spec => []SliceIsSubSeq
BY VectorsHoldAlways, SliceFrom, PTL

\* builder_freeze yields what was put into the builder, whatever the fill of
\* its buffer when builder_push and builder_extend find it.
THEOREM BuilderKeepsAllHolds == Spec => []BuilderKeepsAll
BY VectorsHoldAlways, BuilderKeepsFrom, PTL

\* An index names the element at its place in every tree: get_leaf, get where
\* its short cut is meant, gather, eq_vec, set and set_in_place.
THEOREM IndexesNthHolds == Spec => []IndexesNth
<1>1. VectorsHold => IndexesNth
  BY ReadsFrom, ReadersFrom, WritesFrom, Zenon DEF IndexesNth
<1> QED
  BY <1>1, VectorsHoldAlways, PTL
=============================================================================
