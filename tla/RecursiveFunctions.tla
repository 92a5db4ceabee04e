------------------------- MODULE RecursiveFunctions -------------------------
(***************************************************************************)
(* Induction and recursion, in the form that the proofs about the runtime  *)
(* use: induction over a set of numbers, and the existence of a function   *)
(* on D whose value Body(g, s) at s depends only on its values at elements *)
(* of a smaller rank.  D, Rank and Body are substituted by INSTANCE.       *)
(***************************************************************************)
EXTENDS Integers, TLAPS, WellFoundedInduction

CONSTANTS D, Rank(_), Body(_, _)

\* A nonempty set of numbers has a least element.
LEMMA LeastNat ==
    ASSUME NEW T \in SUBSET Nat, T # {}
    PROVE  \E n \in T : \A m \in T : n <= m
<1>1. PICK n \in T : \A m \in T : ~(<<m, n>> \in OpToRel(<, Nat))
  BY NatLessThanWellFounded, WFMin, Zenon
<1>2. \A m \in T : ~(m < n)
  BY <1>1, Zenon DEF OpToRel
<1> QED
  BY <1>2

LEMMA NatInduct ==
    ASSUME NEW S, 0 \in S, \A n \in Nat : n \in S => n + 1 \in S
    PROVE  \A n \in Nat : n \in S
<1> DEFINE T == Nat \ S
<1> SUFFICES ASSUME T # {} PROVE FALSE
  OBVIOUS
<1>1. PICK n \in T : \A m \in T : n <= m
  BY LeastNat
<1>2. n # 0 /\ n - 1 \in Nat
  BY <1>1
<1>3. n - 1 \in S
  BY <1>1, <1>2
<1> QED
  BY <1>1, <1>2, <1>3

\* Ranks are numbers and Body looks at smaller ranks only.
Ranked == \A s \in D : Rank(s) \in Nat
Local == \A g, h : \A s \in D :
           (\A t \in D : Rank(t) < Rank(s) => g[t] = h[t]) => Body(g, s) = Body(h, s)

\* The elements below rank n, and a function that is right on them.
Up(n) == {s \in D : Rank(s) < n}
Approx(g, n) == g = [s \in Up(n) |-> Body(g, s)]

LEMMA ApproxAgree ==
    ASSUME Ranked, Local, NEW m \in Nat, NEW n \in Nat, m <= n,
           NEW g, Approx(g, m), NEW h, Approx(h, n)
    PROVE  \A s \in Up(m) : g[s] = h[s]
<1> DEFINE Bad == {r \in Nat : \E s \in Up(m) : Rank(s) = r /\ g[s] # h[s]}
<1> SUFFICES ASSUME NEW s0 \in Up(m), g[s0] # h[s0] PROVE FALSE
  OBVIOUS
<1>1. Bad # {}
  BY DEF Ranked, Up
<1>2. PICK r \in Bad : \A q \in Bad : r <= q
  BY <1>1, LeastNat
<1>3. PICK s \in Up(m) : Rank(s) = r /\ g[s] # h[s]
  BY <1>2
<1>4. s \in D /\ s \in Up(n) /\ Rank(s) \in Nat /\ Rank(s) < m
  BY <1>3 DEF Ranked, Up
<1>5. ASSUME NEW t \in D, Rank(t) < Rank(s) PROVE g[t] = h[t]
  <2>1. Rank(t) \in Nat /\ t \in Up(m)
    BY <1>4, <1>5 DEF Ranked, Up
  <2>2. Rank(t) \notin Bad
    BY <1>2, <1>3, <1>4, <1>5, <2>1
  <2> QED
    BY <2>1, <2>2
<1>6. Body(g, s) = Body(h, s)
  BY <1>4, <1>5, Zenon DEF Local
<1>7. g[s] = Body(g, s)
  BY <1>3, Zenon DEF Approx
<1>8. h[s] = Body(h, s)
  BY <1>4, Zenon DEF Approx
<1> QED
  BY <1>3, <1>6, <1>7, <1>8, Zenon

LEMMA ApproxExists ==
    ASSUME Ranked, Local
    PROVE  \A n \in Nat : \E g : Approx(g, n)
<1> DEFINE S == {n \in Nat : \E g : Approx(g, n)}
<1>1. 0 \in S
  <2> DEFINE e == [s \in Up(0) |-> 0]
  <2>1. Up(0) = {}
    BY DEF Ranked, Up
  <2>2. e = [s \in Up(0) |-> Body(e, s)]
    BY <2>1, Zenon
  <2> QED
    BY <2>2, Zenon DEF Approx
<1>2. ASSUME NEW n \in Nat, n \in S PROVE n + 1 \in S
  <2>1. PICK g : Approx(g, n)
    BY <1>2
  <2> DEFINE h == [s \in Up(n + 1) |-> Body(g, s)]
  <2>2. ASSUME NEW s \in Up(n + 1) PROVE Body(g, s) = Body(h, s)
    <3>1. s \in D /\ Rank(s) \in Nat /\ Rank(s) <= n
      BY DEF Ranked, Up
    <3>2. ASSUME NEW t \in D, Rank(t) < Rank(s) PROVE g[t] = h[t]
      <4>1. t \in Up(n) /\ t \in Up(n + 1)
        BY <3>1, <3>2 DEF Ranked, Up
      <4>2. g[t] = Body(g, t)
        BY <2>1, <4>1, Zenon DEF Approx
      <4>3. h[t] = Body(g, t)
        BY <4>1, Zenon
      <4> QED
        BY <4>2, <4>3, Zenon
    <3> QED
      BY <3>1, <3>2, Zenon DEF Local
  <2>3. h = [s \in Up(n + 1) |-> Body(h, s)]
    BY <2>2, Zenon
  <2> HIDE DEF h
  <2>4. \E x : Approx(x, n + 1)
    BY <2>3, Zenon DEF Approx
  <2> QED
    BY <2>4
<1> HIDE DEF S
<1>3. \A n \in Nat : n \in S
  BY <1>1, <1>2, NatInduct
<1> QED
  BY <1>3 DEF S

(* The function f[s \in D] == Body(f, s) is what its definition says.      *)
THEOREM RecursiveFunction ==
    ASSUME Ranked, Local, NEW f, f = CHOOSE g : g = [s \in D |-> Body(g, s)]
    PROVE  \A s \in D : f[s] = Body(f, s)
<1> DEFINE A(s) == CHOOSE g : Approx(g, Rank(s) + 1)
           G == [s \in D |-> A(s)[s]]
<1>1. ASSUME NEW s \in D PROVE Approx(A(s), Rank(s) + 1) /\ s \in Up(Rank(s) + 1)
  <2>1. Rank(s) + 1 \in Nat /\ Rank(s) < Rank(s) + 1
    BY DEF Ranked
  <2>2. \E g : Approx(g, Rank(s) + 1)
    BY <2>1, ApproxExists, Zenon
  <2> QED
    BY <2>1, <2>2, Zenon DEF Up
<1>2. ASSUME NEW s \in D PROVE A(s)[s] = Body(G, s)
  <2>1. A(s)[s] = Body(A(s), s)
    BY <1>1, Zenon DEF Approx
  <2>2. ASSUME NEW t \in D, Rank(t) < Rank(s) PROVE A(s)[t] = G[t]
    <3>1. Rank(t) + 1 \in Nat /\ Rank(s) + 1 \in Nat /\ Rank(t) + 1 <= Rank(s) + 1
      BY <2>2 DEF Ranked
    <3>2. A(t)[t] = A(s)[t]
      <4> HIDE DEF A
      <4> QED
        BY <1>1, <3>1, ApproxAgree
    <3> QED
      BY <3>2, Zenon
  <2>3. Body(A(s), s) = Body(G, s)
    BY <2>2, Zenon DEF Local
  <2> QED
    BY <2>1, <2>3, Zenon
<1>3. G = [s \in D |-> Body(G, s)]
  BY <1>2, Zenon
<1> HIDE DEF G
<1>4. f = [s \in D |-> Body(f, s)]
  BY <1>3, Zenon
<1> QED
  BY <1>4, Zenon
=============================================================================
