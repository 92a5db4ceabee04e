------------------------- MODULE RuntimeLibProofs -------------------------
(***************************************************************************)
(* The string builder, the string functions and the sorts of the runtime,  *)
(* for every set of bytes, every bound and arrays of any length.  For the  *)
(* sorts: how often a number stands in a part of an array, then, by        *)
(* induction on what a loop has left to do, the merge, the pass and the    *)
(* passes.                                                                 *)
(***************************************************************************)
EXTENDS NativeSorts, TLAPS, FiniteSetTheorems, WellFoundedInduction

Byte == Bytes \cup {0}

-----------------------------------------------------------------------------
(* Arrays.                                                                 *)

LEMMA BytesAreInt == Bytes \subseteq Int /\ Byte \subseteq Int
BY LibAssumption DEF Byte

LEMMA ZerosType ==
    ASSUME NEW n \in Nat
    PROVE  Zeros(n) \in Seq(Byte) /\ Len(Zeros(n)) = n
<1> DEFINE z == [i \in 1 .. n |-> 0]
<1>1. z \in Seq(Byte) /\ Len(z) = n
  BY DEF Byte
<1> HIDE DEF z
<1>2. SubSeq(z, 1, n) \in Seq(Byte) /\ Len(SubSeq(z, 1, n)) = n
  BY <1>1
<1> QED
  BY <1>2 DEF Zeros, z

LEMMA CopiedType ==
    ASSUME NEW S, NEW dst \in Seq(S), NEW at \in Nat, NEW src \in Seq(S),
           at + Len(src) <= Len(dst)
    PROVE  /\ Copied(dst, at, src) \in Seq(S)
           /\ Len(Copied(dst, at, src)) = Len(dst)
           /\ \A i \in 1 .. Len(dst) :
                Copied(dst, at, src)[i] = IF i \in at + 1 .. at + Len(src) THEN src[i - at] ELSE dst[i]
<1> DEFINE c == Copied(dst, at, src)
<1>1. c = [i \in 1 .. Len(dst) |-> IF i \in at + 1 .. at + Len(src) THEN src[i - at] ELSE dst[i]]
  BY DEF Copied
<1>2. \A i \in 1 .. Len(dst) : c[i] \in S
  BY <1>1
<1> QED
  BY <1>1, <1>2

\* What stands before the copy stays, and the copy follows it.
LEMMA CopiedPrefix ==
    ASSUME NEW S, NEW dst \in Seq(S), NEW at \in Nat, NEW src \in Seq(S),
           at + Len(src) <= Len(dst)
    PROVE  SubSeq(Copied(dst, at, src), 1, at + Len(src)) = SubSeq(dst, 1, at) \o src
<1> DEFINE c == Copied(dst, at, src)
           l == SubSeq(c, 1, at + Len(src))
           r == SubSeq(dst, 1, at) \o src
<1>1. /\ c \in Seq(S) /\ Len(c) = Len(dst)
      /\ \A i \in 1 .. Len(dst) : c[i] = IF i \in at + 1 .. at + Len(src) THEN src[i - at] ELSE dst[i]
  BY CopiedType
<1> HIDE DEF c
<1>2. l \in Seq(S) /\ Len(l) = at + Len(src) /\ \A i \in 1 .. Len(l) : l[i] = c[i]
  BY <1>1
<1>3. SubSeq(dst, 1, at) \in Seq(S) /\ Len(SubSeq(dst, 1, at)) = at /\ \A i \in 1 .. at : SubSeq(dst, 1, at)[i] = dst[i]
  OBVIOUS
<1>4. r \in Seq(S) /\ Len(r) = at + Len(src) /\ \A i \in 1 .. Len(r) : r[i] = IF i <= at THEN dst[i] ELSE src[i - at]
  BY <1>3
<1> HIDE DEF l, r
<1>5. \A i \in 1 .. Len(l) : l[i] = r[i]
  <2> SUFFICES ASSUME NEW i \in 1 .. Len(l) PROVE l[i] = r[i]
    OBVIOUS
  <2>1. i \in 1 .. Len(dst) /\ i \in 1 .. Len(r) /\ i \in Int
    BY <1>2, <1>4
  <2>2. l[i] = (IF i \in at + 1 .. at + Len(src) THEN src[i - at] ELSE dst[i])
    BY <1>1, <1>2, <2>1
  <2>3. r[i] = IF i <= at THEN dst[i] ELSE src[i - at]
    BY <1>4, <2>1
  <2>4. CASE i <= at
    <3>1. i \notin at + 1 .. at + Len(src)
      BY <2>1, <2>4
    <3> QED
      BY <2>2, <2>3, <2>4, <3>1
  <2>5. CASE ~(i <= at)
    <3>1. i \in at + 1 .. at + Len(src)
      BY <1>2, <2>1, <2>5
    <3> QED
      BY <2>2, <2>3, <2>5, <3>1
  <2> QED
    BY <2>4, <2>5
<1>6. l = r
  BY <1>2, <1>4, <1>5
<1> QED
  BY <1>6 DEF l, r, c

\* Nothing is copied.
LEMMA CopiedNothing ==
    ASSUME NEW S, NEW dst \in Seq(S), NEW at \in Nat, at <= Len(dst)
    PROVE  Copied(dst, at, <<>>) = dst
BY DEF Copied

\* A whole array is copied.
LEMMA CopiedWhole ==
    ASSUME NEW src \in Seq(Byte)
    PROVE  Copied(Zeros(Len(src)), 0, src) = src
<1> DEFINE z == Zeros(Len(src))
<1>1. z \in Seq(Byte) /\ Len(z) = Len(src)
  BY ZerosType
<1> HIDE DEF z
<1>2. /\ Copied(z, 0, src) \in Seq(Byte) /\ Len(Copied(z, 0, src)) = Len(src)
      /\ \A i \in 1 .. Len(src) : Copied(z, 0, src)[i] = src[i]
  BY <1>1, CopiedType
<1>3. Copied(z, 0, src) = src
  BY <1>2
<1> QED
  BY <1>3 DEF z

-----------------------------------------------------------------------------
(***************************************************************************)
(* The inductive invariant: a buffer that was handed out is not the        *)
(* builder's, or it is full, so that only a growing append follows, and    *)
(* that goes into another buffer.                                          *)
(***************************************************************************)
BuilderType ==
    /\ heap \in Seq(Seq(Byte))
    /\ b \in [len : Nat, buf : DOMAIN heap]
    /\ said \in Seq(Bytes)
    /\ frozen \subseteq [ref : DOMAIN heap, text : Seq(Bytes)]

BuilderInv ==
    /\ BuilderType
    /\ b.len <= Len(heap[b.buf])
    /\ \A f \in frozen : f.ref = b.buf => b.len = Len(heap[b.buf])
    /\ BuilderExact

\* A new buffer leaves the others alone.
LEMMA AllocType ==
    ASSUME heap \in Seq(Seq(Byte)), NEW buf \in Seq(Byte)
    PROVE  /\ NewRef = Len(heap) + 1
           /\ Alloc(buf) \in Seq(Seq(Byte))
           /\ DOMAIN heap \subseteq DOMAIN Alloc(buf) /\ NewRef \in DOMAIN Alloc(buf)
           /\ NewRef \notin DOMAIN heap
           /\ Alloc(buf)[NewRef] = buf
           /\ \A r \in DOMAIN heap : Alloc(buf)[r] = heap[r]
<1>1. NewRef = Len(heap) + 1
  <2>1. DOMAIN heap = 1 .. Len(heap) /\ Len(heap) \in Nat /\ Len(heap) \in Int /\ 1 \in Int
    OBVIOUS
  <2>2. Cardinality(1 .. Len(heap)) = IF 1 > Len(heap) THEN 0 ELSE Len(heap) - 1 + 1
    BY <2>1, FS_Interval, Zenon
  <2>3. Cardinality(DOMAIN heap) = Len(heap)
    BY <2>1, <2>2
  <2> QED
    BY <2>3 DEF NewRef
<1>2. Alloc(buf) = [r \in 1 .. Len(heap) + 1 |-> IF r = Len(heap) + 1 THEN buf ELSE heap[r]]
  <2>1. DOMAIN heap \cup {Len(heap) + 1} = 1 .. Len(heap) + 1
    OBVIOUS
  <2> QED
    BY <1>1, <2>1, Zenon DEF Alloc
<1> QED
  BY <1>1, <1>2

LEMMA StringsType ==
    ASSUME NEW n, NEW s \in Strings(n)
    PROVE  s \in Seq(Bytes)
<1>1. PICK k \in 0 .. n : s \in [1 .. k -> Bytes]
  BY DEF Strings
<1> QED
  BY <1>1

LEMMA BytesInByte ==
    ASSUME NEW s \in Seq(Bytes)
    PROVE  s \in Seq(Byte)
BY DEF Byte

LEMMA BytesInInt ==
    ASSUME NEW s \in Seq(Bytes)
    PROVE  s \in Seq(Int)
<1>1. \A i \in 1 .. Len(s) : s[i] \in Bytes
  OBVIOUS
<1>2. \A i \in 1 .. Len(s) : s[i] \in Int
  BY <1>1, BytesAreInt, Zenon
<1> QED
  BY <1>2

LEMMA BuilderInit == Init => BuilderInv
<1> SUFFICES ASSUME Init PROVE BuilderInv
  OBVIOUS
<1>1. heap \in Seq(Seq(Byte)) /\ DOMAIN heap = {1} /\ heap[1] = <<>>
  BY DEF Init
<1>2. BuilderType
  BY <1>1 DEF Init, BuilderType
<1> QED
  BY <1>1, <1>2 DEF Init, BuilderInv, BuilderExact

LEMMA FromInv ==
    ASSUME BuilderInv, NEW base \in {f.text : f \in frozen}, builder_from(base)
    PROVE  BuilderInv'
<1>0. base \in Seq(Bytes) /\ base \in Seq(Byte)
  BY BytesInByte DEF BuilderInv, BuilderType
<1>1. heap' = Alloc(base) /\ b' = [len |-> Len(base), buf |-> NewRef] /\ said' = base /\ frozen' = frozen
  BY <1>0, CopiedWhole DEF builder_from
<1>2. /\ heap' \in Seq(Seq(Byte))
      /\ DOMAIN heap \subseteq DOMAIN heap' /\ NewRef \in DOMAIN heap' /\ NewRef \notin DOMAIN heap
      /\ heap'[NewRef] = base
      /\ \A r \in DOMAIN heap : heap'[r] = heap[r]
  BY <1>0, <1>1, AllocType DEF BuilderInv, BuilderType
<1>3. BuilderType'
  <2>1. b' \in [len : Nat, buf : DOMAIN heap']
    BY <1>0, <1>1, <1>2
  <2>2. frozen' \subseteq [ref : DOMAIN heap', text : Seq(Bytes)]
    BY <1>1, <1>2 DEF BuilderInv, BuilderType
  <2> QED
    BY <1>0, <1>1, <1>2, <2>1, <2>2 DEF BuilderType
<1>4. \A f \in frozen : f.ref \in DOMAIN heap
  BY DEF BuilderInv, BuilderType
<1>5. b'.len = Len(base) /\ b'.buf = NewRef
  BY <1>1
<1>6. SubSeq(heap'[b'.buf], 1, b'.len) = said'
  BY <1>0, <1>1, <1>2, <1>5
<1>7. \A f \in frozen' : heap'[f.ref] = f.text /\ f.ref # b'.buf
  BY <1>1, <1>2, <1>4, <1>5 DEF BuilderInv, BuilderExact
<1>8. b'.len = Len(heap'[b'.buf])
  BY <1>2, <1>5
<1> QED
  BY <1>0, <1>3, <1>5, <1>6, <1>7, <1>8 DEF BuilderInv, BuilderExact

\* The append that does not fit.
LEMMA GrowInv ==
    ASSUME BuilderInv, NEW chunk \in Seq(Bytes), builder_extend(chunk),
           b.len + Len(chunk) > Len(heap[b.buf])
    PROVE  BuilderInv'
<1> DEFINE needed == b.len + Len(chunk)
           cap == Len(heap[b.buf])
           newCap == IF cap * 2 < needed THEN needed ELSE cap * 2
           old == SubSeq(heap[b.buf], 1, b.len)
           grown == Copied(Zeros(newCap), 0, old)
           new == Copied(grown, b.len, chunk)
<1>1. /\ heap' = Alloc(new) /\ b' = [len |-> needed, buf |-> NewRef]
      /\ said' = said \o chunk /\ frozen' = frozen
  BY DEF builder_extend
<1>2. /\ heap \in Seq(Seq(Byte)) /\ b.buf \in DOMAIN heap /\ b.len \in Nat
      /\ heap[b.buf] \in Seq(Byte) /\ b.len <= Len(heap[b.buf]) /\ said \in Seq(Bytes)
      /\ SubSeq(heap[b.buf], 1, b.len) = said
  BY DEF BuilderInv, BuilderType, BuilderExact
<1>3. newCap \in Nat /\ needed \in Nat /\ needed <= newCap
  BY <1>2
<1>4. Zeros(newCap) \in Seq(Byte) /\ Len(Zeros(newCap)) = newCap
  BY <1>3, ZerosType
<1>5. old \in Seq(Byte) /\ Len(old) = b.len
  BY <1>2
<1>6. chunk \in Seq(Byte)
  BY BytesInByte
<1> HIDE DEF newCap, old
<1>7. /\ grown \in Seq(Byte) /\ Len(grown) = newCap
      /\ SubSeq(grown, 1, b.len) = SubSeq(Zeros(newCap), 1, 0) \o old
  <2>1. 0 + Len(old) <= Len(Zeros(newCap))
    BY <1>2, <1>3, <1>4, <1>5
  <2>2. SubSeq(grown, 1, 0 + Len(old)) = SubSeq(Zeros(newCap), 1, 0) \o old
    BY <1>4, <1>5, <2>1, CopiedPrefix
  <2> QED
    BY <1>2, <1>4, <1>5, <2>1, <2>2, CopiedType
<1>8. SubSeq(grown, 1, b.len) = old
  <2>1. SubSeq(Zeros(newCap), 1, 0) = <<>>
    BY <1>4
  <2> QED
    BY <1>5, <1>7, <2>1
<1> HIDE DEF grown
<1>9. /\ new \in Seq(Byte) /\ Len(new) = newCap
      /\ SubSeq(new, 1, needed) = old \o chunk
  <2>1. b.len + Len(chunk) <= Len(grown)
    BY <1>3, <1>7
  <2>2. SubSeq(new, 1, b.len + Len(chunk)) = SubSeq(grown, 1, b.len) \o chunk
    BY <1>2, <1>6, <1>7, <2>1, CopiedPrefix
  <2>3. new \in Seq(Byte) /\ Len(new) = Len(grown)
    BY <1>2, <1>6, <1>7, <2>1, CopiedType
  <2> QED
    BY <1>7, <1>8, <2>2, <2>3
<1> HIDE DEF new
<1>10. /\ heap' \in Seq(Seq(Byte))
       /\ DOMAIN heap \subseteq DOMAIN heap' /\ NewRef \in DOMAIN heap' /\ NewRef \notin DOMAIN heap
       /\ heap'[NewRef] = new
       /\ \A r \in DOMAIN heap : heap'[r] = heap[r]
  BY <1>1, <1>2, <1>9, AllocType
<1>11. BuilderType'
  <2>1. b' \in [len : Nat, buf : DOMAIN heap']
    BY <1>1, <1>3, <1>10
  <2>2. frozen' \subseteq [ref : DOMAIN heap', text : Seq(Bytes)]
    BY <1>1, <1>10 DEF BuilderInv, BuilderType
  <2>3. said' \in Seq(Bytes)
    BY <1>1, <1>2
  <2> QED
    BY <1>10, <2>1, <2>2, <2>3 DEF BuilderType
<1>12. b'.len = needed /\ b'.buf = NewRef
  BY <1>1
<1>13. SubSeq(heap'[b'.buf], 1, b'.len) = said'
  BY <1>1, <1>2, <1>9, <1>10, <1>12 DEF old
<1>14. \A f \in frozen' : heap'[f.ref] = f.text /\ f.ref # b'.buf
  BY <1>1, <1>10, <1>12 DEF BuilderInv, BuilderType, BuilderExact
<1>15. b'.len <= Len(heap'[b'.buf])
  BY <1>3, <1>9, <1>10, <1>12
<1> QED
  BY <1>11, <1>13, <1>14, <1>15 DEF BuilderInv, BuilderExact

\* The append in place: a buffer that was handed out is full, and then
\* nothing is appended.
LEMMA InPlaceInv ==
    ASSUME BuilderInv, NEW chunk \in Seq(Bytes), builder_extend(chunk),
           ~(b.len + Len(chunk) > Len(heap[b.buf]))
    PROVE  BuilderInv'
<1> DEFINE buf == heap[b.buf]
           new == Copied(buf, b.len, chunk)
<1>1. /\ heap' = [heap EXCEPT ![b.buf] = new]
      /\ b' = [b EXCEPT !.len = b.len + Len(chunk)]
      /\ said' = said \o chunk /\ frozen' = frozen
  BY DEF builder_extend
<1>2. /\ heap \in Seq(Seq(Byte)) /\ b \in [len : Nat, buf : DOMAIN heap]
      /\ buf \in Seq(Byte) /\ b.len <= Len(buf) /\ said \in Seq(Bytes)
      /\ SubSeq(buf, 1, b.len) = said /\ b.len \in Nat /\ b.buf \in DOMAIN heap
  BY DEF BuilderInv, BuilderType, BuilderExact
<1>3. chunk \in Seq(Byte) /\ Len(chunk) \in Nat
  BY BytesInByte
<1>4. b.len + Len(chunk) <= Len(buf)
  BY <1>2, <1>3
<1>5. /\ new \in Seq(Byte) /\ Len(new) = Len(buf)
      /\ SubSeq(new, 1, b.len + Len(chunk)) = said \o chunk
  <2>1. SubSeq(new, 1, b.len + Len(chunk)) = SubSeq(buf, 1, b.len) \o chunk
    BY <1>2, <1>3, <1>4, CopiedPrefix
  <2>2. new \in Seq(Byte) /\ Len(new) = Len(buf)
    BY <1>2, <1>3, <1>4, CopiedType
  <2> QED
    BY <1>2, <2>1, <2>2
<1>6. b.len = Len(buf) => new = buf
  <2> SUFFICES ASSUME b.len = Len(buf) PROVE new = buf
    OBVIOUS
  <2>1. chunk = <<>>
    BY <1>2, <1>3, <1>4
  <2> QED
    BY <1>2, <2>1, CopiedNothing
<1> HIDE DEF new
<1>7. /\ heap' \in Seq(Seq(Byte)) /\ DOMAIN heap' = DOMAIN heap
      /\ heap'[b.buf] = new /\ \A r \in DOMAIN heap : r # b.buf => heap'[r] = heap[r]
  <2>1. heap' \in Seq(Seq(Byte))
    BY <1>1, <1>2, <1>5
  <2> QED
    BY <1>1, <1>2, <2>1
<1>8. b' \in [len : Nat, buf : DOMAIN heap] /\ b'.len = b.len + Len(chunk) /\ b'.buf = b.buf
  <2>1. b.len + Len(chunk) \in Nat
    BY <1>2, <1>3
  <2>2. b' = [len |-> b.len + Len(chunk), buf |-> b.buf]
    BY <1>1, <1>2
  <2> QED
    BY <1>2, <2>1, <2>2
<1>9. BuilderType'
  <2>1. said' \in Seq(Bytes)
    BY <1>1, <1>2
  <2> QED
    BY <1>1, <1>7, <1>8, <2>1 DEF BuilderInv, BuilderType
<1>10. \A f \in frozen : f.ref \in DOMAIN heap /\ heap[f.ref] = f.text /\ (f.ref = b.buf => b.len = Len(buf))
  BY DEF BuilderInv, BuilderType, BuilderExact
<1>11. \A f \in frozen' : heap'[f.ref] = f.text
  <2> SUFFICES ASSUME NEW f \in frozen PROVE heap'[f.ref] = f.text
    BY <1>1
  <2>1. CASE f.ref = b.buf
    BY <1>6, <1>7, <1>10, <2>1
  <2>2. CASE f.ref # b.buf
    BY <1>7, <1>10, <2>2
  <2> QED
    BY <2>1, <2>2
<1>12. SubSeq(heap'[b'.buf], 1, b'.len) = said'
  BY <1>1, <1>5, <1>7, <1>8
<1>13. b'.len <= Len(heap'[b'.buf])
  BY <1>4, <1>5, <1>7, <1>8
<1>14. \A f \in frozen' : f.ref = b'.buf => b'.len = Len(heap'[b'.buf])
  <2> SUFFICES ASSUME NEW f \in frozen, f.ref = b.buf PROVE b'.len = Len(heap'[b'.buf])
    BY <1>1, <1>8
  <2>1. b.len = Len(buf)
    BY <1>10
  <2> QED
    BY <1>2, <1>3, <1>4, <1>5, <1>7, <1>8, <2>1
<1> QED
  BY <1>9, <1>11, <1>12, <1>13, <1>14 DEF BuilderInv, BuilderExact

LEMMA FreezeInv ==
    ASSUME BuilderInv, builder_freeze
    PROVE  BuilderInv'
<1> DEFINE buf == heap[b.buf]
<1>1. /\ heap \in Seq(Seq(Byte)) /\ b \in [len : Nat, buf : DOMAIN heap]
      /\ buf \in Seq(Byte) /\ b.len <= Len(buf) /\ said \in Seq(Bytes)
      /\ SubSeq(buf, 1, b.len) = said /\ b.len \in Nat /\ b.buf \in DOMAIN heap
      /\ frozen \subseteq [ref : DOMAIN heap, text : Seq(Bytes)]
      /\ \A f \in frozen : heap[f.ref] = f.text /\ (f.ref = b.buf => b.len = Len(buf))
  BY DEF BuilderInv, BuilderType, BuilderExact
<1>2. b' = b /\ said' = said
  BY DEF builder_freeze
<1>3. CASE b.len = Len(buf)
  <2>1. heap' = heap /\ frozen' = frozen \cup {[ref |-> b.buf, text |-> said]}
    BY <1>3 DEF builder_freeze
  <2>2. buf = said
    BY <1>1, <1>3
  <2>3. BuilderType'
    BY <1>1, <1>2, <2>1 DEF BuilderType
  <2>4. \A f \in frozen' : heap'[f.ref] = f.text /\ (f.ref = b'.buf => b'.len = Len(heap'[b'.buf]))
    BY <1>1, <1>2, <1>3, <2>1, <2>2
  <2> QED
    BY <1>1, <1>2, <2>1, <2>3, <2>4 DEF BuilderInv, BuilderExact
<1>4. CASE b.len # Len(buf)
  <2>1. heap' = Alloc(said) /\ frozen' = frozen \cup {[ref |-> NewRef, text |-> said]}
    BY <1>1, <1>4 DEF builder_freeze
  <2>2. /\ heap' \in Seq(Seq(Byte))
        /\ DOMAIN heap \subseteq DOMAIN heap' /\ NewRef \in DOMAIN heap' /\ NewRef \notin DOMAIN heap
        /\ heap'[NewRef] = said
        /\ \A r \in DOMAIN heap : heap'[r] = heap[r]
    BY <1>1, <2>1, AllocType, BytesInByte
  <2>3. BuilderType'
    BY <1>1, <1>2, <2>1, <2>2 DEF BuilderType
  <2>4. \A f \in frozen' : heap'[f.ref] = f.text /\ (f.ref = b'.buf => b'.len = Len(heap'[b'.buf]))
    BY <1>1, <1>2, <1>4, <2>1, <2>2
  <2> QED
    BY <1>1, <1>2, <2>2, <2>3, <2>4 DEF BuilderInv, BuilderExact
<1> QED
  BY <1>3, <1>4

LEMMA BuilderStep == BuilderInv /\ [Next]_vars => BuilderInv'
<1> SUFFICES ASSUME BuilderInv, [Next]_vars PROVE BuilderInv'
  OBVIOUS
<1>1. ASSUME NEW base \in {f.text : f \in frozen}, builder_from(base) PROVE BuilderInv'
  BY <1>1, FromInv
<1>2. ASSUME NEW chunk \in Strings(MaxChunk), builder_extend(chunk) PROVE BuilderInv'
  BY <1>2, StringsType, GrowInv, InPlaceInv
<1>3. CASE builder_freeze
  BY <1>3, FreezeInv
<1>4. CASE UNCHANGED vars
  BY <1>4 DEF vars, BuilderInv, BuilderType, BuilderExact
<1> QED
  BY <1>1, <1>2, <1>3, <1>4 DEF Next

(* The builder holds what was put into it and no string it has frozen ever *)
(* changes (builder_from, builder_extend, builder_freeze), for every       *)
(* sequence of calls, whatever is appended and however long the texts are. *)
THEOREM BuilderExactHolds == Spec => []BuilderExact
<1>1. BuilderInv => BuilderExact
  BY DEF BuilderInv
<1> QED
  BY <1>1, BuilderInit, BuilderStep, PTL DEF Spec

-----------------------------------------------------------------------------
(* The pure functions.                                                     *)

LEMMA LeastNat ==
    ASSUME NEW T \in SUBSET Nat, T # {}
    PROVE  \E n \in T : \A m \in T : n <= m
<1>1. PICK n \in T : \A m \in T : ~(<<m, n>> \in OpToRel(<, Nat))
  BY NatLessThanWellFounded, WFMin, Zenon
<1>2. \A m \in T : ~(m < n)
  BY <1>1, Zenon DEF OpToRel
<1> QED
  BY <1>2

LEMMA SameElements ==
    ASSUME NEW S, NEW s \in Seq(S), NEW t \in Seq(S), Len(s) = Len(t),
           \A i \in 1 .. Len(s) : s[i] = t[i]
    PROVE  s = t
OBVIOUS

LEMMA SubSeqElements ==
    ASSUME NEW S, NEW s \in Seq(S), NEW m \in 1 .. Len(s) + 1, NEW n \in m - 1 .. Len(s)
    PROVE  /\ SubSeq(s, m, n) \in Seq(S) /\ Len(SubSeq(s, m, n)) = n - m + 1
           /\ \A i \in 1 .. n - m + 1 : SubSeq(s, m, n)[i] = s[m + i - 1]
OBVIOUS

LEMMA AppendElements ==
    ASSUME NEW S, NEW s \in Seq(S), NEW t \in Seq(S)
    PROVE  /\ s \o t \in Seq(S) /\ Len(s \o t) = Len(s) + Len(t)
           /\ \A i \in 1 .. Len(s) : (s \o t)[i] = s[i]
           /\ \A i \in Len(s) + 1 .. Len(s) + Len(t) : (s \o t)[i] = t[i - Len(s)]
OBVIOUS

LEMMA WholeSubSeq ==
    ASSUME NEW S, NEW s \in Seq(S)
    PROVE  SubSeq(s, 1, Len(s)) = s
OBVIOUS

LEMMA ConcatAppends ==
    ASSUME NEW s \in Seq(Byte), NEW t \in Seq(Byte)
    PROVE  concat(s, t) = s \o t
<1> DEFINE n == Len(s) + Len(t)
           z == Zeros(n)
           c == Copied(z, 0, s)
           r == Copied(c, Len(s), t)
<1>1. n \in Nat /\ z \in Seq(Byte) /\ Len(z) = n
  BY ZerosType
<1> HIDE DEF z
<1>2. c \in Seq(Byte) /\ Len(c) = n
  BY <1>1, CopiedType
<1>3. SubSeq(c, 1, Len(s)) = s
  <2>1. 0 + Len(s) <= Len(z)
    BY <1>1
  <2>2. SubSeq(c, 1, 0 + Len(s)) = SubSeq(z, 1, 0) \o s
    BY <1>1, <2>1, CopiedPrefix
  <2>3. SubSeq(z, 1, 0) = <<>>
    BY <1>1
  <2> QED
    BY <2>2, <2>3
<1> HIDE DEF c
<1>4. r \in Seq(Byte) /\ Len(r) = n
  BY <1>1, <1>2, CopiedType
<1>5. SubSeq(r, 1, n) = SubSeq(c, 1, Len(s)) \o t
  BY <1>1, <1>2, CopiedPrefix
<1> HIDE DEF r
<1>6. r = s \o t
  BY <1>3, <1>4, <1>5, WholeSubSeq
<1> QED
  BY <1>6 DEF concat, r, c, z

\* Three pieces of a string that meet are the string.
LEMMA SubstringCuts ==
    ASSUME NEW s \in Seq(Byte), NEW i \in 0 .. Len(s), NEW j \in 0 .. Len(s), i <= j
    PROVE  concat(substring(s, 0, i), concat(substring(s, i, j), substring(s, j, -1))) = s
<1>0. Len(s) \in Nat /\ i \in Nat /\ j \in Nat /\ i <= Len(s) /\ j <= Len(s)
  OBVIOUS
<1>1. substring(s, 0, i) = SubSeq(s, 1, i)
  <2>1. ~(0 < 0 \/ 0 > Len(s)) /\ ~(i < 0 \/ i > Len(s)) /\ ~(i < 0)
    BY <1>0
  <2>2. substring(s, 0, i) = SubSeq(s, 0 + 1, i)
    BY <2>1, Zenon DEF substring
  <2> QED
    BY <2>2
<1>2. substring(s, i, j) = SubSeq(s, i + 1, j)
  <2>1. ~(j < 0 \/ j > Len(s)) /\ ~(i < 0 \/ i > Len(s)) /\ ~(j < i)
    BY <1>0
  <2> QED
    BY <2>1, Zenon DEF substring
<1>3. substring(s, j, -1) = SubSeq(s, j + 1, Len(s))
  <2>1. ~(j < 0 \/ j > Len(s)) /\ (-1 < 0 \/ -1 > Len(s)) /\ ~(Len(s) < j)
    BY <1>0
  <2> QED
    BY <2>1, Zenon DEF substring
<1> DEFINE x == SubSeq(s, 1, i)
           y == SubSeq(s, i + 1, j)
           z == SubSeq(s, j + 1, Len(s))
<1>4. x \in Seq(Byte) /\ Len(x) = i /\ \A k \in 1 .. i : x[k] = s[k]
  OBVIOUS
<1>5. y \in Seq(Byte) /\ Len(y) = j - i /\ \A k \in 1 .. j - i : y[k] = s[i + k]
  OBVIOUS
<1>6. z \in Seq(Byte) /\ Len(z) = Len(s) - j /\ \A k \in 1 .. Len(s) - j : z[k] = s[j + k]
  OBVIOUS
<1> HIDE DEF x, y, z
<1> DEFINE w == y \o z
<1>7. w \in Seq(Byte) /\ Len(w) = Len(s) - i /\ \A k \in 1 .. Len(s) - i : w[k] = s[i + k]
  <2>1. /\ w \in Seq(Byte) /\ Len(w) = Len(y) + Len(z)
        /\ \A k \in 1 .. Len(y) : w[k] = y[k]
        /\ \A k \in Len(y) + 1 .. Len(y) + Len(z) : w[k] = z[k - Len(y)]
    BY <1>5, <1>6, AppendElements
  <2> HIDE DEF w
  <2>2. ASSUME NEW k \in 1 .. Len(s) - i PROVE w[k] = s[i + k]
    <3>1. CASE k <= j - i
      BY <1>0, <1>5, <2>1, <3>1
    <3>2. CASE k > j - i
      <4>1. k \in Len(y) + 1 .. Len(y) + Len(z) /\ k - Len(y) \in 1 .. Len(s) - j /\ j + (k - Len(y)) = i + k
        BY <1>0, <1>5, <1>6, <3>2
      <4> QED
        BY <1>6, <2>1, <4>1
    <3> QED
      BY <1>0, <3>1, <3>2
  <2>3. Len(w) = Len(s) - i
    <3>1. Len(w) = Len(y) + Len(z) /\ Len(y) = j - i /\ Len(z) = Len(s) - j
      BY <1>5, <1>6, <2>1, Zenon
    <3> QED
      BY <1>0, <3>1
  <2> QED
    BY <2>1, <2>2, <2>3, Zenon
<1>8. concat(y, z) = w /\ concat(x, w) = x \o w
  BY <1>4, <1>5, <1>6, <1>7, ConcatAppends
<1> HIDE DEF w
<1>9. x \o w = s
  <2> DEFINE v == x \o w
  <2>1. /\ v \in Seq(Byte) /\ Len(v) = Len(x) + Len(w)
        /\ \A k \in 1 .. Len(x) : v[k] = x[k]
        /\ \A k \in Len(x) + 1 .. Len(x) + Len(w) : v[k] = w[k - Len(x)]
    BY <1>4, <1>7, AppendElements
  <2> HIDE DEF v
  <2>2. ASSUME NEW k \in 1 .. Len(s) PROVE v[k] = s[k]
    <3>1. CASE k <= i
      BY <1>0, <1>4, <2>1, <3>1
    <3>2. CASE k > i
      <4>1. k \in Len(x) + 1 .. Len(x) + Len(w) /\ k - Len(x) \in 1 .. Len(s) - i /\ i + (k - Len(x)) = k
        BY <1>0, <1>4, <1>7, <3>2
      <4> QED
        BY <1>7, <2>1, <4>1
    <3> QED
      BY <1>0, <3>1, <3>2
  <2>3. v = s
    BY <1>0, <1>4, <1>7, <2>1, <2>2, SameElements
  <2> QED
    BY <2>3 DEF v
<1> QED
  BY <1>1, <1>2, <1>3, <1>8, <1>9 DEF x, y, z, w

Before(s, t) ==
    \/ Len(s) < Len(t) /\ \A i \in 1 .. Len(s) : s[i] = t[i]
    \/ \E i \in 1 .. Len(s) : /\ i <= Len(t)
                              /\ \A j \in 1 .. i - 1 : s[j] = t[j]
                              /\ s[i] < t[i]

LEMMA LexicographicBefore ==
    ASSUME NEW s \in Seq(Int), NEW t \in Seq(Int)
    PROVE  Lexicographic(s, t) <=> Before(s, t)
<1>0. ASSUME NEW u \in Seq(Int), NEW v \in Seq(Int), NEW m \in Nat,
             m <= Len(u), m <= Len(v)
      PROVE  SubSeq(u, 1, m) = SubSeq(v, 1, m) <=> \A i \in 1 .. m : u[i] = v[i]
  <2> DEFINE p == SubSeq(u, 1, m)
             q == SubSeq(v, 1, m)
  <2>1. p \in Seq(Int) /\ Len(p) = m /\ \A i \in 1 .. m : p[i] = u[i]
    BY <1>0
  <2>2. q \in Seq(Int) /\ Len(q) = m /\ \A i \in 1 .. m : q[i] = v[i]
    BY <1>0
  <2> HIDE DEF p, q
  <2>3. ASSUME \A i \in 1 .. m : u[i] = v[i] PROVE p = q
    <3>1. \A i \in 1 .. Len(p) : p[i] = q[i]
      BY <2>1, <2>2, <2>3
    <3> QED
      BY <2>1, <2>2, <3>1, SameElements
  <2>4. ASSUME p = q PROVE \A i \in 1 .. m : u[i] = v[i]
    BY <2>1, <2>2, <2>4
  <2> QED
    BY <2>3, <2>4 DEF p, q
<1>1. Len(s) < Len(t) => (SubSeq(t, 1, Len(s)) = s <=> \A i \in 1 .. Len(s) : s[i] = t[i])
  <2>1. Len(s) \in Nat /\ Len(t) \in Nat /\ SubSeq(s, 1, Len(s)) = s
    BY WholeSubSeq
  <2> QED
    BY <1>0, <2>1
<1>2. \A i \in 1 .. Len(s) : i <= Len(t) =>
        (SubSeq(s, 1, i - 1) = SubSeq(t, 1, i - 1) <=> \A j \in 1 .. i - 1 : s[j] = t[j])
  <2> SUFFICES ASSUME NEW i \in 1 .. Len(s), i <= Len(t)
               PROVE  SubSeq(s, 1, i - 1) = SubSeq(t, 1, i - 1) <=> \A j \in 1 .. i - 1 : s[j] = t[j]
    OBVIOUS
  <2>1. i - 1 \in Nat /\ i - 1 <= Len(s) /\ i - 1 <= Len(t)
    OBVIOUS
  <2> QED
    BY <1>0, <2>1
<1>3. DOMAIN s = 1 .. Len(s)
  OBVIOUS
<1>4. \A i \in 1 .. Len(s) : i \in DOMAIN t <=> i <= Len(t)
  OBVIOUS
<1>5. (\E i \in DOMAIN s : i \in DOMAIN t /\ SubSeq(s, 1, i - 1) = SubSeq(t, 1, i - 1) /\ s[i] < t[i])
      <=> (\E i \in 1 .. Len(s) : i <= Len(t) /\ (\A j \in 1 .. i - 1 : s[j] = t[j]) /\ s[i] < t[i])
  BY <1>2, <1>3, <1>4, Zenon
<1> QED
  BY <1>1, <1>5, Zenon DEF Lexicographic, Before

(* cmp: the first byte that differs decides, then the length.              *)
LEMMA CmpOrders ==
    ASSUME NEW s \in Seq(Int), NEW t \in Seq(Int)
    PROVE  /\ cmp(s, t) \in {-1, 0, 1}
           /\ cmp(s, t) = -1 <=> Before(s, t)
           /\ cmp(s, t) = 1 <=> Before(t, s)
           /\ cmp(s, t) = 0 <=> str_eq(s, t)
<1> DEFINE min == IF Len(s) <= Len(t) THEN Len(s) ELSE Len(t)
           differ == {i \in 1 .. min : s[i] # t[i]}
           first == CHOOSE i \in differ : \A j \in differ : i <= j
           order(x, y) == IF x < y THEN -1 ELSE IF x > y THEN 1 ELSE 0
<1>0. cmp(s, t) = IF differ # {} THEN order(s[first], t[first]) ELSE order(Len(s), Len(t))
  BY DEF cmp
<1>1. /\ min \in Nat /\ min <= Len(s) /\ min <= Len(t) /\ Len(s) \in Nat /\ Len(t) \in Nat
      /\ min = Len(s) \/ min = Len(t)
  OBVIOUS
<1> HIDE DEF min
<1>2. CASE differ # {}
  <2>1. differ \in SUBSET Nat
    BY <1>1
  <2>2. \E i \in differ : \A j \in differ : i <= j
    BY <1>2, <2>1, LeastNat
  <2>3. first \in differ /\ \A j \in differ : first <= j
    BY <2>2, Zenon
  <2> HIDE DEF first
  <2>4. /\ first \in 1 .. min /\ s[first] # t[first]
        /\ s[first] \in Int /\ t[first] \in Int
        /\ \A j \in 1 .. first - 1 : s[j] = t[j]
    BY <1>1, <2>3
  <2>5. cmp(s, t) = order(s[first], t[first])
    BY <1>0, <1>2, Zenon
  <2>6. Before(s, t) <=> s[first] < t[first]
    <3>1. ASSUME s[first] < t[first] PROVE Before(s, t)
      <4>1. first \in 1 .. Len(s) /\ first <= Len(t) /\ \A j \in 1 .. first - 1 : s[j] = t[j]
        BY <1>1, <2>4
      <4> QED
        BY <3>1, <4>1, Zenon DEF Before
    <3>2. ASSUME NEW i \in 1 .. Len(s), i <= Len(t), \A j \in 1 .. i - 1 : s[j] = t[j], s[i] < t[i]
          PROVE  i = first
      <4>1. i \in differ
        BY <1>1, <3>2
      <4>2. ~(first < i)
        BY <2>4, <3>2
      <4> QED
        BY <1>1, <2>3, <2>4, <4>1, <4>2
    <3>3. ~(\A i \in 1 .. Len(s) : s[i] = t[i])
      BY <1>1, <2>4
    <3>4. ASSUME Before(s, t) PROVE s[first] < t[first]
      <4>1. PICK i \in 1 .. Len(s) : i <= Len(t) /\ (\A j \in 1 .. i - 1 : s[j] = t[j]) /\ s[i] < t[i]
        BY <3>3, <3>4, Zenon DEF Before
      <4> QED
        BY <3>2, <4>1, Zenon
    <3> QED
      BY <3>1, <3>4, Zenon
  <2>7. Before(t, s) <=> t[first] < s[first]
    <3>1. ASSUME t[first] < s[first] PROVE Before(t, s)
      <4>1. first \in 1 .. Len(t) /\ first <= Len(s) /\ \A j \in 1 .. first - 1 : t[j] = s[j]
        BY <1>1, <2>4
      <4> QED
        BY <3>1, <4>1, Zenon DEF Before
    <3>2. ASSUME NEW i \in 1 .. Len(t), i <= Len(s), \A j \in 1 .. i - 1 : t[j] = s[j], t[i] < s[i]
          PROVE  i = first
      <4>1. i \in differ
        BY <1>1, <3>2
      <4>2. ~(first < i)
        BY <2>4, <3>2
      <4> QED
        BY <1>1, <2>3, <2>4, <4>1, <4>2
    <3>3. ~(\A i \in 1 .. Len(t) : t[i] = s[i])
      BY <1>1, <2>4
    <3>4. ASSUME Before(t, s) PROVE t[first] < s[first]
      <4>1. PICK i \in 1 .. Len(t) : i <= Len(s) /\ (\A j \in 1 .. i - 1 : t[j] = s[j]) /\ t[i] < s[i]
        BY <3>3, <3>4, Zenon DEF Before
      <4> QED
        BY <3>2, <4>1, Zenon
    <3> QED
      BY <3>1, <3>4, Zenon
  <2>8. ~str_eq(s, t)
    BY <1>1, <2>4 DEF str_eq
  <2> QED
    BY <2>4, <2>5, <2>6, <2>7, <2>8
<1>3. CASE differ = {}
  <2>1. cmp(s, t) = order(Len(s), Len(t))
    BY <1>0, <1>3, Zenon
  <2>2. \A i \in 1 .. min : s[i] = t[i]
    BY <1>3
  <2>3. Before(s, t) <=> Len(s) < Len(t)
    BY <1>1, <2>2 DEF Before
  <2>4. Before(t, s) <=> Len(t) < Len(s)
    BY <1>1, <2>2 DEF Before
  <2>5. str_eq(s, t) <=> Len(s) = Len(t)
    BY <1>1, <2>2 DEF str_eq
  <2> QED
    BY <1>1, <2>1, <2>3, <2>4, <2>5
<1> QED
  BY <1>2, <1>3

LEMMA StringCompareOrders ==
    ASSUME NEW s \in Seq(Int), NEW t \in Seq(Int)
    PROVE  string_compare(s, t) = IF Lexicographic(s, t) THEN "Lt"
                                  ELSE IF Lexicographic(t, s) THEN "Gt" ELSE "Eq"
<1>1. /\ cmp(s, t) \in {-1, 0, 1}
      /\ cmp(s, t) = -1 <=> Lexicographic(s, t)
      /\ cmp(s, t) = 1 <=> Lexicographic(t, s)
  BY CmpOrders, LexicographicBefore
<1> QED
  BY <1>1 DEF string_compare

(* The order of strings is the lexicographic one and agrees with equality, *)
(* concat appends and substring cuts at its bounds, for all the texts that *)
(* a builder can hold.                                                     *)
THEOREM StringsOrderedHolds == Spec => []StringsOrdered
<1>1. BuilderInv => StringsOrdered
  <2> SUFFICES ASSUME BuilderInv, NEW f \in frozen
               PROVE  /\ string_compare(said, f.text) = IF Lexicographic(said, f.text) THEN "Lt"
                                                        ELSE IF Lexicographic(f.text, said) THEN "Gt" ELSE "Eq"
                      /\ (cmp(said, f.text) = 0) = str_eq(said, f.text)
                      /\ concat(said, f.text) = said \o f.text
                      /\ \A i, j \in 0 .. Len(said) : i <= j =>
                           concat(substring(said, 0, i), concat(substring(said, i, j), substring(said, j, -1))) = said
    BY DEF StringsOrdered
  <2>1. said \in Seq(Bytes) /\ f.text \in Seq(Bytes)
    BY DEF BuilderInv, BuilderType
  <2>2. /\ said \in Seq(Int) /\ f.text \in Seq(Int) /\ said \in Seq(Byte) /\ f.text \in Seq(Byte)
    <3>1. said \in Seq(Byte) /\ f.text \in Seq(Byte)
      BY <2>1, BytesInByte
    <3>2. said \in Seq(Int) /\ f.text \in Seq(Int)
      BY <2>1, BytesInInt
    <3> QED
      BY <3>1, <3>2
  <2>3. cmp(said, f.text) = 0 <=> str_eq(said, f.text)
    BY <2>2, CmpOrders
  <2>4. str_eq(said, f.text) \in BOOLEAN
    BY DEF str_eq
  <2>5. (cmp(said, f.text) = 0) = str_eq(said, f.text)
    BY <2>3, <2>4, Zenon
  <2>6. string_compare(said, f.text) = IF Lexicographic(said, f.text) THEN "Lt"
                                       ELSE IF Lexicographic(f.text, said) THEN "Gt" ELSE "Eq"
    BY <2>2, StringCompareOrders, Zenon
  <2> QED
    BY <2>2, <2>5, <2>6, ConcatAppends, SubstringCuts, Zenon
<1> QED
  BY <1>1, BuilderInit, BuilderStep, PTL DEF Spec

-----------------------------------------------------------------------------
(***************************************************************************)
(* How often x stands in a at the places S, and parts of two arrays that   *)
(* hold the same numbers equally often.                                    *)
(***************************************************************************)
Occurs(a, S, x) == {m \in S : a[m] = x}
Count(a, S, x) == Cardinality(Occurs(a, S, x))
Same(r, I, a, J) == \A x \in Int : Count(r, I, x) = Count(a, J, x)

LEMMA CountType ==
    ASSUME NEW a, NEW S, IsFiniteSet(S), NEW x
    PROVE  /\ IsFiniteSet(Occurs(a, S, x))
           /\ Count(a, S, x) \in Nat
<1> DEFINE T == Occurs(a, S, x)
<1>1. T \in SUBSET S
  BY DEF Occurs
<1>2. IsFiniteSet(T)
  BY <1>1, FS_Subset, Zenon
<1>3. Cardinality(T) \in Nat
  BY <1>2, FS_CardinalityType, Zenon
<1> QED
  BY <1>2, <1>3, Zenon DEF Count

LEMMA CountNone ==
    ASSUME NEW a, NEW x
    PROVE  Count(a, {}, x) = 0
<1>1. Occurs(a, {}, x) = {}
  BY DEF Occurs
<1> QED
  BY <1>1, FS_EmptySet, Zenon DEF Count

LEMMA CountAdd ==
    ASSUME NEW a, NEW S, IsFiniteSet(S), NEW k, k \notin S, NEW x
    PROVE  Count(a, S \cup {k}, x) = Count(a, S, x) + (IF a[k] = x THEN 1 ELSE 0)
<1> DEFINE T == Occurs(a, S, x)
           U == Occurs(a, S \cup {k}, x)
<1>1. IsFiniteSet(T) /\ Cardinality(T) \in Nat
  BY CountType, Zenon DEF Count
<1>2. CASE a[k] = x
  <2>1. U = T \cup {k} /\ k \notin T
    BY <1>2 DEF Occurs
  <2>2. Cardinality(T \cup {k}) = Cardinality(T) + 1
    <3> HIDE DEF T
    <3> QED
      BY <1>1, <2>1, FS_AddElement
  <2> QED
    BY <1>2, <2>1, <2>2 DEF Count
<1>3. CASE a[k] # x
  <2>1. U = T
    BY <1>3 DEF Occurs
  <2>2. Cardinality(U) = Cardinality(T) + 0
    <3> HIDE DEF T, U
    <3> QED
      BY <2>1, <1>1
  <2> QED
    BY <1>3, <2>2 DEF Count
<1> QED
  BY <1>2, <1>3, Zenon

LEMMA CountUnion ==
    ASSUME NEW a, NEW S, IsFiniteSet(S), NEW T, IsFiniteSet(T), S \cap T = {}, NEW x
    PROVE  Count(a, S \cup T, x) = Count(a, S, x) + Count(a, T, x)
<1> DEFINE P == Occurs(a, S, x)
           Q == Occurs(a, T, x)
           U == Occurs(a, S \cup T, x)
<1>1. IsFiniteSet(P) /\ Cardinality(P) \in Nat
  BY CountType, Zenon DEF Count
<1>2. IsFiniteSet(Q) /\ Cardinality(Q) \in Nat
  BY CountType, Zenon DEF Count
<1>3. U = P \cup Q
  BY DEF Occurs
<1>4. P \cap Q = {}
  BY DEF Occurs
<1>5. Cardinality(U) = Cardinality(P) + Cardinality(Q)
  <2> HIDE DEF P, Q, U
  <2>1. Cardinality(P \cup Q) = Cardinality(P) + Cardinality(Q) - Cardinality(P \cap Q)
    BY <1>1, <1>2, FS_Union
  <2>2. Cardinality(P \cap Q) = 0
    BY <1>4, FS_EmptySet, Zenon
  <2> QED
    BY <1>1, <1>2, <1>3, <2>1, <2>2
<1> QED
  BY <1>5, Zenon DEF Count

LEMMA CountEqual ==
    ASSUME NEW a, NEW c, NEW S, \A m \in S : a[m] = c[m], NEW x
    PROVE  Count(a, S, x) = Count(c, S, x)
<1>1. Occurs(a, S, x) = Occurs(c, S, x)
  BY DEF Occurs
<1> QED
  BY <1>1, Zenon DEF Count

\* A number of the one part stands in the other part too.
LEMMA SameElement ==
    ASSUME NEW r, NEW I, IsFiniteSet(I), NEW a, NEW J, IsFiniteSet(J), Same(r, I, a, J),
           NEW m \in I, r[m] \in Int
    PROVE  \E q \in J : a[q] = r[m]
<1> DEFINE P == Occurs(r, I, r[m])
           Q == Occurs(a, J, r[m])
<1>1. IsFiniteSet(P) /\ IsFiniteSet(Q)
  BY CountType, Zenon
<1>2. Cardinality(P) = Cardinality(Q)
  BY Zenon DEF Same, Count
<1>3. P # {}
  BY DEF Occurs
<1>4. Cardinality(P) # 0
  BY <1>1, <1>3, FS_EmptySet, Zenon
<1>5. Q # {}
  BY <1>1, <1>2, <1>4, FS_EmptySet, Zenon
<1> QED
  BY <1>5 DEF Occurs

LEMMA SameUnion ==
    ASSUME NEW r, NEW a,
           NEW I, IsFiniteSet(I), NEW J, IsFiniteSet(J), I \cap J = {}, 
           NEW K, IsFiniteSet(K), NEW L, IsFiniteSet(L), K \cap L = {},
           Same(r, I, a, K), Same(r, J, a, L)
    PROVE  Same(r, I \cup J, a, K \cup L)
<1> SUFFICES ASSUME NEW x \in Int PROVE Count(r, I \cup J, x) = Count(a, K \cup L, x)
  BY Zenon DEF Same
<1>1. Count(r, I \cup J, x) = Count(r, I, x) + Count(r, J, x)
  BY CountUnion
<1>2. Count(a, K \cup L, x) = Count(a, K, x) + Count(a, L, x)
  BY CountUnion
<1>3. Count(r, I, x) = Count(a, K, x) /\ Count(r, J, x) = Count(a, L, x)
  BY Zenon DEF Same
<1> QED
  BY <1>1, <1>2, <1>3, Zenon

LEMMA SameAdd ==
    ASSUME NEW r, NEW I, IsFiniteSet(I), NEW a, NEW J, IsFiniteSet(J), Same(r, I, a, J),
           NEW k, k \notin I, NEW q, q \notin J, r[k] = a[q]
    PROVE  Same(r, I \cup {k}, a, J \cup {q})
<1> SUFFICES ASSUME NEW x \in Int PROVE Count(r, I \cup {k}, x) = Count(a, J \cup {q}, x)
  BY Zenon DEF Same
<1>1. Count(r, I \cup {k}, x) = Count(r, I, x) + (IF r[k] = x THEN 1 ELSE 0)
  BY CountAdd
<1>2. Count(a, J \cup {q}, x) = Count(a, J, x) + (IF a[q] = x THEN 1 ELSE 0)
  BY CountAdd
<1>3. Count(r, I, x) = Count(a, J, x)
  BY Zenon DEF Same
<1> QED
  BY <1>1, <1>2, <1>3, Zenon

LEMMA IntervalFinite ==
    ASSUME NEW m \in Int, NEW n \in Int
    PROVE  IsFiniteSet(m .. n)
BY FS_Interval, Zenon

-----------------------------------------------------------------------------
(***************************************************************************)
(* The merge.                                                              *)
(***************************************************************************)
MergeBody(g, c) == IF place(c) >= c.hi THEN c.aux ELSE g[merge_step(c)]
MergeRank(c) == c.hi - place(c)

Merging == INSTANCE RecursiveFunctions WITH D <- Merges, Rank <- MergeRank, Body <- MergeBody

LEMMA MergeType ==
    ASSUME NEW c \in Merges
    PROVE  /\ c.src \in Seq(Int) /\ c.aux \in Seq(Int) /\ Len(c.aux) = Len(c.src) /\ Len(c.src) \in Nat
           /\ c.i \in Nat /\ c.mid \in Nat /\ c.j \in Nat /\ c.hi \in Nat /\ c.float \in BOOLEAN
           /\ c.i <= c.mid /\ c.mid <= c.j /\ c.j <= c.hi /\ c.hi <= Len(c.src)
           /\ place(c) \in Nat /\ place(c) <= c.hi /\ c.i <= place(c) /\ place(c) <= c.j
           /\ MergeRank(c) \in Nat
<1>1. /\ c.src \in Seq(Int) /\ c.aux \in Seq(Int)
      /\ c.i \in Nat /\ c.mid \in Nat /\ c.j \in Nat /\ c.hi \in Nat /\ c.float \in BOOLEAN
  BY DEF Merges
<1>2. c.i <= c.mid /\ c.mid <= c.j /\ c.j <= c.hi /\ c.hi <= Len(c.src) /\ Len(c.aux) = Len(c.src)
  BY DEF Merges
<1>3. place(c) \in Nat /\ place(c) <= c.hi /\ c.i <= place(c) /\ place(c) <= c.j
  BY <1>1, <1>2 DEF place
<1>4. Len(c.src) \in Nat
  BY <1>1
<1> QED
  BY <1>1, <1>2, <1>3, <1>4 DEF MergeRank

\* What the merge has still to write, and the place it takes next.
Left(c) == (c.i + 1 .. c.mid) \cup (c.j + 1 .. c.hi)
Taken(c) == (IF from_left(c) THEN c.i ELSE c.j) + 1

LEMMA TakenType ==
    ASSUME NEW c \in Merges, place(c) < c.hi
    PROVE  /\ from_left(c) => c.i < c.mid /\ Taken(c) = c.i + 1
           /\ ~from_left(c) => c.j < c.hi /\ Taken(c) = c.j + 1
           /\ Taken(c) \in 1 .. Len(c.src)
           /\ c.src[Taken(c)] \in Int
<1>1. c.i <= c.mid /\ c.mid <= c.j /\ c.j <= c.hi /\ c.hi <= Len(c.src) /\ c.src \in Seq(Int)
  BY MergeType
<1>2. c.i \in Nat /\ c.mid \in Nat /\ c.j \in Nat /\ c.hi \in Nat /\ Len(c.src) \in Nat
  BY MergeType
<1>3. from_left(c) => c.i < c.mid /\ Taken(c) = c.i + 1
  BY DEF from_left, Taken
<1>4. ~from_left(c) => c.j < c.hi /\ Taken(c) = c.j + 1
  <2>1. ~from_left(c) => Taken(c) = c.j + 1
    BY DEF Taken
  <2>2. c.i >= c.mid => c.j < c.hi
    BY <1>1, <1>2 DEF place
  <2>3. ~from_left(c) => ~(c.i < c.mid) \/ ~(c.j >= c.hi)
    BY DEF from_left
  <2> QED
    BY <1>1, <1>2, <2>1, <2>2, <2>3
<1>5. Taken(c) \in 1 .. Len(c.src)
  BY <1>1, <1>2, <1>3, <1>4
<1> QED
  BY <1>1, <1>3, <1>4, <1>5

LEMMA PutType ==
    ASSUME NEW a \in Seq(Int), NEW k, NEW x \in Int
    PROVE  /\ [a EXCEPT ![k] = x] \in Seq(Int)
           /\ Len([a EXCEPT ![k] = x]) = Len(a)
           /\ \A m \in 1 .. Len(a) : [a EXCEPT ![k] = x][m] = IF m = k THEN x ELSE a[m]
<1> DEFINE e == [a EXCEPT ![k] = x]
<1>1. DOMAIN a = 1 .. Len(a) /\ Len(a) \in Nat
  OBVIOUS
<1>2. e = [m \in 1 .. Len(a) |-> IF m = k THEN x ELSE a[m]]
  BY <1>1
<1>3. \A m \in 1 .. Len(a) : (IF m = k THEN x ELSE a[m]) \in Int
  OBVIOUS
<1> HIDE DEF e
<1>4. e \in Seq(Int) /\ Len(e) = Len(a)
  BY <1>1, <1>2, <1>3
<1>5. \A m \in 1 .. Len(a) : e[m] = IF m = k THEN x ELSE a[m]
  BY <1>2, Zenon
<1> QED
  BY <1>4, <1>5 DEF e

LEMMA LeftSplit ==
    ASSUME NEW i \in Nat, NEW mid \in Nat, NEW j \in Nat, NEW hi \in Nat, mid <= j
    PROVE  /\ i < mid => /\ (i + 1 .. mid) \cup (j + 1 .. hi)
                              = ((i + 1) + 1 .. mid) \cup (j + 1 .. hi) \cup {i + 1}
                         /\ i + 1 \notin ((i + 1) + 1 .. mid) \cup (j + 1 .. hi)
           /\ j < hi => /\ (i + 1 .. mid) \cup (j + 1 .. hi)
                              = (i + 1 .. mid) \cup ((j + 1) + 1 .. hi) \cup {j + 1}
                        /\ j + 1 \notin (i + 1 .. mid) \cup ((j + 1) + 1 .. hi)
<1>1. i < mid => i + 1 .. mid = ((i + 1) + 1 .. mid) \cup {i + 1}
  OBVIOUS
<1>2. j < hi => j + 1 .. hi = ((j + 1) + 1 .. hi) \cup {j + 1}
  OBVIOUS
<1>3. i < mid => i + 1 \notin ((i + 1) + 1 .. mid) \cup (j + 1 .. hi)
  OBVIOUS
<1>4. j < hi => j + 1 \notin (i + 1 .. mid) \cup ((j + 1) + 1 .. hi)
  OBVIOUS
<1> QED
  BY <1>1, <1>2, <1>3, <1>4

LEMMA MergeStepType ==
    ASSUME NEW c \in Merges, place(c) < c.hi
    PROVE  /\ merge_step(c) \in Merges
           /\ place(merge_step(c)) = place(c) + 1
           /\ MergeRank(merge_step(c)) = MergeRank(c) - 1
           /\ merge_step(c).src = c.src /\ merge_step(c).hi = c.hi /\ merge_step(c).float = c.float
           /\ merge_step(c).aux = [c.aux EXCEPT ![place(c) + 1] = c.src[Taken(c)]]
           /\ Left(c) = Left(merge_step(c)) \cup {Taken(c)}
           /\ Taken(c) \notin Left(merge_step(c))
           /\ Left(merge_step(c)) \subseteq Left(c)
<1> DEFINE s == merge_step(c)
           aux == [c.aux EXCEPT ![place(c) + 1] = c.src[Taken(c)]]
<1>1. c.i <= c.mid /\ c.mid <= c.j /\ c.j <= c.hi /\ c.hi <= Len(c.src) /\ c.src \in Seq(Int)
  BY MergeType
<1>2. c.i \in Nat /\ c.mid \in Nat /\ c.j \in Nat /\ c.hi \in Nat /\ Len(c.src) \in Nat
  BY MergeType
<1>3. c.float \in BOOLEAN /\ c.aux \in Seq(Int) /\ Len(c.aux) = Len(c.src)
  BY MergeType
<1>4. aux \in Seq(Int) /\ Len(aux) = Len(c.src)
  <2>1. c.src[Taken(c)] \in Int
    BY TakenType
  <2> QED
    BY <1>3, <2>1, PutType
<1>5. /\ s.src = c.src /\ s.hi = c.hi /\ s.mid = c.mid /\ s.float = c.float
      /\ s.i = IF from_left(c) THEN c.i + 1 ELSE c.i
      /\ s.j = IF from_left(c) THEN c.j ELSE c.j + 1
  BY DEF merge_step
<1>6. s.aux = aux
  BY DEF merge_step, Taken
<1>7. /\ s.i \in Nat /\ s.j \in Nat /\ s.i <= s.mid /\ s.mid <= s.j /\ s.j <= s.hi
      /\ s.i + s.j = c.i + c.j + 1
  <2> HIDE DEF s
  <2>1. (from_left(c) => c.i < c.mid) /\ (~from_left(c) => c.j < c.hi)
    BY TakenType
  <2>2. CASE from_left(c)
    BY <1>1, <1>2, <1>5, <2>1, <2>2
  <2>3. CASE ~from_left(c)
    <3>1. s.i = c.i /\ s.j = c.j + 1 /\ s.mid = c.mid /\ s.hi = c.hi /\ c.j < c.hi
      BY <1>5, <2>1, <2>3
    <3>2. s.i \in Nat /\ s.j \in Nat /\ s.i + s.j = c.i + c.j + 1
      BY <1>2, <3>1
    <3>3. s.i <= s.mid /\ s.mid <= s.j /\ s.j <= s.hi
      BY <1>1, <1>2, <3>1
    <3> QED
      BY <3>2, <3>3
  <2> QED
    BY <2>2, <2>3
<1>8. place(s) = place(c) + 1
  BY <1>2, <1>5, <1>7 DEF place
<1>9. s \in Merges
  <2>1. s \in [src : Seq(Int), aux : Seq(Int), i : Nat, mid : Nat, j : Nat, hi : Nat, float : BOOLEAN]
    <3>1. s = [src |-> s.src, aux |-> s.aux, i |-> s.i, mid |-> s.mid, j |-> s.j, hi |-> s.hi,
               float |-> s.float]
      BY DEF merge_step
    <3> HIDE DEF s, aux
    <3>2. /\ s.src \in Seq(Int) /\ s.aux \in Seq(Int) /\ s.i \in Nat /\ s.mid \in Nat /\ s.j \in Nat
          /\ s.hi \in Nat /\ s.float \in BOOLEAN
      BY <1>1, <1>2, <1>3, <1>4, <1>5, <1>6, <1>7
    <3> QED
      BY <3>1, <3>2
  <2>2. s.i <= s.mid /\ s.mid <= s.j /\ s.j <= s.hi /\ s.hi <= Len(s.src) /\ Len(s.aux) = Len(s.src)
    BY <1>1, <1>4, <1>5, <1>6, <1>7
  <2> HIDE DEF s
  <2> QED
    BY <2>1, <2>2 DEF Merges
<1> HIDE DEF s, aux
<1>10. Left(c) = Left(s) \cup {Taken(c)} /\ Taken(c) \notin Left(s) /\ Left(s) \subseteq Left(c)
  <2>1. CASE from_left(c)
    <3>1. /\ s.i = c.i + 1 /\ s.j = c.j /\ s.mid = c.mid /\ s.hi = c.hi
          /\ c.i < c.mid /\ Taken(c) = c.i + 1
      BY <1>5, <2>1, TakenType
    <3>2. /\ Left(c) = (c.i + 1 .. c.mid) \cup (c.j + 1 .. c.hi)
          /\ Left(s) = (s.i + 1 .. c.mid) \cup (s.j + 1 .. c.hi)
      BY <3>1 DEF Left
    <3>3. /\ (c.i + 1 .. c.mid) \cup (c.j + 1 .. c.hi)
               = ((c.i + 1) + 1 .. c.mid) \cup (c.j + 1 .. c.hi) \cup {c.i + 1}
          /\ c.i + 1 \notin ((c.i + 1) + 1 .. c.mid) \cup (c.j + 1 .. c.hi)
      BY <1>1, <1>2, <3>1, LeftSplit
    <3>4. Left(c) = Left(s) \cup {Taken(c)}
      BY <3>1, <3>2, <3>3, Zenon
    <3>5. Taken(c) \notin Left(s)
      BY <3>1, <3>2, <3>3, Zenon
    <3> QED
      BY <3>4, <3>5, Zenon
  <2>2. CASE ~from_left(c)
    <3>1. /\ s.i = c.i /\ s.j = c.j + 1 /\ s.mid = c.mid /\ s.hi = c.hi
          /\ c.j < c.hi /\ Taken(c) = c.j + 1
      BY <1>5, <2>2, TakenType
    <3>2. /\ Left(c) = (c.i + 1 .. c.mid) \cup (c.j + 1 .. c.hi)
          /\ Left(s) = (s.i + 1 .. c.mid) \cup (s.j + 1 .. c.hi)
      BY <3>1 DEF Left
    <3>3. /\ (c.i + 1 .. c.mid) \cup (c.j + 1 .. c.hi)
               = (c.i + 1 .. c.mid) \cup ((c.j + 1) + 1 .. c.hi) \cup {c.j + 1}
          /\ c.j + 1 \notin (c.i + 1 .. c.mid) \cup ((c.j + 1) + 1 .. c.hi)
      BY <1>1, <1>2, <3>1, LeftSplit
    <3>4. Left(c) = Left(s) \cup {Taken(c)}
      BY <3>1, <3>2, <3>3, Zenon
    <3>5. Taken(c) \notin Left(s)
      BY <3>1, <3>2, <3>3, Zenon
    <3> QED
      BY <3>4, <3>5, Zenon
  <2> QED
    BY <2>1, <2>2
<1>11. MergeRank(s) = MergeRank(c) - 1
  BY <1>2, <1>5, <1>8, MergeType DEF MergeRank
<1> QED
  BY <1>5, <1>6, <1>8, <1>9, <1>10, <1>11 DEF s, aux

LEMMA MergeIs == \A c \in Merges : merge_runs[c] = MergeBody(merge_runs, c)
<1>1. merge_runs = CHOOSE g : g = [c \in Merges |-> MergeBody(g, c)]
  BY Zenon DEF merge_runs, MergeBody
<1>2. Merging!Ranked
  BY MergeType, Zenon DEF Merging!Ranked
<1>3. Merging!Local
  <2> SUFFICES ASSUME NEW g, NEW h, NEW c \in Merges,
                      \A t \in Merges : MergeRank(t) < MergeRank(c) => g[t] = h[t]
               PROVE  MergeBody(g, c) = MergeBody(h, c)
    BY Zenon DEF Merging!Local
  <2>1. CASE place(c) >= c.hi
    BY <2>1, Zenon DEF MergeBody
  <2>2. CASE ~(place(c) >= c.hi)
    <3>1. place(c) < c.hi
      BY <2>2, MergeType
    <3>2. merge_step(c) \in Merges /\ MergeRank(merge_step(c)) = MergeRank(c) - 1
      BY <3>1, MergeStepType
    <3>3. MergeRank(merge_step(c)) < MergeRank(c)
      BY <3>2, MergeType
    <3>4. g[merge_step(c)] = h[merge_step(c)]
      BY <3>2, <3>3, Zenon
    <3> QED
      BY <3>4, Zenon DEF MergeBody
  <2> QED
    BY <2>1, <2>2
<1> QED
  BY <1>1, <1>2, <1>3, Merging!RecursiveFunction, Zenon

SortedOn(a, m, n) == \A p, q \in m .. n : p < q => a[p] <= a[q]
Comparable(a, float) == float => \A m \in 1 .. Len(a) : a[m] # NaN

MergeKeeps(c, r) ==
  /\ r \in Seq(Int) /\ Len(r) = Len(c.src)
  /\ \A m \in 1 .. Len(c.src) : m <= place(c) \/ m > c.hi => r[m] = c.aux[m]
  /\ Same(r, place(c) + 1 .. c.hi, c.src, Left(c))
MergeSorts(c, r) ==
  Comparable(c.src, c.float) /\ SortedOn(c.src, c.i + 1, c.mid) /\ SortedOn(c.src, c.j + 1, c.hi)
    => SortedOn(r, place(c) + 1, c.hi)

LEMMA LeftFinite ==
    ASSUME NEW c \in Merges
    PROVE  IsFiniteSet(Left(c)) /\ Left(c) \subseteq 1 .. Len(c.src)
<1>1. c.i \in Nat /\ c.mid \in Nat /\ c.j \in Nat /\ c.hi \in Nat /\ Len(c.src) \in Nat
  BY MergeType
<1>2. c.i <= c.mid /\ c.mid <= c.j /\ c.j <= c.hi /\ c.hi <= Len(c.src)
  BY MergeType
<1>3. c.i + 1 \in Int /\ c.mid \in Int /\ c.j + 1 \in Int /\ c.hi \in Int
  BY <1>1
<1>4. IsFiniteSet(c.i + 1 .. c.mid) /\ IsFiniteSet(c.j + 1 .. c.hi)
  BY <1>3, IntervalFinite, Zenon
<1>5. IsFiniteSet((c.i + 1 .. c.mid) \cup (c.j + 1 .. c.hi))
  BY <1>4, FS_Union, Zenon
<1> QED
  BY <1>1, <1>2, <1>5 DEF Left

\* The number taken is not above one that is left.
LEMMA TakenLeast ==
    ASSUME NEW c \in Merges, place(c) < c.hi, Comparable(c.src, c.float),
           SortedOn(c.src, c.i + 1, c.mid), SortedOn(c.src, c.j + 1, c.hi), NEW q \in Left(c)
    PROVE  c.src[Taken(c)] <= c.src[q]
<1>1. c.i <= c.mid /\ c.mid <= c.j /\ c.j <= c.hi /\ c.hi <= Len(c.src)
  BY MergeType
<1>2. c.i \in Nat /\ c.mid \in Nat /\ c.j \in Nat /\ c.hi \in Nat /\ Len(c.src) \in Nat
  BY MergeType
<1>3. \A m \in 1 .. Len(c.src) : c.src[m] \in Int
  <2>1. c.src \in Seq(Int)
    BY MergeType
  <2> QED
    BY <2>1
<1>4. q \in 1 .. Len(c.src) /\ (q \in c.i + 1 .. c.mid \/ q \in c.j + 1 .. c.hi)
  BY LeftFinite DEF Left
<1>5. ASSUME c.i < c.mid, q \in c.i + 1 .. c.mid PROVE c.src[c.i + 1] <= c.src[q]
  <2>1. CASE q = c.i + 1
    BY <1>3, <1>4, <2>1
  <2>2. CASE q # c.i + 1
    <3>1. c.i + 1 \in c.i + 1 .. c.mid /\ c.i + 1 < q
      BY <1>2, <1>5, <2>2
    <3> QED
      BY <1>5, <3>1, Zenon DEF SortedOn
  <2> QED
    BY <2>1, <2>2
<1>6. ASSUME c.j < c.hi, q \in c.j + 1 .. c.hi PROVE c.src[c.j + 1] <= c.src[q]
  <2>1. CASE q = c.j + 1
    BY <1>3, <1>4, <2>1
  <2>2. CASE q # c.j + 1
    <3>1. c.j + 1 \in c.j + 1 .. c.hi /\ c.j + 1 < q
      BY <1>2, <1>6, <2>2
    <3> QED
      BY <1>6, <3>1, Zenon DEF SortedOn
  <2> QED
    BY <2>1, <2>2
<1>7. CASE from_left(c)
  <2>1. c.i < c.mid /\ Taken(c) = c.i + 1
    BY <1>7, TakenType
  <2>2. CASE q \in c.i + 1 .. c.mid
    BY <1>5, <2>1, <2>2
  <2>3. CASE q \in c.j + 1 .. c.hi
    <3>1. c.j < c.hi
      BY <1>2, <2>3
    <3>2. c.src[c.i + 1] <= c.src[c.j + 1]
      BY <1>2, <1>7, <3>1 DEF from_left, le, i64_le
    <3>3. c.i + 1 \in 1 .. Len(c.src) /\ c.j + 1 \in 1 .. Len(c.src)
      BY <1>1, <1>2, <2>1, <3>1
    <3>4. c.src[c.i + 1] \in Int /\ c.src[c.j + 1] \in Int /\ c.src[q] \in Int
      BY <1>3, <1>4, <3>3
    <3> QED
      BY <1>6, <2>1, <2>3, <3>1, <3>2, <3>4
  <2> QED
    BY <1>4, <2>2, <2>3
<1>8. CASE ~from_left(c)
  <2>1. c.j < c.hi /\ Taken(c) = c.j + 1
    BY <1>8, TakenType
  <2>2. CASE q \in c.j + 1 .. c.hi
    BY <1>6, <2>1, <2>2
  <2>3. CASE q \in c.i + 1 .. c.mid
    <3>1. c.i < c.mid
      BY <1>2, <2>3
    <3>2. c.i + 1 \in 1 .. Len(c.src) /\ c.j + 1 \in 1 .. Len(c.src)
      BY <1>1, <1>2, <2>1, <3>1
    <3>3. c.src[c.i + 1] \in Int /\ c.src[c.j + 1] \in Int /\ c.src[q] \in Int
      BY <1>3, <1>4, <3>2
    <3>4. c.float => c.src[c.i + 1] # NaN /\ c.src[c.j + 1] # NaN
      BY <3>2, Zenon DEF Comparable
    <3>5. ~(c.src[c.i + 1] <= c.src[c.j + 1])
      BY <1>8, <3>1, <3>4 DEF from_left, le, i64_le
    <3>6. c.src[c.i + 1] <= c.src[q]
      BY <1>5, <2>3, <3>1
    <3> QED
      BY <2>1, <3>3, <3>5, <3>6
  <2> QED
    BY <1>4, <2>2, <2>3
<1> QED
  BY <1>7, <1>8

LEMMA MergeDone ==
    ASSUME NEW c \in Merges, place(c) >= c.hi
    PROVE  MergeKeeps(c, c.aux) /\ MergeSorts(c, c.aux)
<1>1. c.i <= c.mid /\ c.mid <= c.j /\ c.j <= c.hi
  BY MergeType
<1>2. c.i \in Nat /\ c.mid \in Nat /\ c.j \in Nat /\ c.hi \in Nat /\ place(c) \in Nat
  BY MergeType
<1>3. place(c) = c.hi
  BY <1>2, MergeType
<1>4. c.i = c.mid /\ c.j = c.hi
  BY <1>1, <1>2, <1>3 DEF place
<1>5. place(c) + 1 .. c.hi = {} /\ Left(c) = {}
  BY <1>2, <1>3, <1>4 DEF Left
<1>6. Same(c.aux, place(c) + 1 .. c.hi, c.src, Left(c))
  BY <1>5, CountNone, Zenon DEF Same
<1>7. c.aux \in Seq(Int) /\ Len(c.aux) = Len(c.src)
  BY MergeType
<1>8. SortedOn(c.aux, place(c) + 1, c.hi)
  BY <1>5, Zenon DEF SortedOn
<1>9. \A m \in 1 .. Len(c.src) : m <= place(c) \/ m > c.hi => c.aux[m] = c.aux[m]
  OBVIOUS
<1> QED
  BY <1>6, <1>7, <1>8, <1>9, Zenon DEF MergeKeeps, MergeSorts

LEMMA MergeOnKeeps ==
    ASSUME NEW c \in Merges, place(c) < c.hi, NEW r, MergeKeeps(merge_step(c), r)
    PROVE  MergeKeeps(c, r) /\ r[place(c) + 1] = c.src[Taken(c)]
<1> DEFINE s == merge_step(c)
           k == place(c)
<1>1. s \in Merges /\ place(s) = k + 1
  BY MergeStepType
<1>2. s.src = c.src /\ s.hi = c.hi /\ s.aux = [c.aux EXCEPT ![k + 1] = c.src[Taken(c)]]
  BY MergeStepType
<1>3. Left(c) = Left(s) \cup {Taken(c)} /\ Taken(c) \notin Left(s)
  BY MergeStepType
<1>4. c.hi \in Nat /\ k \in Nat /\ Len(c.src) \in Nat /\ c.hi <= Len(c.src) /\ k < c.hi
  BY MergeType
<1>5. c.aux \in Seq(Int) /\ Len(c.aux) = Len(c.src)
  BY MergeType
<1>6. c.src[Taken(c)] \in Int
  BY TakenType
<1> HIDE DEF s
<1>7. \A m \in 1 .. Len(c.src) : s.aux[m] = IF m = k + 1 THEN c.src[Taken(c)] ELSE c.aux[m]
  BY <1>2, <1>5, <1>6, PutType
<1>8. \A m \in 1 .. Len(c.src) : m <= k + 1 \/ m > c.hi => r[m] = s.aux[m]
  <2>1. MergeKeeps(s, r)
    BY DEF s
  <2>2. \A m \in 1 .. Len(s.src) : m <= place(s) \/ m > s.hi => r[m] = s.aux[m]
    BY <2>1, Zenon DEF MergeKeeps
  <2> QED
    BY <1>1, <1>2, <2>2, Zenon
<1> HIDE DEF k
<1>9. k + 1 \in 1 .. Len(c.src) /\ k + 1 <= k + 1
  BY <1>4
<1>10. r[k + 1] = c.src[Taken(c)]
  BY <1>7, <1>8, <1>9, Zenon
<1>11. \A m \in 1 .. Len(c.src) : m <= k \/ m > c.hi => r[m] = c.aux[m]
  <2> SUFFICES ASSUME NEW m \in 1 .. Len(c.src), m <= k \/ m > c.hi PROVE r[m] = c.aux[m]
    BY Zenon
  <2>1. (m <= k + 1 \/ m > c.hi) /\ m # k + 1
    BY <1>4
  <2> QED
    BY <1>7, <1>8, <2>1
<1>12. Same(r, k + 1 .. c.hi, c.src, Left(c))
  <2>1. MergeKeeps(s, r)
    BY DEF s
  <2>2. Same(r, place(s) + 1 .. s.hi, s.src, Left(s))
    BY <2>1, Zenon DEF MergeKeeps
  <2>3. Same(r, (k + 1) + 1 .. c.hi, c.src, Left(s))
    BY <1>1, <1>2, <2>2, Zenon DEF k
  <2>4. IsFiniteSet(Left(s))
    BY <1>1, LeftFinite
  <2>5. (k + 1) + 1 \in Int /\ c.hi \in Int
    BY <1>4
  <2>6. IsFiniteSet((k + 1) + 1 .. c.hi)
    BY <2>5, IntervalFinite, Zenon
  <2>7. k + 1 \notin (k + 1) + 1 .. c.hi
    BY <1>4
  <2>8. k + 1 .. c.hi = ((k + 1) + 1 .. c.hi) \cup {k + 1}
    BY <1>4
  <2>9. Same(r, ((k + 1) + 1 .. c.hi) \cup {k + 1}, c.src, Left(s) \cup {Taken(c)})
    BY <1>3, <1>10, <2>3, <2>4, <2>6, <2>7, SameAdd
  <2> QED
    BY <1>3, <2>8, <2>9, Zenon
<1>13. r \in Seq(Int) /\ Len(r) = Len(c.src)
  BY <1>2 DEF MergeKeeps, s
<1> QED
  BY <1>10, <1>11, <1>12, <1>13, Zenon DEF MergeKeeps, k

LEMMA SortedCons ==
    ASSUME NEW r, NEW k \in Nat, NEW hi \in Nat, SortedOn(r, (k + 1) + 1, hi),
           \A m \in (k + 1) + 1 .. hi : r[k + 1] <= r[m]
    PROVE  SortedOn(r, k + 1, hi)
<1> SUFFICES ASSUME NEW p \in k + 1 .. hi, NEW q \in k + 1 .. hi, p < q PROVE r[p] <= r[q]
  BY Zenon DEF SortedOn
<1>1. q \in (k + 1) + 1 .. hi
  OBVIOUS
<1>2. CASE p = k + 1
  BY <1>1, <1>2, Zenon
<1>3. CASE p # k + 1
  <2>1. p \in (k + 1) + 1 .. hi
    BY <1>3
  <2> QED
    BY <1>1, <2>1, Zenon DEF SortedOn
<1> QED
  BY <1>2, <1>3

LEMMA MergeOnSorts ==
    ASSUME NEW c \in Merges, place(c) < c.hi, NEW r, MergeKeeps(merge_step(c), r),
           MergeSorts(merge_step(c), r)
    PROVE  MergeSorts(c, r)
<1> SUFFICES ASSUME Comparable(c.src, c.float), SortedOn(c.src, c.i + 1, c.mid),
                    SortedOn(c.src, c.j + 1, c.hi)
             PROVE  SortedOn(r, place(c) + 1, c.hi)
  BY Zenon DEF MergeSorts
<1> DEFINE s == merge_step(c)
           k == place(c)
<1>1. s \in Merges /\ place(s) = k + 1
  BY MergeStepType
<1>2. s.src = c.src /\ s.hi = c.hi /\ s.float = c.float /\ Left(s) \subseteq Left(c)
  BY MergeStepType
<1>3. /\ c.i \in Nat /\ c.mid \in Nat /\ c.j \in Nat /\ c.hi \in Nat /\ k \in Nat /\ Len(c.src) \in Nat
      /\ c.hi <= Len(c.src)
  BY MergeType
<1>4. /\ s.mid = c.mid
      /\ s.i = c.i \/ s.i = c.i + 1
      /\ s.j = c.j \/ s.j = c.j + 1
  BY DEF merge_step
<1> HIDE DEF s, k
<1>5. SortedOn(s.src, s.i + 1, s.mid) /\ SortedOn(s.src, s.j + 1, s.hi)
  <2>1. (s.i + 1 .. s.mid) \subseteq (c.i + 1 .. c.mid)
    BY <1>3, <1>4
  <2>2. (s.j + 1 .. s.hi) \subseteq (c.j + 1 .. c.hi)
    BY <1>2, <1>3, <1>4
  <2> QED
    BY <1>2, <2>1, <2>2, Zenon DEF SortedOn
<1>6. SortedOn(r, (k + 1) + 1, c.hi)
  <2>1. MergeSorts(s, r)
    BY DEF s
  <2>2. SortedOn(r, place(s) + 1, s.hi)
    BY <1>2, <1>5, <2>1, Zenon DEF MergeSorts
  <2> QED
    BY <1>1, <1>2, <2>2, Zenon
<1>7. ASSUME NEW m \in (k + 1) + 1 .. c.hi PROVE r[k + 1] <= r[m]
  <2>1. MergeKeeps(s, r)
    BY DEF s
  <2>2. Same(r, place(s) + 1 .. s.hi, s.src, Left(s))
    BY <2>1, Zenon DEF MergeKeeps
  <2>3. Same(r, (k + 1) + 1 .. c.hi, c.src, Left(s))
    BY <1>1, <1>2, <2>2, Zenon
  <2>4. IsFiniteSet(Left(s))
    BY <1>1, LeftFinite
  <2>5. (k + 1) + 1 \in Int /\ c.hi \in Int
    BY <1>3
  <2>6. IsFiniteSet((k + 1) + 1 .. c.hi)
    BY <2>5, IntervalFinite, Zenon
  <2>7. r[m] \in Int
    <3>1. m \in 1 .. Len(c.src)
      BY <1>3
    <3>2. r \in Seq(Int) /\ Len(r) = Len(c.src)
      BY <1>2, <2>1 DEF MergeKeeps
    <3> QED
      BY <3>1, <3>2
  <2>8. PICK q \in Left(s) : c.src[q] = r[m]
    <3> DEFINE I == (k + 1) + 1 .. c.hi
    <3>1. IsFiniteSet(I) /\ Same(r, I, c.src, Left(s)) /\ m \in I
      BY <1>7, <2>3, <2>6, Zenon
    <3> HIDE DEF I
    <3> QED
      BY <2>4, <2>7, <3>1, SameElement
  <2>9. q \in Left(c)
    BY <1>2, <2>8, Zenon
  <2>10. c.src[Taken(c)] <= c.src[q]
    BY <2>9, TakenLeast
  <2>11. r[k + 1] = c.src[Taken(c)]
    BY MergeOnKeeps DEF k
  <2> QED
    BY <2>8, <2>10, <2>11, Zenon
<1>8. SortedOn(r, k + 1, c.hi)
  BY <1>3, <1>6, <1>7, SortedCons
<1> QED
  BY <1>8, Zenon DEF k

\* What a merge does.
LEMMA Merged ==
    ASSUME NEW c \in Merges
    PROVE  MergeKeeps(c, merge_runs[c]) /\ MergeSorts(c, merge_runs[c])
<1> DEFINE M(d) == MergeKeeps(d, merge_runs[d]) /\ MergeSorts(d, merge_runs[d])
           S == {n \in Nat : \A d \in Merges : MergeRank(d) = n => M(d)}
<1>1. ASSUME NEW d \in Merges, place(d) >= d.hi PROVE M(d)
  <2>1. merge_runs[d] = d.aux
    BY <1>1, MergeIs, Zenon DEF MergeBody
  <2>2. MergeKeeps(d, d.aux) /\ MergeSorts(d, d.aux)
    BY <1>1, MergeDone
  <2> QED
    BY <2>1, <2>2, Zenon
<1>2. 0 \in S
  <2> SUFFICES ASSUME NEW d \in Merges, MergeRank(d) = 0 PROVE M(d)
    OBVIOUS
  <2>1. place(d) >= d.hi
    BY MergeType DEF MergeRank
  <2> QED
    BY <1>1, <2>1
<1>3. ASSUME NEW n \in Nat, n \in S PROVE n + 1 \in S
  <2> SUFFICES ASSUME NEW d \in Merges, MergeRank(d) = n + 1 PROVE M(d)
    OBVIOUS
  <2>1. place(d) < d.hi /\ ~(place(d) >= d.hi)
    BY MergeType DEF MergeRank
  <2>2. merge_step(d) \in Merges /\ MergeRank(merge_step(d)) = n
    <3>1. merge_step(d) \in Merges /\ MergeRank(merge_step(d)) = MergeRank(d) - 1
      BY <2>1, MergeStepType
    <3> QED
      BY <3>1
  <2>3. merge_runs[d] = merge_runs[merge_step(d)]
    BY <2>1, MergeIs, Zenon DEF MergeBody
  <2> DEFINE r == merge_runs[d]
  <2>4. MergeKeeps(merge_step(d), r) /\ MergeSorts(merge_step(d), r)
    BY <1>3, <2>2, <2>3, Zenon
  <2> HIDE DEF r
  <2>5. MergeKeeps(d, r)
    BY <2>1, <2>4, MergeOnKeeps
  <2>6. MergeSorts(d, r)
    BY <2>1, <2>4, MergeOnSorts
  <2> QED
    BY <2>5, <2>6, Zenon DEF r
<1> HIDE DEF S, M
<1>4. \A n \in Nat : n \in S
  BY <1>2, <1>3, Merging!NatInduct
<1>5. MergeRank(c) \in S
  BY <1>4, MergeType
<1>6. M(c)
  BY <1>5, Zenon DEF S
<1> QED
  BY <1>6, Zenon DEF M

-----------------------------------------------------------------------------
(***************************************************************************)
(* The pass.                                                               *)
(***************************************************************************)
PassBody(g, c) == IF c.lo >= Len(c.src) THEN c.aux ELSE g[pass_step(c)]
PassRank(c) == IF c.lo < Len(c.src) THEN Len(c.src) - c.lo ELSE 0

Passing == INSTANCE RecursiveFunctions WITH D <- Passes, Rank <- PassRank, Body <- PassBody

LEMMA PassType ==
    ASSUME NEW c \in Passes
    PROVE  /\ c.src \in Seq(Int) /\ c.aux \in Seq(Int) /\ Len(c.aux) = Len(c.src) /\ Len(c.src) \in Nat
           /\ c.lo \in Nat /\ c.width \in Nat /\ c.width > 0 /\ c.float \in BOOLEAN
           /\ PassRank(c) \in Nat
<1>1. /\ c.src \in Seq(Int) /\ c.aux \in Seq(Int)
      /\ c.lo \in Nat /\ c.width \in Nat \ {0} /\ c.float \in BOOLEAN
  BY DEF Passes
<1>2. Len(c.aux) = Len(c.src)
  BY DEF Passes
<1>3. Len(c.src) \in Nat
  BY <1>1
<1> QED
  BY <1>1, <1>2, <1>3 DEF PassRank

Upto(c) == Least(c.lo + 2 * c.width, Len(c.src))
Middle(c) == Least(c.lo + c.width, Len(c.src))

LEMMA MergeOfType ==
    ASSUME NEW c \in Passes, c.lo < Len(c.src)
    PROVE  /\ merge_of(c) \in Merges
           /\ place(merge_of(c)) = c.lo
           /\ Left(merge_of(c)) = c.lo + 1 .. Upto(c)
           /\ merge_of(c).src = c.src /\ merge_of(c).aux = c.aux /\ merge_of(c).float = c.float
           /\ merge_of(c).i = c.lo /\ merge_of(c).mid = Middle(c) /\ merge_of(c).j = Middle(c)
           /\ merge_of(c).hi = Upto(c)
           /\ Middle(c) \in Nat /\ Upto(c) \in Nat
           /\ c.lo <= Middle(c) /\ Middle(c) <= Upto(c) /\ Upto(c) <= Len(c.src)
           /\ Middle(c) <= c.lo + c.width /\ Upto(c) <= c.lo + 2 * c.width
           /\ Middle(c) = c.lo + c.width \/ Middle(c) = Upto(c)
           /\ Upto(c) = c.lo + 2 * c.width \/ Upto(c) = Len(c.src)
<1> DEFINE d == merge_of(c)
<1>1. c.lo \in Nat /\ c.width \in Nat /\ c.width > 0 /\ Len(c.src) \in Nat
  BY PassType
<1>2. c.src \in Seq(Int) /\ c.aux \in Seq(Int) /\ Len(c.aux) = Len(c.src) /\ c.float \in BOOLEAN
  BY PassType
<1>3. /\ Middle(c) \in Nat /\ Upto(c) \in Nat
      /\ c.lo <= Middle(c) /\ Middle(c) <= Upto(c) /\ Upto(c) <= Len(c.src)
  BY <1>1 DEF Middle, Upto, Least
<1>4. /\ Middle(c) <= c.lo + c.width /\ Upto(c) <= c.lo + 2 * c.width
      /\ Middle(c) = c.lo + c.width \/ Middle(c) = Upto(c)
      /\ Upto(c) = c.lo + 2 * c.width \/ Upto(c) = Len(c.src)
  BY <1>1 DEF Middle, Upto, Least
<1>5. d = [src |-> c.src, aux |-> c.aux, i |-> c.lo, mid |-> Middle(c), j |-> Middle(c),
           hi |-> Upto(c), float |-> c.float]
  BY Zenon DEF merge_of, Middle, Upto
<1> HIDE DEF d
<1>6. /\ d.src = c.src /\ d.aux = c.aux /\ d.float = c.float
      /\ d.i = c.lo /\ d.mid = Middle(c) /\ d.j = Middle(c) /\ d.hi = Upto(c)
  BY <1>5
<1>7. d \in [src : Seq(Int), aux : Seq(Int), i : Nat, mid : Nat, j : Nat, hi : Nat, float : BOOLEAN]
  BY <1>1, <1>2, <1>3, <1>5
<1>8. d.i <= d.mid /\ d.mid <= d.j /\ d.j <= d.hi /\ d.hi <= Len(d.src) /\ Len(d.aux) = Len(d.src)
  BY <1>2, <1>3, <1>6
<1>9. d \in Merges
  BY <1>7, <1>8 DEF Merges
<1>10. place(d) = c.lo
  BY <1>1, <1>3, <1>6 DEF place
<1>11. Left(d) = c.lo + 1 .. Upto(c)
  <2>1. Left(d) = (c.lo + 1 .. Middle(c)) \cup (Middle(c) + 1 .. Upto(c))
    BY <1>6, Zenon DEF Left
  <2> QED
    BY <1>1, <1>3, <2>1
<1> QED
  BY <1>3, <1>4, <1>6, <1>9, <1>10, <1>11 DEF d

LEMMA PassStepType ==
    ASSUME NEW c \in Passes, c.lo < Len(c.src)
    PROVE  /\ pass_step(c) \in Passes
           /\ pass_step(c).src = c.src /\ pass_step(c).float = c.float /\ pass_step(c).width = c.width
           /\ pass_step(c).lo = c.lo + 2 * c.width
           /\ pass_step(c).aux = merge_runs[merge_of(c)]
           /\ PassRank(pass_step(c)) < PassRank(c)
<1> DEFINE s == pass_step(c)
           a == merge_runs[merge_of(c)]
<1>1. c.lo \in Nat /\ c.width \in Nat /\ c.width > 0 /\ Len(c.src) \in Nat
  BY PassType
<1>2. c.src \in Seq(Int) /\ c.float \in BOOLEAN
  BY PassType
<1>3. a \in Seq(Int) /\ Len(a) = Len(c.src)
  <2>1. merge_of(c) \in Merges /\ merge_of(c).src = c.src
    BY MergeOfType
  <2>2. MergeKeeps(merge_of(c), a)
    BY <2>1, Merged
  <2> QED
    BY <2>1, <2>2 DEF MergeKeeps
<1> HIDE DEF a
<1>4. s = [src |-> c.src, aux |-> a, lo |-> c.lo + 2 * c.width, width |-> c.width, float |-> c.float]
  BY Zenon DEF pass_step, a
<1> HIDE DEF s
<1>5. /\ s.src = c.src /\ s.aux = a /\ s.lo = c.lo + 2 * c.width /\ s.width = c.width
      /\ s.float = c.float
  BY <1>4
<1>6. c.lo + 2 * c.width \in Nat /\ c.width \in Nat \ {0}
  BY <1>1
<1>7. s \in [src : Seq(Int), aux : Seq(Int), lo : Nat, width : Nat \ {0}, float : BOOLEAN]
  BY <1>2, <1>3, <1>4, <1>6
<1>8. s \in Passes
  BY <1>3, <1>5, <1>7 DEF Passes
<1>9. PassRank(s) < PassRank(c)
  BY <1>1, <1>5 DEF PassRank
<1> QED
  BY <1>5, <1>8, <1>9 DEF s, a

LEMMA PassIs == \A c \in Passes : sort_pass[c] = PassBody(sort_pass, c)
<1>1. sort_pass = CHOOSE g : g = [c \in Passes |-> PassBody(g, c)]
  BY Zenon DEF sort_pass, PassBody
<1>2. Passing!Ranked
  BY PassType, Zenon DEF Passing!Ranked
<1>3. Passing!Local
  <2> SUFFICES ASSUME NEW g, NEW h, NEW c \in Passes,
                      \A t \in Passes : PassRank(t) < PassRank(c) => g[t] = h[t]
               PROVE  PassBody(g, c) = PassBody(h, c)
    BY Zenon DEF Passing!Local
  <2>1. CASE c.lo >= Len(c.src)
    BY <2>1, Zenon DEF PassBody
  <2>2. CASE ~(c.lo >= Len(c.src))
    <3>1. c.lo < Len(c.src)
      BY <2>2, PassType
    <3>2. pass_step(c) \in Passes /\ PassRank(pass_step(c)) < PassRank(c)
      BY <3>1, PassStepType
    <3>3. g[pass_step(c)] = h[pass_step(c)]
      BY <3>2, Zenon
    <3> QED
      BY <3>3, Zenon DEF PassBody
  <2> QED
    BY <2>1, <2>2
<1> QED
  BY <1>1, <1>2, <1>3, Passing!RecursiveFunction, Zenon

\* The runs of width w that follow lo are each in order.
SortedFrom(a, lo, w) ==
  \A u \in Nat : \A p, q \in 1 .. Len(a) :
    lo + u * w < p /\ p < q /\ q <= lo + u * w + w => a[p] <= a[q]

PassKeeps(c, r) ==
  /\ r \in Seq(Int) /\ Len(r) = Len(c.src)
  /\ \A m \in 1 .. Len(c.src) : m <= c.lo => r[m] = c.aux[m]
  /\ Same(r, c.lo + 1 .. Len(c.src), c.src, c.lo + 1 .. Len(c.src))
PassSorts(c, r) ==
  Comparable(c.src, c.float) /\ SortedFrom(c.src, c.lo, c.width) => SortedFrom(r, c.lo, 2 * c.width)

LEMMA PassDone ==
    ASSUME NEW c \in Passes, c.lo >= Len(c.src)
    PROVE  PassKeeps(c, c.aux) /\ PassSorts(c, c.aux)
<1>1. c.lo \in Nat /\ c.width \in Nat /\ c.width > 0 /\ Len(c.src) \in Nat
  BY PassType
<1>2. c.aux \in Seq(Int) /\ Len(c.aux) = Len(c.src)
  BY PassType
<1>3. c.lo + 1 .. Len(c.src) = {}
  BY <1>1
<1>4. Same(c.aux, c.lo + 1 .. Len(c.src), c.src, c.lo + 1 .. Len(c.src))
  BY <1>3, CountNone, Zenon DEF Same
<1>5. SortedFrom(c.aux, c.lo, 2 * c.width)
  <2> SUFFICES ASSUME NEW u \in Nat, NEW p \in 1 .. Len(c.aux), c.lo + u * (2 * c.width) < p
               PROVE  FALSE
    BY Zenon DEF SortedFrom
  <2>1. u * (2 * c.width) \in Nat
    BY <1>1
  <2> QED
    BY <1>1, <1>2, <2>1
<1> QED
  BY <1>2, <1>4, <1>5, Zenon DEF PassKeeps, PassSorts

LEMMA PassOnKeeps ==
    ASSUME NEW c \in Passes, c.lo < Len(c.src), NEW r, PassKeeps(pass_step(c), r)
    PROVE  PassKeeps(c, r)
<1> DEFINE a == merge_runs[merge_of(c)]
           hi == Upto(c)
           n == Len(c.src)
           next == c.lo + 2 * c.width
<1>1. c.lo \in Nat /\ c.width \in Nat /\ c.width > 0 /\ n \in Nat
  BY PassType
<1>2. hi \in Nat /\ c.lo <= hi /\ hi <= n /\ hi <= next /\ (hi = next \/ hi = n) /\ next \in Nat
  BY <1>1, MergeOfType
<1>3. /\ merge_of(c) \in Merges /\ place(merge_of(c)) = c.lo /\ merge_of(c).src = c.src
      /\ merge_of(c).aux = c.aux /\ merge_of(c).hi = hi /\ Left(merge_of(c)) = c.lo + 1 .. hi
  BY MergeOfType
<1>4. MergeKeeps(merge_of(c), a)
  BY <1>3, Merged
<1>5. pass_step(c).src = c.src /\ pass_step(c).lo = next /\ pass_step(c).aux = a
  BY PassStepType
<1> HIDE DEF a, next, hi, n
<1>6. r \in Seq(Int) /\ Len(r) = n
  BY <1>5 DEF PassKeeps, n
<1>7. \A m \in 1 .. n : m <= next => r[m] = a[m]
  BY <1>5, Zenon DEF PassKeeps, n
<1>8. Same(r, next + 1 .. n, c.src, next + 1 .. n)
  BY <1>5, Zenon DEF PassKeeps, n
<1>9. \A m \in 1 .. n : m <= c.lo \/ m > hi => a[m] = c.aux[m]
  BY <1>3, <1>4, Zenon DEF MergeKeeps, n
<1>10. Same(a, c.lo + 1 .. hi, c.src, c.lo + 1 .. hi)
  BY <1>3, <1>4, Zenon DEF MergeKeeps
<1>11. \A m \in 1 .. n : m <= c.lo => r[m] = c.aux[m]
  <2> SUFFICES ASSUME NEW m \in 1 .. n, m <= c.lo PROVE r[m] = c.aux[m]
    BY Zenon
  <2>1. m <= next
    BY <1>1 DEF next
  <2> QED
    BY <1>7, <1>9, <2>1, Zenon
<1>12. Same(r, c.lo + 1 .. hi, c.src, c.lo + 1 .. hi)
  <2>1. \A m \in c.lo + 1 .. hi : m \in 1 .. n /\ m <= next
    BY <1>1, <1>2
  <2>2. \A m \in c.lo + 1 .. hi : r[m] = a[m]
    BY <1>7, <2>1, Zenon
  <2>3. \A x \in Int : Count(r, c.lo + 1 .. hi, x) = Count(a, c.lo + 1 .. hi, x)
    <3> DEFINE I == c.lo + 1 .. hi
    <3>1. \A m \in I : r[m] = a[m]
      BY <2>2
    <3> HIDE DEF I
    <3>2. \A x \in Int : Count(r, I, x) = Count(a, I, x)
      BY <3>1, CountEqual
    <3> QED
      BY <3>2 DEF I
  <2> QED
    BY <1>10, <2>3, Zenon DEF Same
<1>13. next + 1 .. n = hi + 1 .. n
  <2>1. CASE hi = next
    BY <2>1, Zenon
  <2>2. CASE hi = n
    BY <1>2, <1>1, <2>2
  <2> QED
    BY <1>2, <2>1, <2>2
<1>14. Same(r, c.lo + 1 .. n, c.src, c.lo + 1 .. n)
  <2> DEFINE I == c.lo + 1 .. hi
             J == hi + 1 .. n
  <2>1. I \cap J = {} /\ c.lo + 1 .. n = I \cup J
    BY <1>1, <1>2
  <2>2. c.lo + 1 \in Int /\ hi \in Int /\ hi + 1 \in Int /\ n \in Int
    BY <1>1, <1>2
  <2>3. IsFiniteSet(I)
    BY <2>2, IntervalFinite
  <2>4. IsFiniteSet(J)
    BY <2>2, IntervalFinite
  <2>5. Same(r, I, c.src, I)
    BY <1>12
  <2>6. Same(r, J, c.src, J)
    BY <1>8, <1>13, Zenon
  <2> HIDE DEF I, J
  <2>7. Same(r, I \cup J, c.src, I \cup J)
    BY <2>1, <2>3, <2>4, <2>5, <2>6, SameUnion
  <2> QED
    BY <2>1, <2>7, Zenon
<1> QED
  BY <1>6, <1>11, <1>14, Zenon DEF PassKeeps, n

LEMMA PassOnSorts ==
    ASSUME NEW c \in Passes, c.lo < Len(c.src), NEW r, PassKeeps(pass_step(c), r),
           PassSorts(pass_step(c), r)
    PROVE  PassSorts(c, r)
<1> SUFFICES ASSUME Comparable(c.src, c.float), SortedFrom(c.src, c.lo, c.width)
             PROVE  SortedFrom(r, c.lo, 2 * c.width)
  BY Zenon DEF PassSorts
<1> DEFINE a == merge_runs[merge_of(c)]
           lo == c.lo
           w == c.width
           hi == Upto(c)
           mid == Middle(c)
           n == Len(c.src)
<1>1. lo \in Nat /\ w \in Nat /\ w > 0 /\ n \in Nat
  BY PassType
<1>2. /\ hi \in Nat /\ mid \in Nat /\ lo <= mid /\ mid <= hi /\ hi <= n
      /\ mid <= lo + w /\ hi <= lo + 2 * w
      /\ (mid = lo + w \/ mid = hi)
      /\ (hi = lo + 2 * w \/ hi = n)
  BY MergeOfType
<1>3. /\ merge_of(c) \in Merges /\ place(merge_of(c)) = lo /\ merge_of(c).src = c.src
      /\ merge_of(c).i = lo /\ merge_of(c).mid = mid /\ merge_of(c).j = mid
      /\ merge_of(c).hi = hi /\ merge_of(c).float = c.float
  BY MergeOfType
<1>4. MergeSorts(merge_of(c), a)
  BY <1>3, Merged
<1>5. /\ pass_step(c).src = c.src /\ pass_step(c).lo = lo + 2 * w /\ pass_step(c).aux = a
      /\ pass_step(c).width = w /\ pass_step(c).float = c.float
  BY PassStepType
<1> HIDE DEF a
<1>6. Len(r) = n
  BY <1>5, Zenon DEF PassKeeps
<1>7. \A m \in 1 .. n : m <= lo + 2 * w => r[m] = a[m]
  BY <1>5, Zenon DEF PassKeeps
<1>8. \A u \in Nat : \A p, q \in 1 .. n :
        lo + u * w < p /\ p < q /\ q <= lo + u * w + w => c.src[p] <= c.src[q]
  BY Zenon DEF SortedFrom
<1>9. Comparable(c.src, c.float) /\ SortedFrom(c.src, lo + 2 * w, w) => SortedFrom(r, lo + 2 * w, 2 * w)
  BY <1>5, Zenon DEF PassSorts
<1> HIDE DEF lo, w, hi, mid, n
<1>10. SortedOn(c.src, lo + 1, mid)
  <2> SUFFICES ASSUME NEW p \in lo + 1 .. mid, NEW q \in lo + 1 .. mid, p < q PROVE c.src[p] <= c.src[q]
    BY Zenon DEF SortedOn
  <2>1. p \in 1 .. n /\ q \in 1 .. n
    BY <1>1, <1>2
  <2>2. 0 \in Nat /\ lo + 0 * w < p /\ q <= lo + 0 * w + w
    BY <1>1, <1>2
  <2> QED
    BY <1>8, <2>1, <2>2, Zenon
<1>11. SortedOn(c.src, mid + 1, hi)
  <2> SUFFICES ASSUME NEW p \in mid + 1 .. hi, NEW q \in mid + 1 .. hi, p < q PROVE c.src[p] <= c.src[q]
    BY Zenon DEF SortedOn
  <2>1. p \in 1 .. n /\ q \in 1 .. n
    BY <1>1, <1>2
  <2>2. mid = lo + w
    BY <1>2
  <2>3. 1 \in Nat /\ lo + 1 * w < p /\ q <= lo + 1 * w + w
    BY <1>1, <1>2, <2>2
  <2> QED
    BY <1>8, <2>1, <2>3, Zenon
<1>12. SortedOn(a, lo + 1, hi)
  BY <1>3, <1>4, <1>10, <1>11, Zenon DEF MergeSorts
<1>13. SortedFrom(c.src, lo + 2 * w, w)
  <2> SUFFICES ASSUME NEW u \in Nat, NEW p \in 1 .. n, NEW q \in 1 .. n,
                      (lo + 2 * w) + u * w < p, p < q, q <= (lo + 2 * w) + u * w + w
               PROVE  c.src[p] <= c.src[q]
    BY Zenon DEF SortedFrom, n
  <2>1. (lo + 2 * w) + u * w = lo + (u + 2) * w
    BY <1>1
  <2>2. u + 2 \in Nat
    OBVIOUS
  <2> QED
    BY <1>8, <2>1, <2>2, Zenon
<1>14. SortedFrom(r, lo + 2 * w, 2 * w)
  BY <1>9, <1>13, Zenon
<1>15. ASSUME NEW u \in Nat, NEW p \in 1 .. n, NEW q \in 1 .. n,
              lo + u * (2 * w) < p, p < q, q <= lo + u * (2 * w) + 2 * w
       PROVE  r[p] <= r[q]
  <2>1. CASE u = 0
    <3>1. lo < p /\ q <= lo + 2 * w
      BY <1>1, <1>15, <2>1
    <3>2. p \in lo + 1 .. hi /\ q \in lo + 1 .. hi /\ p <= lo + 2 * w
      BY <1>1, <1>2, <1>15, <3>1
    <3>3. a[p] <= a[q]
      BY <1>12, <1>15, <3>2, Zenon DEF SortedOn
    <3> QED
      BY <1>7, <3>1, <3>2, <3>3, Zenon
  <2>2. CASE u # 0
    <3>1. u - 1 \in Nat
      BY <2>2
    <3>2. lo + u * (2 * w) = (lo + 2 * w) + (u - 1) * (2 * w)
      BY <1>1
    <3>3. p \in 1 .. Len(r) /\ q \in 1 .. Len(r)
      BY <1>6
    <3> QED
      BY <1>14, <1>15, <3>1, <3>2, <3>3, Zenon DEF SortedFrom
  <2> QED
    BY <2>1, <2>2
<1>16. SortedFrom(r, lo, 2 * w)
  BY <1>6, <1>15, Zenon DEF SortedFrom
<1> QED
  BY <1>16, Zenon DEF lo, w

\* What a pass does.
LEMMA Passed ==
    ASSUME NEW c \in Passes
    PROVE  PassKeeps(c, sort_pass[c]) /\ PassSorts(c, sort_pass[c])
<1> DEFINE M(d) == PassKeeps(d, sort_pass[d]) /\ PassSorts(d, sort_pass[d])
           S == {n \in Nat : \A d \in Passes : PassRank(d) <= n => M(d)}
<1>1. ASSUME NEW d \in Passes, d.lo >= Len(d.src) PROVE M(d)
  <2>1. sort_pass[d] = d.aux
    BY <1>1, PassIs, Zenon DEF PassBody
  <2>2. PassKeeps(d, d.aux) /\ PassSorts(d, d.aux)
    BY <1>1, PassDone
  <2> QED
    BY <2>1, <2>2, Zenon
<1>2. 0 \in S
  <2> SUFFICES ASSUME NEW d \in Passes, PassRank(d) <= 0 PROVE M(d)
    OBVIOUS
  <2>1. d.lo >= Len(d.src)
    BY PassType DEF PassRank
  <2> QED
    BY <1>1, <2>1
<1>3. ASSUME NEW n \in Nat, n \in S PROVE n + 1 \in S
  <2> SUFFICES ASSUME NEW d \in Passes, PassRank(d) <= n + 1 PROVE M(d)
    OBVIOUS
  <2>0. CASE ~(d.lo >= Len(d.src))
    <3>1. d.lo < Len(d.src)
      BY <2>0, PassType
    <3>2. pass_step(d) \in Passes /\ PassRank(pass_step(d)) < PassRank(d)
      BY <3>1, PassStepType
    <3>3. PassRank(pass_step(d)) <= n
      BY <3>2, PassType
    <3>4. sort_pass[d] = sort_pass[pass_step(d)]
      BY <2>0, PassIs, Zenon DEF PassBody
    <3> DEFINE r == sort_pass[d]
    <3>5. PassKeeps(pass_step(d), r) /\ PassSorts(pass_step(d), r)
      BY <1>3, <3>2, <3>3, <3>4, Zenon
    <3> HIDE DEF r
    <3>6. PassKeeps(d, r)
      BY <3>1, <3>5, PassOnKeeps
    <3>7. PassSorts(d, r)
      BY <3>1, <3>5, PassOnSorts
    <3> QED
      BY <3>6, <3>7, Zenon DEF r
  <2> QED
    BY <1>1, <2>0
<1> HIDE DEF S, M
<1>4. \A n \in Nat : n \in S
  BY <1>2, <1>3, Passing!NatInduct
<1>5. PassRank(c) \in S /\ PassRank(c) <= PassRank(c)
  BY <1>4, PassType
<1>6. M(c)
  BY <1>5, Zenon DEF S
<1> QED
  BY <1>6, Zenon DEF M

-----------------------------------------------------------------------------
(***************************************************************************)
(* The passes of a sort.                                                   *)
(***************************************************************************)
SortBody(g, c) == IF c.width >= Len(c.src) THEN c.src ELSE g[width_step(c)]
SortRank(c) == IF c.width < Len(c.src) THEN Len(c.src) - c.width ELSE 0

Sorting == INSTANCE RecursiveFunctions WITH D <- Sorts, Rank <- SortRank, Body <- SortBody

LEMMA SortType ==
    ASSUME NEW c \in Sorts
    PROVE  /\ c.src \in Seq(Int) /\ c.aux \in Seq(Int) /\ Len(c.aux) = Len(c.src) /\ Len(c.src) \in Nat
           /\ c.width \in Nat /\ c.width > 0 /\ c.float \in BOOLEAN
           /\ SortRank(c) \in Nat
<1>1. c.src \in Seq(Int) /\ c.aux \in Seq(Int) /\ c.width \in Nat \ {0} /\ c.float \in BOOLEAN
  BY DEF Sorts
<1>2. Len(c.aux) = Len(c.src)
  BY DEF Sorts
<1>3. Len(c.src) \in Nat
  BY <1>1
<1> QED
  BY <1>1, <1>2, <1>3 DEF SortRank

LEMMA PassOfType ==
    ASSUME NEW c \in Sorts
    PROVE  /\ pass_of(c) \in Passes
           /\ pass_of(c).src = c.src /\ pass_of(c).lo = 0 /\ pass_of(c).width = c.width
           /\ pass_of(c).float = c.float
<1> DEFINE d == pass_of(c)
<1>1. c.width \in Nat \ {0} /\ Len(c.aux) = Len(c.src) /\ 0 \in Nat
  BY SortType
<1>2. c.src \in Seq(Int) /\ c.aux \in Seq(Int) /\ c.float \in BOOLEAN
  BY SortType
<1>3. d = [src |-> c.src, aux |-> c.aux, lo |-> 0, width |-> c.width, float |-> c.float]
  BY Zenon DEF pass_of
<1> HIDE DEF d
<1>4. d.src = c.src /\ d.aux = c.aux /\ d.lo = 0 /\ d.width = c.width /\ d.float = c.float
  BY <1>3
<1>5. d \in [src : Seq(Int), aux : Seq(Int), lo : Nat, width : Nat \ {0}, float : BOOLEAN]
  BY <1>1, <1>2, <1>3
<1>6. d \in Passes
  BY <1>1, <1>4, <1>5 DEF Passes
<1> QED
  BY <1>4, <1>6 DEF d

LEMMA WidthStepType ==
    ASSUME NEW c \in Sorts
    PROVE  /\ width_step(c) \in Sorts
           /\ width_step(c).src = sort_pass[pass_of(c)] /\ width_step(c).width = 2 * c.width
           /\ width_step(c).float = c.float
           /\ Len(width_step(c).src) = Len(c.src)
           /\ Same(width_step(c).src, 1 .. Len(c.src), c.src, 1 .. Len(c.src))
           /\ c.width < Len(c.src) => SortRank(width_step(c)) < SortRank(c)
<1> DEFINE s == width_step(c)
           a == sort_pass[pass_of(c)]
<1>1. c.width \in Nat /\ c.width > 0 /\ Len(c.src) \in Nat
  BY SortType
<1>2. c.src \in Seq(Int) /\ c.float \in BOOLEAN
  BY SortType
<1>3. pass_of(c) \in Passes /\ pass_of(c).src = c.src /\ pass_of(c).lo = 0
  BY PassOfType
<1>4. PassKeeps(pass_of(c), a)
  BY <1>3, Passed
<1> HIDE DEF a
<1>5. a \in Seq(Int) /\ Len(a) = Len(c.src)
  BY <1>3, <1>4 DEF PassKeeps
<1>6. Same(a, 1 .. Len(c.src), c.src, 1 .. Len(c.src))
  <2>1. Same(a, 0 + 1 .. Len(c.src), c.src, 0 + 1 .. Len(c.src))
    BY <1>3, <1>4, Zenon DEF PassKeeps
  <2>2. 0 + 1 = 1
    OBVIOUS
  <2> QED
    BY <2>1, <2>2, Zenon
<1>7. s = [src |-> a, aux |-> c.src, width |-> 2 * c.width, float |-> c.float]
  BY Zenon DEF width_step, a
<1> HIDE DEF s
<1>8. s.src = a /\ s.aux = c.src /\ s.width = 2 * c.width /\ s.float = c.float
  BY <1>7
<1>9. 2 * c.width \in Nat \ {0}
  BY <1>1
<1>10. s \in [src : Seq(Int), aux : Seq(Int), width : Nat \ {0}, float : BOOLEAN]
  BY <1>2, <1>5, <1>7, <1>9
<1>11. s \in Sorts
  BY <1>5, <1>8, <1>10 DEF Sorts
<1>12. c.width < Len(c.src) => SortRank(s) < SortRank(c)
  BY <1>1, <1>5, <1>8 DEF SortRank
<1> QED
  BY <1>5, <1>6, <1>8, <1>11, <1>12 DEF s, a

LEMMA SortIs == \A c \in Sorts : sort_widths[c] = SortBody(sort_widths, c)
<1>1. sort_widths = CHOOSE g : g = [c \in Sorts |-> SortBody(g, c)]
  BY Zenon DEF sort_widths, SortBody
<1>2. Sorting!Ranked
  BY SortType, Zenon DEF Sorting!Ranked
<1>3. Sorting!Local
  <2> SUFFICES ASSUME NEW g, NEW h, NEW c \in Sorts,
                      \A t \in Sorts : SortRank(t) < SortRank(c) => g[t] = h[t]
               PROVE  SortBody(g, c) = SortBody(h, c)
    BY Zenon DEF Sorting!Local
  <2>1. CASE c.width >= Len(c.src)
    BY <2>1, Zenon DEF SortBody
  <2>2. CASE ~(c.width >= Len(c.src))
    <3>1. c.width < Len(c.src)
      BY <2>2, SortType
    <3>2. width_step(c) \in Sorts /\ SortRank(width_step(c)) < SortRank(c)
      BY <3>1, WidthStepType
    <3>3. g[width_step(c)] = h[width_step(c)]
      BY <3>2, Zenon
    <3> QED
      BY <3>3, Zenon DEF SortBody
  <2> QED
    BY <2>1, <2>2
<1> QED
  BY <1>1, <1>2, <1>3, Sorting!RecursiveFunction, Zenon

SortKeeps(c, r) ==
  /\ r \in Seq(Int) /\ Len(r) = Len(c.src)
  /\ Same(r, 1 .. Len(c.src), c.src, 1 .. Len(c.src))
SortAscends(c, r) == Comparable(c.src, c.float) /\ SortedFrom(c.src, 0, c.width) => Ascends(r)

LEMMA SortDone ==
    ASSUME NEW c \in Sorts, c.width >= Len(c.src)
    PROVE  SortKeeps(c, c.src) /\ SortAscends(c, c.src)
<1>1. c.width \in Nat /\ Len(c.src) \in Nat /\ c.src \in Seq(Int)
  BY SortType
<1>2. SortKeeps(c, c.src)
  BY <1>1, Zenon DEF SortKeeps, Same
<1>3. ASSUME SortedFrom(c.src, 0, c.width) PROVE Ascends(c.src)
  <2>1. DOMAIN c.src = 1 .. Len(c.src)
    BY <1>1
  <2> SUFFICES ASSUME NEW p \in 1 .. Len(c.src), NEW q \in 1 .. Len(c.src), p < q
               PROVE  c.src[p] <= c.src[q]
    BY <2>1, Zenon DEF Ascends
  <2>2. 0 \in Nat /\ 0 + 0 * c.width < p /\ q <= 0 + 0 * c.width + c.width
    BY <1>1
  <2> QED
    BY <1>3, <2>2, Zenon DEF SortedFrom
<1> QED
  BY <1>2, <1>3, Zenon DEF SortAscends

LEMMA SortOn ==
    ASSUME NEW c \in Sorts, NEW r, SortKeeps(width_step(c), r), SortAscends(width_step(c), r)
    PROVE  SortKeeps(c, r) /\ SortAscends(c, r)
<1> DEFINE s == width_step(c)
           n == Len(c.src)
<1>1. /\ s \in Sorts /\ s.src = sort_pass[pass_of(c)] /\ s.width = 2 * c.width /\ s.float = c.float
      /\ Len(s.src) = n
  BY WidthStepType
<1>2. Same(s.src, 1 .. n, c.src, 1 .. n)
  BY WidthStepType
<1>3. n \in Nat /\ 1 \in Int /\ n \in Int /\ c.src \in Seq(Int)
  BY SortType
<1>4. s.src \in Seq(Int)
  BY <1>1, SortType
<1>5. SortKeeps(c, r)
  <2>1. r \in Seq(Int) /\ Len(r) = n /\ Same(r, 1 .. n, s.src, 1 .. n)
    BY <1>1, Zenon DEF SortKeeps
  <2>2. Same(r, 1 .. n, c.src, 1 .. n)
    BY <1>2, <2>1, Zenon DEF Same
  <2> QED
    BY <2>1, <2>2, Zenon DEF SortKeeps
<1>6. ASSUME Comparable(c.src, c.float), SortedFrom(c.src, 0, c.width) PROVE Ascends(r)
  <2>1. Comparable(s.src, s.float)
    <3> DEFINE I == 1 .. n
               a == s.src
               e == c.src
    <3>1. IsFiniteSet(I)
      BY <1>3, IntervalFinite, Zenon
    <3>2. Same(a, I, e, I)
      BY <1>2
    <3>3. \A m \in I : a[m] \in Int
      BY <1>1, <1>4
    <3> HIDE DEF I, a, e, s
    <3>4. ASSUME NEW m \in I PROVE \E q \in I : e[q] = a[m]
      <4>1. a[m] \in Int
        BY <3>3, Zenon
      <4> QED
        BY <3>1, <3>2, <4>1, SameElement
    <3>5. c.float => \A q \in I : e[q] # NaN
      BY <1>6, Zenon DEF Comparable, I, e
    <3>6. c.float => \A m \in I : a[m] # NaN
      BY <3>4, <3>5, Zenon
    <3> QED
      BY <1>1, <3>6, Zenon DEF Comparable, I, a
  <2>2. SortedFrom(s.src, 0, 2 * c.width)
    <3>1. /\ pass_of(c) \in Passes /\ pass_of(c).src = c.src /\ pass_of(c).lo = 0
          /\ pass_of(c).width = c.width /\ pass_of(c).float = c.float
      BY PassOfType
    <3>2. PassSorts(pass_of(c), sort_pass[pass_of(c)])
      BY <3>1, Passed
    <3> QED
      BY <1>1, <1>6, <3>1, <3>2, Zenon DEF PassSorts
  <2> QED
    BY <1>1, <2>1, <2>2, Zenon DEF SortAscends
<1> QED
  BY <1>5, <1>6, Zenon DEF SortAscends

LEMMA Sorted ==
    ASSUME NEW c \in Sorts
    PROVE  SortKeeps(c, sort_widths[c]) /\ SortAscends(c, sort_widths[c])
<1> DEFINE M(d) == SortKeeps(d, sort_widths[d]) /\ SortAscends(d, sort_widths[d])
           S == {n \in Nat : \A d \in Sorts : SortRank(d) <= n => M(d)}
<1>1. ASSUME NEW d \in Sorts, d.width >= Len(d.src) PROVE M(d)
  <2>1. sort_widths[d] = d.src
    BY <1>1, SortIs, Zenon DEF SortBody
  <2>2. SortKeeps(d, d.src) /\ SortAscends(d, d.src)
    BY <1>1, SortDone
  <2> QED
    BY <2>1, <2>2, Zenon
<1>2. 0 \in S
  <2> SUFFICES ASSUME NEW d \in Sorts, SortRank(d) <= 0 PROVE M(d)
    OBVIOUS
  <2>1. d.width >= Len(d.src)
    BY SortType DEF SortRank
  <2> QED
    BY <1>1, <2>1
<1>3. ASSUME NEW n \in Nat, n \in S PROVE n + 1 \in S
  <2> SUFFICES ASSUME NEW d \in Sorts, SortRank(d) <= n + 1 PROVE M(d)
    OBVIOUS
  <2>0. CASE ~(d.width >= Len(d.src))
    <3>1. d.width < Len(d.src)
      BY <2>0, SortType
    <3>2. width_step(d) \in Sorts /\ SortRank(width_step(d)) < SortRank(d)
      BY <3>1, WidthStepType
    <3>3. SortRank(width_step(d)) <= n
      BY <3>2, SortType
    <3>4. sort_widths[d] = sort_widths[width_step(d)]
      BY <2>0, SortIs, Zenon DEF SortBody
    <3> DEFINE r == sort_widths[d]
    <3>5. SortKeeps(width_step(d), r) /\ SortAscends(width_step(d), r)
      BY <1>3, <3>2, <3>3, <3>4, Zenon
    <3> HIDE DEF r
    <3>6. SortKeeps(d, r) /\ SortAscends(d, r)
      BY <3>5, SortOn
    <3> QED
      BY <3>6, Zenon DEF r
  <2> QED
    BY <1>1, <2>0
<1> HIDE DEF S, M
<1>4. \A n \in Nat : n \in S
  BY <1>2, <1>3, Sorting!NatInduct
<1>5. SortRank(c) \in S /\ SortRank(c) <= SortRank(c)
  BY <1>4, SortType
<1>6. M(c)
  BY <1>5, Zenon DEF S
<1> QED
  BY <1>6, Zenon DEF M

-----------------------------------------------------------------------------
(***************************************************************************)
(* The sorts and the comparisons.                                          *)
(***************************************************************************)
LEMMA SamePermutes ==
    ASSUME NEW a \in Seq(Int), NEW r \in Seq(Int), Len(r) = Len(a),
           Same(r, 1 .. Len(a), a, 1 .. Len(a))
    PROVE  Permutes(r, a)
<1>1. DOMAIN a = 1 .. Len(a) /\ DOMAIN r = 1 .. Len(a)
  OBVIOUS
<1>2. Elements(a) \subseteq Int /\ Elements(r) \subseteq Int
  BY DEF Elements
<1>3. ASSUME NEW x \in Int
      PROVE  Cardinality({i \in DOMAIN a : a[i] = x}) = Cardinality({i \in DOMAIN r : r[i] = x})
  <2>1. Count(r, DOMAIN r, x) = Count(a, DOMAIN a, x)
    BY <1>1, Zenon DEF Same
  <2> QED
    BY <2>1, Zenon DEF Count, Occurs
<1> QED
  BY <1>2, <1>3, Zenon DEF Permutes

LEMMA SortOf ==
    ASSUME NEW a \in Seq(Int), NEW float \in BOOLEAN
    PROVE  /\ Permutes(sort_widths[sort_of(a, float)], a)
           /\ Comparable(a, float) => Ascends(sort_widths[sort_of(a, float)])
<1> DEFINE c == sort_of(a, float)
           z == Zeros(Len(a))
           r == sort_widths[c]
<1>1. z \in Seq(Int) /\ Len(z) = Len(a)
  <2>1. Len(a) \in Nat
    OBVIOUS
  <2>2. z \in Seq(Byte) /\ Len(z) = Len(a)
    BY <2>1, ZerosType
  <2> HIDE DEF z
  <2>3. \A i \in 1 .. Len(z) : z[i] \in Byte
    BY <2>2
  <2>4. \A i \in 1 .. Len(z) : z[i] \in Int
    BY <2>3, BytesAreInt, Zenon
  <2> QED
    BY <2>2, <2>4
<1>2. c = [src |-> a, aux |-> z, width |-> 1, float |-> float]
  BY Zenon DEF sort_of
<1> HIDE DEF c, z
<1>3. c.src = a /\ c.aux = z /\ c.width = 1 /\ c.float = float
  BY <1>2
<1>4. 1 \in Nat \ {0}
  OBVIOUS
<1>5. c \in [src : Seq(Int), aux : Seq(Int), width : Nat \ {0}, float : BOOLEAN]
  BY <1>1, <1>2, <1>4
<1>6. c \in Sorts
  BY <1>1, <1>3, <1>5 DEF Sorts
<1>7. SortKeeps(c, r) /\ SortAscends(c, r)
  BY <1>6, Sorted
<1>8. r \in Seq(Int) /\ Len(r) = Len(a) /\ Same(r, 1 .. Len(a), a, 1 .. Len(a))
  BY <1>3, <1>7, Zenon DEF SortKeeps
<1>9. SortedFrom(a, 0, 1)
  <2> SUFFICES ASSUME NEW u \in Nat, NEW p \in 1 .. Len(a), NEW q \in 1 .. Len(a),
                      0 + u * 1 < p, p < q, q <= 0 + u * 1 + 1
               PROVE  FALSE
    BY Zenon DEF SortedFrom
  <2>1. u * 1 = u
    OBVIOUS
  <2> QED
    BY <2>1
<1>10. Comparable(a, float) => Ascends(r)
  BY <1>3, <1>7, <1>9, Zenon DEF SortAscends
<1>11. Permutes(r, a)
  <2> HIDE DEF r
  <2> QED
    BY <1>8, SamePermutes
<1> QED
  BY <1>10, <1>11, Zenon DEF c

(* The sorts of the runtime (sort_i64, sort_f64) return the numbers of the *)
(* array, each as often as it stood there, whatever the length of the      *)
(* array is against the powers of two, and in ascending order; sort_f64 so *)
(* when NaN is not among them.                                             *)
THEOREM SortsSort ==
    ASSUME NEW a \in Seq(Int)
    PROVE  /\ Permutes(sort_i64(a), a) /\ Ascends(sort_i64(a))
           /\ Permutes(sort_f64(a), a)
           /\ NaN \notin Elements(a) => Ascends(sort_f64(a))
<1>1. Permutes(a, a)
  BY Zenon DEF Permutes
<1>2. DOMAIN a = 1 .. Len(a) /\ Len(a) \in Nat
  OBVIOUS
<1>3. Len(a) <= 1 => Ascends(a)
  BY <1>2 DEF Ascends
<1>4. Comparable(a, FALSE)
  BY Zenon DEF Comparable
<1>5. NaN \notin Elements(a) => Comparable(a, TRUE)
  BY <1>2, Zenon DEF Comparable, Elements
<1>6. /\ Permutes(sort_widths[sort_of(a, FALSE)], a)
      /\ Comparable(a, FALSE) => Ascends(sort_widths[sort_of(a, FALSE)])
  BY SortOf
<1>7. /\ Permutes(sort_widths[sort_of(a, TRUE)], a)
      /\ Comparable(a, TRUE) => Ascends(sort_widths[sort_of(a, TRUE)])
  BY SortOf
<1>8. Permutes(sort_i64(a), a) /\ Ascends(sort_i64(a))
  BY <1>1, <1>3, <1>4, <1>6, Zenon DEF sort_i64
<1>9. Permutes(sort_f64(a), a)
  BY <1>1, <1>7, Zenon DEF sort_f64
<1>10. NaN \notin Elements(a) => Ascends(sort_f64(a))
  BY <1>3, <1>5, <1>7, Zenon DEF sort_f64
<1> QED
  BY <1>8, <1>9, <1>10

LEMMA IntOrder ==
    ASSUME NEW S \in SUBSET Int
    PROVE  IsTotalOrder(int_compare, S)
<1>1. \A x, y \in S : /\ int_compare(x, y) = "Eq" <=> x = y
                      /\ int_compare(x, y) = "Lt" <=> int_compare(y, x) = "Gt"
  BY DEF int_compare, compare_from_lt_then_gt
<1>2. \A x, y, z \in S : int_compare(x, y) = "Lt" /\ int_compare(y, z) = "Lt" => int_compare(x, z) = "Lt"
  BY DEF int_compare, compare_from_lt_then_gt
<1> QED
  BY <1>1, <1>2, Zenon DEF IsTotalOrder

LEMMA FloatOrder ==
    ASSUME NEW S \in SUBSET Int
    PROVE  IsTotalOrder(float_compare, S)
<1>1. \A x, y \in S : /\ float_compare(x, y) = "Eq" <=> x = y
                      /\ float_compare(x, y) = "Lt" <=> float_compare(y, x) = "Gt"
  BY DEF float_compare, compare_from_lt_then_gt, NaN
<1>2. \A x, y, z \in S : float_compare(x, y) = "Lt" /\ float_compare(y, z) = "Lt" => float_compare(x, z) = "Lt"
  BY DEF float_compare, compare_from_lt_then_gt, NaN
<1> QED
  BY <1>1, <1>2, Zenon DEF IsTotalOrder

(* For every sequence of calls of the builder, whatever text it holds, the *)
(* sorts keep and order its bytes and the compare functions are total      *)
(* orders on them, with NaN for some of them too.                          *)
THEOREM SortSortsHolds == Spec => []SortSorts
<1>1. BuilderInv => SortSorts
  <2> SUFFICES ASSUME BuilderInv PROVE SortSorts
    OBVIOUS
  <2>1. said \in Seq(Bytes)
    BY DEF BuilderInv, BuilderType
  <2>2. said \in Seq(Int) /\ DOMAIN said = 1 .. Len(said)
    BY <2>1, BytesInInt
  <2> DEFINE nans == WithNaN(said)
             numbers == Elements(nans) \ {NaN}
  <2>3. nans \in Seq(Int)
    <3>1. nans = [i \in 1 .. Len(said) |-> IF said[i] = 1 THEN NaN ELSE said[i]]
      BY <2>2, Zenon DEF WithNaN
    <3>2. \A i \in 1 .. Len(said) : (IF said[i] = 1 THEN NaN ELSE said[i]) \in Int
      BY <2>2 DEF NaN
    <3>3. Len(said) \in Nat
      BY <2>2
    <3> HIDE DEF nans
    <3> QED
      BY <3>1, <3>2, <3>3
  <2>4. NaN \notin Elements(said)
    BY <2>1, LibAssumption DEF Elements, NaN
  <2>5. Elements(said) \subseteq Int
    BY <2>2 DEF Elements
  <2>6. Elements(nans) \subseteq Int
    <3> HIDE DEF nans
    <3> QED
      BY <2>3 DEF Elements
  <2>7. Permutes(sort_i64(said), said) /\ Ascends(sort_i64(said))
    BY <2>2, SortsSort
  <2>8. Permutes(sort_f64(said), said) /\ Ascends(sort_f64(said))
    BY <2>2, <2>4, SortsSort
  <2> HIDE DEF nans
  <2>9. Permutes(sort_f64(nans), nans)
    BY <2>3, SortsSort
  <2>10. IsTotalOrder(int_compare, Elements(said)) /\ IsTotalOrder(float_compare, Elements(nans))
    BY <2>5, <2>6, IntOrder, FloatOrder
  <2>11. \A x \in numbers : float_compare(x, NaN) = "Lt"
    BY DEF float_compare
  <2>12. \A x, y \in numbers : float_compare(x, y) = int_compare(x, y)
    BY DEF float_compare, int_compare
  <2>13. \A r \in {sort_i64(said), sort_f64(said)} : Permutes(r, said) /\ Ascends(r)
    BY <2>7, <2>8, Zenon
  <2> QED
    BY <2>9, <2>10, <2>11, <2>12, <2>13, Zenon DEF SortSorts, nans
<1> QED
  BY <1>1, BuilderInit, BuilderStep, PTL DEF Spec
=============================================================================
