---------------------------- MODULE ByteStrings ----------------------------
(***************************************************************************)
(* Strings of the runtime that the stage 0 compiler emits, as arrays of    *)
(* bytes: concatenation, substrings, equality and order                    *)
(* (src/src/runtime/str.rs).                                               *)
(***************************************************************************)
EXTENDS Integers, Sequences

Zeros(n) == SubSeq([i \in 1 .. n |-> 0], 1, n)

(* array.copy of a whole source to dst at offset at.                       *)
Copied(dst, at, src) ==
  [i \in DOMAIN dst |-> IF i \in at + 1 .. at + Len(src) THEN src[i - at] ELSE dst[i]]

concat(s, t) == Copied(Copied(Zeros(Len(s) + Len(t)), 0, s), Len(s), t)

(* A bound below 0 or behind the end means the end, an end before the      *)
(* start means the start.                                                  *)
substring(s, start, end) ==
  LET clamp(i) == IF i < 0 \/ i > Len(s) THEN Len(s) ELSE i
      to == IF clamp(end) < clamp(start) THEN clamp(start) ELSE clamp(end)
  IN SubSeq(s, clamp(start) + 1, to)

(* Mutant: only the lengths are compared.                                  *)
str_eqLength(s, t) == Len(s) = Len(t)

str_eq(s, t) == Len(s) = Len(t) /\ \A i \in DOMAIN s : s[i] = t[i]

(* -1, 0 or 1: the first byte that differs decides, then the length.       *)
cmp(s, t) ==
  LET min == IF Len(s) <= Len(t) THEN Len(s) ELSE Len(t)
      differ == {i \in 1 .. min : s[i] # t[i]}
      first == CHOOSE i \in differ : \A j \in differ : i <= j
      order(x, y) == IF x < y THEN -1 ELSE IF x > y THEN 1 ELSE 0
  IN IF differ # {} THEN order(s[first], t[first]) ELSE order(Len(s), Len(t))

(* The compare function of the language.                                   *)
string_compare(s, t) ==
  IF cmp(s, t) = 0 THEN "Eq" ELSE IF cmp(s, t) < 0 THEN "Lt" ELSE "Gt"
=============================================================================
