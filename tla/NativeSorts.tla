---------------------------- MODULE NativeSorts ----------------------------
(***************************************************************************)
(* The native sorts of the runtime that the stage 0 compiler emits         *)
(* (src/src/runtime/arr.rs) and the comparisons of the language            *)
(* (src/src/codegen/emit.rs).  The arrays sorted are the texts of the      *)
(* string builder.                                                         *)
(*                                                                         *)
(* A sort is a bottom-up merge over runs of doubling width, src and aux    *)
(* swapped after each pass: three nested loops.  A record holds the locals *)
(* of a loop, one operator is its body and one function what it computes.  *)
(* NaN, a value below all others here, compares false with everything.     *)
(***************************************************************************)
EXTENDS StringBuilder

NaN == -1
le(x, y) == x # NaN /\ y # NaN /\ x <= y
i64_le(x, y) == x <= y

(* The merge of [i, mid) and [j, hi) of src into aux, whose next free      *)
(* place is k.                                                             *)
Merges == {c \in [src : Seq(Int), aux : Seq(Int), i : Nat, mid : Nat, j : Nat, hi : Nat, float : BOOLEAN] :
             /\ c.i <= c.mid /\ c.mid <= c.j /\ c.j <= c.hi /\ c.hi <= Len(c.src)
             /\ Len(c.aux) = Len(c.src)}

place(c) == (c.i + c.j) - c.mid

from_left(c) ==
  /\ c.i < c.mid
  /\ \/ c.j >= c.hi
     \/ IF c.float THEN le(c.src[c.i + 1], c.src[c.j + 1]) ELSE i64_le(c.src[c.i + 1], c.src[c.j + 1])

merge_step(c) ==
  LET from == IF from_left(c) THEN c.i ELSE c.j
  IN [src |-> c.src, aux |-> [c.aux EXCEPT ![place(c) + 1] = c.src[from + 1]],
      i |-> IF from_left(c) THEN c.i + 1 ELSE c.i, mid |-> c.mid,
      j |-> IF from_left(c) THEN c.j ELSE c.j + 1, hi |-> c.hi, float |-> c.float]

merge_runs[c \in Merges] ==
  IF place(c) >= c.hi THEN c.aux ELSE merge_runs[merge_step(c)]

Least(x, y) == IF x < y THEN x ELSE y

(* One pass: the runs of src from lo on are merged in pairs into aux.      *)
Passes == {c \in [src : Seq(Int), aux : Seq(Int), lo : Nat, width : Nat \ {0}, float : BOOLEAN] :
             Len(c.aux) = Len(c.src)}

merge_of(c) ==
  [src |-> c.src, aux |-> c.aux, i |-> c.lo, mid |-> Least(c.lo + c.width, Len(c.src)),
   j |-> Least(c.lo + c.width, Len(c.src)), hi |-> Least(c.lo + 2 * c.width, Len(c.src)),
   float |-> c.float]

(* Mutant: a last run without a partner is not copied.                     *)
pass_stepSkipsLone(c) ==
  [src |-> c.src, aux |-> IF c.lo + c.width >= Len(c.src) THEN c.aux ELSE merge_runs[merge_of(c)],
   lo |-> c.lo + 2 * c.width, width |-> c.width, float |-> c.float]

pass_step(c) ==
  [src |-> c.src, aux |-> merge_runs[merge_of(c)],
   lo |-> c.lo + 2 * c.width, width |-> c.width, float |-> c.float]

sort_pass[c \in Passes] ==
  IF c.lo >= Len(c.src) THEN c.aux ELSE sort_pass[pass_step(c)]

(* The passes, src and aux swapped after each.                             *)
Sorts == {c \in [src : Seq(Int), aux : Seq(Int), width : Nat \ {0}, float : BOOLEAN] :
            Len(c.aux) = Len(c.src)}

pass_of(c) == [src |-> c.src, aux |-> c.aux, lo |-> 0, width |-> c.width, float |-> c.float]

width_step(c) ==
  [src |-> sort_pass[pass_of(c)], aux |-> c.src, width |-> 2 * c.width, float |-> c.float]

sort_widths[c \in Sorts] ==
  IF c.width >= Len(c.src) THEN c.src ELSE sort_widths[width_step(c)]

sort_of(a, float) == [src |-> a, aux |-> Zeros(Len(a)), width |-> 1, float |-> float]

sort_i64(a) == IF Len(a) <= 1 THEN a ELSE sort_widths[sort_of(a, FALSE)]
sort_f64(a) == IF Len(a) <= 1 THEN a ELSE sort_widths[sort_of(a, TRUE)]

(* The compare functions of the language.  NaN is equal to itself here and *)
(* behind every other float.                                               *)
compare_from_lt_then_gt(lt, gt) == IF lt THEN "Lt" ELSE IF gt THEN "Gt" ELSE "Eq"
int_compare(x, y) == compare_from_lt_then_gt(x < y, x > y)
float_compare(x, y) ==
  IF x = NaN THEN (IF y = NaN THEN "Eq" ELSE "Gt")
  ELSE IF y = NaN THEN "Lt"
  ELSE compare_from_lt_then_gt(x < y, x > y)

-----------------------------------------------------------------------------
(***************************************************************************)
(* Properties.                                                             *)
(***************************************************************************)
Elements(a) == {a[i] : i \in DOMAIN a}

Permutes(r, a) ==
  \A x \in Elements(a) \cup Elements(r) :
    Cardinality({i \in DOMAIN a : a[i] = x}) = Cardinality({i \in DOMAIN r : r[i] = x})

Ascends(a) == \A i, j \in DOMAIN a : i < j => a[i] <= a[j]

IsTotalOrder(compare(_, _), S) ==
  /\ \A x, y \in S : /\ compare(x, y) = "Eq" <=> x = y
                     /\ compare(x, y) = "Lt" <=> compare(y, x) = "Gt"
  /\ \A x, y, z \in S : compare(x, y) = "Lt" /\ compare(y, z) = "Lt" => compare(x, z) = "Lt"

(* The text with its bytes 1 made NaN: the floats that the runs sort.      *)
WithNaN(a) == [i \in DOMAIN a |-> IF a[i] = 1 THEN NaN ELSE a[i]]

(* The merge passes keep every element, with NaN among them too, and order *)
(* an array without NaN as the compare functions do, for each length       *)
(* against the powers of two; those functions are total orders that agree  *)
(* on numbers, NaN behind every number.                                    *)
SortSorts ==
  LET nans == WithNaN(said)
      numbers == Elements(nans) \ {NaN}
  IN /\ \A r \in {sort_i64(said), sort_f64(said)} : Permutes(r, said) /\ Ascends(r)
     /\ Permutes(sort_f64(nans), nans)
     /\ IsTotalOrder(int_compare, Elements(said))
     /\ IsTotalOrder(float_compare, Elements(nans))
     /\ \A x \in numbers : /\ float_compare(x, NaN) = "Lt"
                           /\ \A y \in numbers : float_compare(x, y) = int_compare(x, y)
=============================================================================
