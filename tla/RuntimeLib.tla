----------------------------- MODULE RuntimeLib -----------------------------
(***************************************************************************)
(* Structural equality, comparison and the native sorts of the runtime     *)
(* that the stage 0 compiler emits (src/src/runtime/core.rs, the sorts of  *)
(* arr.rs, the comparisons of src/src/codegen/emit.rs), together with the  *)
(* string builder, whose texts are the inputs of the pure functions.       *)
(***************************************************************************)
EXTENDS RuntimeText, NativeSorts

(***************************************************************************)
(* Structural equality.  A value is a record of its wasm type, its         *)
(* identity (ref) and its contents; an array is null or a sequence of      *)
(* values, and a variant holds a type, a case and such a payload.          *)
(***************************************************************************)
Boxed(type, ref, val) == [type |-> type, ref |-> ref, val |-> val]
NullArray == [null |-> TRUE, elems |-> <<>>]
ArrayOf(s) == [null |-> FALSE, elems |-> s]

RECURSIVE eq(_, _)
eq(x, y) ==
  LET eq_array(p, q) ==
        IF p.null \/ q.null THEN p.null /\ q.null
        ELSE /\ Len(p.elems) = Len(q.elems)
             /\ \A i \in DOMAIN p.elems : eq(p.elems[i], q.elems[i])
      eq_variant(p, q) == /\ p.type_id = q.type_id
                          /\ p.variant_id = q.variant_id
                          /\ eq_array(p.payload, q.payload)
      both(type) == x.type = type /\ y.type = type
  IN CASE x.ref = y.ref -> TRUE
       [] x.ref # y.ref /\ both("float") -> x.val # NaN /\ y.val # NaN /\ x.val = y.val
       [] x.ref # y.ref /\ both("string") -> str_eq(x.val, y.val)
       [] x.ref # y.ref /\ both("variant") -> eq_variant(x.val, y.val)
       [] x.ref # y.ref /\ (both("i31") \/ both("int")) -> x.val = y.val
       [] OTHER -> FALSE

-----------------------------------------------------------------------------
(***************************************************************************)
(* Properties.                                                             *)
(***************************************************************************)
RECURSIVE ValueOf(_, _)
ValueOf(ds, n) == IF ds = <<>> THEN n ELSE ValueOf(Tail(ds), 10 * n + Head(ds))
Unsigned(ds) == IF ds # <<>> /\ Head(ds) \in {Minus, Plus} THEN Tail(ds) ELSE ds
Denotes(ds) == IF Head(ds) = Minus THEN -ValueOf(Tail(ds), 0) ELSE ValueOf(Unsigned(ds), 0)
IsNumeral(ds) == Unsigned(ds) # <<>> /\ Range(Unsigned(ds)) \subseteq 0 .. 9

(* Every Int renders to a numeral of its value without a leading zero, the *)
(* least one included, whose negation wraps, and is parsed back from it; a *)
(* numeral is an optional sign and digits, and one too large wraps.        *)
NumeralsExact ==
  LET text == [i \in DOMAIN said |-> <<7, Minus, 99>>[said[i]]]
  IN /\ \A n \in {m + Len(said) : m \in {MinInt, -101, -100, -10, -1, 0, 9, 10, 99, 100}} :
          LET d == from_i64(n)
          IN Denotes(d) = n /\ (Head(d) = 0 => d = <<0>>) /\ int_from_string(d) = Some(n)
     /\ \A s \in {text} \cup {<<c>> \o text : c \in {Minus, Plus, 3, 99}} :
          int_from_string(s) = IF IsNumeral(s) THEN Some(Wrap(Denotes(s))) ELSE None

(* The code point that a sequence of one to four bytes would stand for.    *)
Decoded(bs) ==
  LET tail(i) == bs[i] - 128
  IN CASE Len(bs) = 1 -> bs[1]
       [] Len(bs) = 2 -> (bs[1] - 192) * 64 + tail(2)
       [] Len(bs) = 3 -> (bs[1] - 224) * 4096 + tail(2) * 64 + tail(3)
       [] Len(bs) = 4 -> (bs[1] - 240) * 262144 + tail(2) * 4096 + tail(3) * 64 + tail(4)
IsScalar(n) == n \in 0 .. 55295 \/ n \in 57344 .. 1114111

RECURSIVE IsText(_)
IsText(bs) == \/ bs = <<>>
              \/ \E k \in 1 .. 4 : /\ k <= Len(bs)
                                   /\ from_code_point(Decoded(SubSeq(bs, 1, k))) = Some(SubSeq(bs, 1, k))
                                   /\ IsText(SubSeq(bs, k + 1, Len(bs)))

(* Exactly the scalar values have an encoding, which decodes to them, and  *)
(* from_utf8 accepts exactly the sequences of such encodings: no overlong  *)
(* form, surrogate, value behind U+10FFFF or cut sequence.                 *)
Utf8Exact ==
  LET edges == {-4, 0, 124, 2044, 55292, 57340, 65532, 1114108}
      rest == [i \in DOMAIN said |-> <<128, 191, 65>>[said[i]]]
      leads == {65, 191, 193, 194, 223, 224, 225, 237, 238, 240, 241, 244, 245}
      seconds == {127, 128, 143, 144, 159, 160, 191, 192}
  IN /\ \A n \in {e + Len(said) + i : e \in edges, i \in 0 .. 1} :
          LET enc == from_code_point(n)
          IN /\ IsScalar(n) <=> enc # None
             /\ enc # None => Decoded(enc[1]) = n /\ from_utf8(enc[1]) = enc
             /\ from_char_code(n) = IF n < 128 THEN enc ELSE None
     /\ \A lead \in leads, second \in seconds :
          LET bs == <<lead, second>> \o rest
          IN from_utf8(bs) = IF IsText(bs) THEN Some(bs) ELSE None
     /\ \A byte \in leads \cup seconds : from_byte(byte) = from_utf8(<<byte>>)

(* A slice of text is text: bounds are clamped to the string, and one that *)
(* falls inside a character traps, for every bound below 2^H; reading byte *)
(* by byte gives the bytes of the string.                                  *)
SlicesAtCharacters ==
  LET chars == [i \in DOMAIN said |-> <<<<65>>, <<195, 169>>, <<226, 130, 172>>>>[said[i]]]
      text == FlattenSeq(chars)
      starts == {Len(FlattenSeq(SubSeq(chars, 1, k))) : k \in 0 .. Len(chars)}
      bounds == -2 .. Len(text) + 2 \cup {2^(H - 1), 2^H - 1}
      clamped(n) == IF n < 0 THEN 0 ELSE Least(n, Len(text))
      end(i, j) == IF clamped(j) < clamped(i) THEN clamped(i) ELSE clamped(j)
  IN /\ \A i, j \in bounds :
          string_slice(text, i, j) = IF {clamped(i), clamped(j)} \subseteq starts
                                     THEN SubSeq(text, clamped(i) + 1, end(i, j)) ELSE Trap
     /\ \A i \in bounds \cup {2^H} : LET byte == string_get(text, i)
                                      IN /\ byte = None <=> char_code_at(text, i) = Trap
                                         /\ byte = None <=> i + 1 \notin DOMAIN utf8_bytes(text)
                                         /\ byte # None => byte = Some(utf8_bytes(text)[i + 1])

(* The functions on text compute what their definitions say: order, cuts,  *)
(* numerals, UTF-8 and slices.                                             *)
TextExact == StringsOrdered /\ NumeralsExact /\ Utf8Exact /\ SlicesAtCharacters

(* Structural equality of boxed values: the equality of what they hold,    *)
(* through variants, for fresh boxes of the strings of the state; only an  *)
(* identical box makes NaN equal to itself.                                *)
EqIsStructural ==
  LET leaf(r, t) == {Boxed("string", r, t), Boxed("int", r, Len(t)), Boxed("i31", r, Len(t)),
                     Boxed("float", r, IF t = <<>> THEN NaN ELSE Len(t))}
      variants(r, t) == {Boxed("variant", r, [type_id |-> Len(t) % 2, variant_id |-> i, payload |-> p]) :
                           i \in 0 .. 1, p \in {NullArray, ArrayOf(<<>>)} \cup {ArrayOf(<<l>>) : l \in leaf(r + 10, t)}}
      values(r, t) == leaf(r, t) \cup variants(r, t)
      inside(x) == {x.val.payload.elems[i] : i \in DOMAIN x.val.payload.elems}
      parts(x) == IF x.type = "variant" THEN inside(x) ELSE {x}
      shape(x) == IF x.type = "variant" THEN <<x.val.type_id, x.val.variant_id, x.val.payload.null>> ELSE <<>>
      same(x, y) == /\ x.type = y.type /\ shape(x) = shape(y)
                    /\ {p.type : p \in parts(x)} = {p.type : p \in parts(y)}
                    /\ {p.val : p \in parts(x)} = {p.val : p \in parts(y)}
      nan(x) == \E p \in parts(x) : p.type = "float" /\ p.val = NaN
  IN \A f \in frozen : \A x \in values(1, said), y \in values(2, f.text) :
       eq(x, y) <=> (same(x, y) /\ ~nan(x))
=============================================================================
