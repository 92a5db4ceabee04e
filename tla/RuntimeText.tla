---------------------------- MODULE RuntimeText ----------------------------
(***************************************************************************)
(* The pure functions on text that the stage 0 compiler gives a program:   *)
(* those of the runtime (src/src/runtime/str.rs) and the helpers that the  *)
(* code generator writes into every module (src/src/codegen/emit.rs): the  *)
(* slice of a string, numerals, code points and UTF-8.                     *)
(*                                                                         *)
(* A string is an array of bytes.  W is the width of an Int (64 in the     *)
(* code) and H that of a wasm index (32), to which an Int is cut when it   *)
(* indexes a string.                                                       *)
(***************************************************************************)
EXTENDS ByteStrings, SequencesExt, FiniteSets

CONSTANTS W, H

ASSUME TextAssumption == {W, H} \subseteq Nat \ {0, 1} /\ H <= W

None == <<>>
Some(x) == <<x>>

(* Decimal digits are written from the end of a scratch buffer that holds  *)
(* the longest rendering; the least Int, whose negation overflows, is a    *)
(* literal of its own.  Digits are numbers here and the sign is -1.        *)
MinInt == -(2^(W - 1))
Wrap(n) == ((n + 2^(W - 1)) % 2^W) - 2^(W - 1)

RECURSIVE Digits(_)
Digits(n) == IF n < 10 THEN <<n>> ELSE Append(Digits(n \div 10), n % 10)
MinIntLiteral == <<-1>> \o Digits(2^(W - 1))
Scratch == Len(MinIntLiteral)

RECURSIVE digit_loop(_, _, _)
digit_loop(buf, pos, work) ==
  LET step == ReplaceAt(buf, pos, work % 10)
  IN IF work \div 10 = 0 THEN <<step, pos - 1>>
     ELSE digit_loop(step, pos - 1, work \div 10)

from_i64(n) ==
  LET neg == n < 0
      r == digit_loop(Zeros(Scratch), Scratch, IF neg THEN Wrap(0 - n) ELSE n)
      signed == IF neg THEN <<ReplaceAt(r[1], r[2], -1), r[2] - 1>> ELSE r
  IN CASE n = 0 -> <<0>>
       [] n = MinInt -> MinIntLiteral
       [] OTHER -> SubSeq(signed[1], signed[2] + 1, Scratch)

(***************************************************************************)
(* Numerals to Ints.  A sign may come first and must not stand alone; the  *)
(* accumulator and its product with the sign wrap, no digit is refused for *)
(* being too many.                                                         *)
(***************************************************************************)
Minus == -1
Plus == -2

RECURSIVE parse_digits(_, _)
parse_digits(s, value) ==
  IF s = <<>> THEN Some(value)
  ELSE IF Head(s) \notin 0 .. 9 THEN None
  ELSE parse_digits(Tail(s), Wrap(value * 10 + Head(s)))

int_from_string(s) ==
  LET signed == s # <<>> /\ Head(s) \in {Minus, Plus}
      parsed == parse_digits(IF signed THEN Tail(s) ELSE s, 0)
  IN IF s = <<>> \/ (signed /\ Len(s) = 1) \/ parsed = None THEN None
     ELSE Some(Wrap(parsed[1] * (IF Head(s) = Minus THEN -1 ELSE 1)))

(***************************************************************************)
(* Code points to UTF-8.                                                   *)
(***************************************************************************)
Low6(n) == (n % 64) + 128

from_code_point_helper(cp) ==
  IF cp < 0 THEN None
  ELSE IF cp < 128 THEN Some(<<cp>>)
  ELSE IF cp < 2048 THEN Some(<<(cp \div 64) + 192, Low6(cp)>>)
  ELSE IF cp \in 55296 .. 57343 THEN None
  ELSE IF cp <= 65535
  THEN Some(<<(cp \div 4096) + 224, Low6(cp \div 64), Low6(cp)>>)
  ELSE IF cp <= 1114111
  THEN Some(<<(cp \div 262144) + 240, Low6(cp \div 4096), Low6(cp \div 64), Low6(cp)>>)
  ELSE None

(* The range is checked before the Int is cut to an index.                 *)
from_code_point(n) == IF n \in 0 .. 1114111 THEN from_code_point_helper(n) ELSE None
from_char_code(n) == IF n \in 0 .. 127 THEN Some(<<n>>) ELSE None
from_byte(n) == IF n < 128 THEN Some(<<n>>) ELSE None

(***************************************************************************)
(* Bytes to text: every lead byte fixes how many continuation bytes follow *)
(* and, at the ends of a length's range, where the second one may lie.     *)
(***************************************************************************)
IsContinuation(byte) == byte \in 128 .. 191      \* byte & 0xC0 = 0x80

(* Mutant: surrogates are accepted.                                        *)
validate_multibyteSurrogates(bs, i, n) ==
  /\ i + n - 1 <= Len(bs)
  /\ \A k \in 1 .. n - 1 : IsContinuation(bs[i + k])
  /\ bs[i] = 224 => bs[i + 1] >= 160
  /\ bs[i] = 240 => bs[i + 1] >= 144
  /\ bs[i] = 244 => bs[i + 1] < 144

validate_multibyte(bs, i, n) ==
  /\ i + n - 1 <= Len(bs)
  /\ \A k \in 1 .. n - 1 : IsContinuation(bs[i + k])
  /\ bs[i] = 224 => bs[i + 1] >= 160
  /\ bs[i] = 237 => bs[i + 1] < 160
  /\ bs[i] = 240 => bs[i + 1] >= 144
  /\ bs[i] = 244 => bs[i + 1] < 144

RECURSIVE validate_from(_, _)
validate_from(bs, i) ==
  IF i > Len(bs) THEN TRUE
  ELSE CASE bs[i] < 128 -> validate_from(bs, i + 1)
         [] bs[i] \in 192 .. 223 -> /\ bs[i] >= 194
                                    /\ i + 1 <= Len(bs)
                                    /\ IsContinuation(bs[i + 1])
                                    /\ validate_from(bs, i + 2)
         [] bs[i] \in 224 .. 239 -> validate_multibyte(bs, i, 3) /\ validate_from(bs, i + 3)
         [] bs[i] \in 240 .. 244 -> validate_multibyte(bs, i, 4) /\ validate_from(bs, i + 4)
         [] OTHER -> FALSE

utf8_bytes(s) == Copied(Zeros(Len(s)), 0, s)

from_utf8(bs) ==
  IF validate_from(bs, 1) THEN Some(Copied(Zeros(Len(bs)), 0, bs)) ELSE None

(***************************************************************************)
(* Reading a string at an Int.  get and char_code_at compare the whole     *)
(* Int; slice raises a negative bound to 0, cuts it to an index, and traps *)
(* on a bound inside a character.                                          *)
(***************************************************************************)
InBounds(s, i) == i >= 0 /\ i < Len(s)
string_get(s, i) == IF InBounds(s, i) THEN Some(s[i + 1]) ELSE None
Trap == <<-1>>
char_code_at(s, i) == IF InBounds(s, i) THEN <<s[i + 1]>> ELSE Trap

WrapIndex(n) == ((n + 2^(H - 1)) % 2^H) - 2^(H - 1)     \* i32.wrap_i64

string_slice(s, start, end) ==
  LET cut(n) == WrapIndex(IF n >= 0 THEN n ELSE 0)
      inside(i) == i \in 1 .. Len(s) - 1 /\ IsContinuation(s[i + 1])
      first == cut(end) = 0 /\ s # <<>> /\ IsContinuation(s[1])
  IN IF inside(cut(start)) \/ inside(cut(end)) \/ first THEN Trap
     ELSE substring(s, cut(start), cut(end))
=============================================================================
