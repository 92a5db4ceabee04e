------------------------------ MODULE DictHash ------------------------------
(***************************************************************************)
(* The hash of the dictionary's string keys (src/src/runtime/dict.rs), on  *)
(* top of PersistentDict.                                                  *)
(***************************************************************************)
EXTENDS PersistentDict, Bitwise

CONSTANT Half   \* bits of half a word in the multiplication of wymix

ASSUME HalfAssumption == Half \in Nat \ {0}

(***************************************************************************)
(* wyhash.  wymix multiplies two words of 2 * Half bits by halves, with    *)
(* every intermediate result wrapped to a word, and folds the product.     *)
(***************************************************************************)
Word == 2^(2 * Half)
HalfWord == 2^Half

(* Mutant: the carry of the cross products is lost.                        *)
wymixNoCarry(a, b) ==
  LET alo == a % HalfWord   ahi == a \div HalfWord
      blo == b % HalfWord   bhi == b \div HalfWord
      high == (ahi * bhi + (alo * bhi) \div HalfWord + (ahi * blo) \div HalfWord) % Word
  IN high ^^ ((a * b) % Word)

wymix(a, b) ==
  LET alo == a % HalfWord   ahi == a \div HalfWord
      blo == b % HalfWord   bhi == b \div HalfWord
      t1 == (alo * bhi) % Word
      t2 == (ahi * blo) % Word
      low == (alo * blo) % Word
      cross == ((low \div HalfWord) + (t1 % HalfWord) + (t2 % HalfWord)) % Word
      high == (ahi * bhi + t1 \div HalfWord + t2 \div HalfWord + cross \div HalfWord) % Word
  IN high ^^ ((low % HalfWord) + (((cross % HalfWord) * HalfWord) % Word))

(* The offsets of the bytes that hash_string reads of a string of n bytes, *)
(* by the length classes of the code: wyr4 and wyr8 read 4 and 8 bytes.    *)
wyr4(at) == at .. (at + 3)
wyr8(at) == wyr4(at) \cup wyr4(at + 4)

LongSteps(n) == IF n > 48 THEN n \div 48 ELSE 0

(* The medium loop takes 16 bytes while more than 16 are left.             *)
MediumSteps(n, from) == IF n - from <= 16 THEN 0 ELSE (n - from - 1) \div 16

reads_short(n) ==
  LET q == (n \div 8) * 4
  IN CASE n = 0 -> {}
       [] n \in 1 .. 3 -> {0, n \div 2, n - 1}
       [] n \in 4 .. 16 -> wyr4(0) \cup wyr4(q) \cup wyr4(n - 4) \cup wyr4(n - 4 - q)

reads(n) ==
  LET from == 48 * LongSteps(n)
  IN IF n <= 16 THEN reads_short(n)
     ELSE   UNION {wyr8(48 * i + 8 * j) : i \in 0 .. (LongSteps(n) - 1), j \in 0 .. 5}
            \cup UNION {wyr8(from + 16 * i + 8 * j) : i \in 0 .. (MediumSteps(n, from) - 1), j \in 0 .. 1}
            \cup wyr8(n - 16) \cup wyr8(n - 8)
-----------------------------------------------------------------------------
(* The hash of a string: the multiplication by halves gives both halves of *)
(* the exact product (no carry is lost), for the words a window of the     *)
(* state picks, and hash_string reads every byte of a string and nothing   *)
(* outside it, at each boundary of its length classes.                     *)
HashExact ==
  /\ \A a \in {x \in 0 .. (Word - 1) : x % 5 = d.size}, b \in 0 .. (Word - 1) :
       wymix(a, b) = ((a * b) \div Word) ^^ ((a * b) % Word)
  /\ \A n \in (40 * d.size) .. (40 * d.size + 39) : reads(n) = 0 .. (n - 1)
=============================================================================
