--------------------------- MODULE StringBuilder ---------------------------
(***************************************************************************)
(* The transient string builder of the runtime (src/src/runtime/str.rs).   *)
(* It writes into a mutable buffer and freeze hands that buffer out when   *)
(* it is exactly full, so buffers live on a heap here and a frozen string  *)
(* is a reference.                                                         *)
(***************************************************************************)
EXTENDS ByteStrings, FiniteSets

CONSTANTS Bytes,     \* the byte values of the instance
          MaxChunk,  \* bound: the longest chunk appended at once
          MaxText,   \* bound: the longest text in a builder
          MaxHeap    \* bound: the number of buffers allocated

ASSUME LibAssumption ==
  /\ Bytes \subseteq Nat \ {0}
  /\ {MaxChunk, MaxText, MaxHeap} \subseteq Nat

VARIABLES heap,     \* the buffers, by reference
          b,        \* the builder: its length and the reference of its buffer
          said,     \* ghost: the text put into the builder
          frozen    \* the strings frozen so far: reference and text then

vars == <<heap, b, said, frozen>>

Strings(n) == UNION {[1 .. k -> Bytes] : k \in 0 .. n}

(***************************************************************************)
(* The string builder.                                                     *)
(***************************************************************************)
NewRef == Cardinality(DOMAIN heap) + 1
Alloc(buf) == [r \in DOMAIN heap \cup {NewRef} |-> IF r = NewRef THEN buf ELSE heap[r]]

Init == /\ heap = <<<<>>>>
        /\ b = [len |-> 0, buf |-> 1]
        /\ said = <<>>
        /\ frozen = {}

(* A new builder copies its base into a buffer of exactly that length.     *)
builder_from(base) ==
  /\ NewRef <= MaxHeap
  /\ heap' = Alloc(Copied(Zeros(Len(base)), 0, base))
  /\ b' = [len |-> Len(base), buf |-> NewRef]
  /\ said' = base
  /\ UNCHANGED frozen

(* Append in place while the chunk fits, otherwise in a copy of twice the  *)
(* size, or of what is needed when that is more.                           *)
builder_extend(chunk) ==
  LET needed == b.len + Len(chunk)
      cap == Len(heap[b.buf])
      newCap == IF cap * 2 < needed THEN needed ELSE cap * 2
      grown == Copied(Zeros(newCap), 0, SubSeq(heap[b.buf], 1, b.len))
  IN /\ needed <= MaxText
     /\ said' = said \o chunk
     /\ UNCHANGED frozen
     /\ IF needed > cap
        THEN /\ NewRef <= MaxHeap
             /\ heap' = Alloc(Copied(grown, b.len, chunk))
             /\ b' = [len |-> needed, buf |-> NewRef]
        ELSE /\ heap' = [heap EXCEPT ![b.buf] = Copied(@, b.len, chunk)]
             /\ b' = [b EXCEPT !.len = needed]

(* Mutant: the buffer is handed out whether it is full or not.             *)
builder_freezeShares ==
  /\ frozen' = frozen \cup {[ref |-> b.buf, text |-> said]}
  /\ UNCHANGED <<heap, b, said>>

(* A full buffer is handed out as it is, another one is copied.            *)
builder_freeze ==
  LET full == b.len = Len(heap[b.buf])
      text == SubSeq(heap[b.buf], 1, b.len)
  IN /\ IF full THEN heap' = heap ELSE NewRef <= MaxHeap /\ heap' = Alloc(text)
     /\ frozen' = frozen \cup {[ref |-> IF full THEN b.buf ELSE NewRef, text |-> said]}
     /\ UNCHANGED <<b, said>>

Next == \/ \E base \in {f.text : f \in frozen} : builder_from(base)
        \/ \E chunk \in Strings(MaxChunk) : builder_extend(chunk)
        \/ builder_freeze

Spec == Init /\ [][Next]_vars
-----------------------------------------------------------------------------
(***************************************************************************)
(* Properties.                                                             *)
(***************************************************************************)
(* A frozen string never changes again, although freeze may hand out the   *)
(* builder's own buffer and the program goes on appending to the builder;  *)
(* and the builder holds what was put into it, whatever buffers it went    *)
(* through (builder_extend doubles them, builder_freeze shares a full one).*)
BuilderExact ==
  /\ \A f \in frozen : heap[f.ref] = f.text
  /\ SubSeq(heap[b.buf], 1, b.len) = said

Lexicographic(s, t) ==
  \/ Len(s) < Len(t) /\ SubSeq(t, 1, Len(s)) = s
  \/ \E i \in DOMAIN s : /\ i \in DOMAIN t
                         /\ SubSeq(s, 1, i - 1) = SubSeq(t, 1, i - 1)
                         /\ s[i] < t[i]

(* cmp is the lexicographic order and agrees with eq; substring clamps to  *)
(* an interval of the string; concat appends.                              *)
StringsOrdered ==
  \A f \in frozen :
    /\ string_compare(said, f.text) = IF Lexicographic(said, f.text) THEN "Lt"
                                      ELSE IF Lexicographic(f.text, said) THEN "Gt" ELSE "Eq"
    /\ (cmp(said, f.text) = 0) = str_eq(said, f.text)
    /\ concat(said, f.text) = said \o f.text
    /\ \A i, j \in 0 .. Len(said) : i <= j =>
         concat(substring(said, 0, i), concat(substring(said, i, j), substring(said, j, -1))) = said
=============================================================================
