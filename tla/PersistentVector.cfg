\* BF = 2 instead of 32, so that six elements make a tree of
\* several levels; the second operand has up to five, a tree of two levels too.
SPECIFICATION Spec
CONSTANTS
  B = 1
  MaxLen = 6
  MaxOther = 5
INVARIANTS
  TreeExact
  BuilderKeepsAll
  IndexesNth
  ConcatIsAppend
  SliceIsSubSeq
