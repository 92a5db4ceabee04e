SPECIFICATION Spec
CONSTANTS
  Bytes = {1, 2, 3}
  MaxChunk = 2
  MaxText = 4
  MaxHeap = 4
  W = 8
  H = 5
CHECK_DEADLOCK FALSE
INVARIANTS
  BuilderExact
  SortSorts
  EqIsStructural
  TextExact
