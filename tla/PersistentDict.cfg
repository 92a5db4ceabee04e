SPECIFICATION Spec
CONSTANTS
  Hashes = {0, 4, 5}
  Twins = {0}
  Values = {1, 2}
  Bits = 1
  HashBits = 3
  Half = 2
INVARIANTS
  NodesExact
  EqIgnoresOrder
  HashExact
PROPERTY
  MapSpec
