SPECIFICATION Spec
CONSTANTS
  MaxInt = 8
  Fuel = 20
  MaxRounds = 10
  Families = {"expr", "loop", "defer", "dict", "vec", "build", "rec"}
  MaxSize = 3
INVARIANTS
  
  AnfKeepsMeaning
  DefersRunAtBlockExit
  PeepholeKeepsMeaning
  InPlaceIsInvisible
