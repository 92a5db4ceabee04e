SPECIFICATION Spec
CONSTANTS
  MaxInt = 8
  Fuel = 20
  MaxRounds = 10
  Families = {"branch"}
  MaxSize = 2
INVARIANT InPlaceIsInvisible
