SPECIFICATION Spec
CONSTANTS
  UserFuncStart = 41
  SparseId = 47
  ExternalFuncStart = 1000
  Families = {"diamond", "prelude"}
  MaxEdits = 2
INVARIANTS
  CacheIsInvisible
  LinksToDenoted
  AcceptsWellScoped
  ProgramIsWhole
  GraphIsInverse
  AnalysisKeepsTypes
