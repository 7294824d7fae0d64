SPECIFICATION GraphsSpec
CONSTANTS
  x = x
  p1 = p1
  p2 = p2
  N = 3
  Names = {x}
  MaxEdits = 2
  MaxCrashes = 1
  Procs = {p1, p2}
  Specs <- MCSpecs
  Documents = {1, 2}
  Last = 3
  Scope <- MCScope
  Touches <- MCTouches
  Mined <- MCMined
  HasClient = TRUE
  MaxRuns = 2
  MayDie = {p2}
INVARIANTS
  TypesOK
  
  ReferencesAreKept
  RecordsMatchTheFiles
  
PROPERTY AdvancesOverStored
\* Commands end.
CHECK_DEADLOCK FALSE
