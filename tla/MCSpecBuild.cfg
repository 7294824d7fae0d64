SPECIFICATION Spec
CONSTANTS
  p1 = p1
  Procs = {p1}
  Specs <- MCSpecs
  Documents = {1}
  Last = 2
  Scope <- MCScope
  Touches <- MCTouches
  Mined <- MCMined
  HasClient = TRUE
  MaxRuns = 1
  MayDie = {}
PROPERTY EveryRelationIsCreated
CHECK_DEADLOCK FALSE
