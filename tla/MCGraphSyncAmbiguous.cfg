SPECIFICATION Spec
CONSTANTS
  x = x
  N = 3
  Names = {x}
  MaxEdits = 1
  MaxCrashes = 0
INVARIANT SyncEqualsRebuild
