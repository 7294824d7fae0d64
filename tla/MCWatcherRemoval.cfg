\* A directory removal.
SPECIFICATION Spec
CONSTANTS
  f1 = f1
  d1 = d1
  DirPath = DirPath
  Files = {f1, d1}
  Dir = {d1}
  ScopedMax = 1
  MaxLockRetries = 1
  MaxSyncFailures = 1
  MaxEdits = 5
INVARIANT RemovalIsOwed
