\* A file and one in a removable directory: events, failures of both kinds, stop() and
\* start() around a running sync, under the fairness of the event loop; and the
\* watches of three directories.
SPECIFICATION FairWatchesSpec
CONSTANTS
  f1 = f1
  d1 = d1
  DirPath = DirPath
  Files = {f1, d1}
  Dir = {d1}
  ScopedMax = 1
  MaxLockRetries = 1
  MaxSyncFailures = 1
  MaxEdits = 4
  Root = 0
  Dirs = {1, 2, 3}
  Sources = {4, 5}
  Parent <- MCParent
  MaxDirs = 3
  MaxChanges = 3
INVARIANTS
  TypesOK
  
  PendingHasWakeup
  RetryBudget
  ChangesAreHeard
PROPERTIES
  DegradedStaysOff
  
