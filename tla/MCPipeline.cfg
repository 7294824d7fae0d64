\* Five files through a window of two and a writer that may lag; three parses; two
\* batches of two references; three passes; eight frames, one to a transaction, and
\* pauses of two passes.
SPECIFICATION MCSpec
CONSTANTS
  w1 = w1
  w2 = w2
  w3 = w3
  Files = 5
  Window = 2
  WriterWindow = 2
  WriterMayFail = TRUE
  MayAbort = TRUE
  MaxJobs = 3
  ParseThreads <- MCThreads
  MaxSize = 2
  RecycleInterval = 2
  CrashBudget = 2
  Rows = 4
  BatchSize = 2
  Workers <- MCWorkers
  MaxCrashes = 1
  Passes = 3
  Ends <- MCEnds
  Concurrency = 2
  MaxTransaction = 1
  MaxPasses = 2
  MaxFrames = 8
INVARIANTS
  TypesOK
  FilesAreAccounted
  SuccessMeansStored
  ReferencesAreKept
  SameGraphWhoeverWorks
  LogIsBounded
PROPERTIES
  ParsesAreAccounted
  EverythingEnds
\* indexAll returns in the end, and so do the others.
CHECK_DEADLOCK FALSE
