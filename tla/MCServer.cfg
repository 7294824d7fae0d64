\* Three connections, two sessions with two calls, four calls of one worker, three
\* calls of the cache, four nodes.
SPECIFICATION MCSpec
CONSTANTS
  c1 = c1
  c2 = c2
  c3 = c3
  s1 = s1
  s2 = s2
  w1 = w1
  w2 = w2
  Conns <- MCConns
  Silent <- MCSilent
  Lossy <- MCLossy
  Clients <- MCClients
  ToolCalls <- MCToolCalls
  MaxOpens = 2
  MaxPoolCalls = 4
  Threads <- MCThreads
  MaxSize = 1
  MaxRetries = 1
  CrashBudget = 3
  Files <- MCFiles
  Keys <- MCKeys
  Lookups <- MCLookups
  MaxChanges = 2
\* The daemon may have exited, and all calls may have been answered.
CHECK_DEADLOCK FALSE
INVARIANTS
  TypesOK
  IdleWatched
  PoolServesWhatItAdmits
  EngineServesWhatItWatches
  AnswersAreRight
PROPERTIES
  LiveSessionsAreKept
  AbandonedDaemonStops
  HitsAreOfThisStamp
  EveryCallIsAnswered
