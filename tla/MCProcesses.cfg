\* Three callers of two calls each; two processes of two operations each, with
\* crashes, closes, expiry and both kinds of operation; three candidates, one of
\* which may be killed at any step; two tool calls, another request, the
\* initialize and a request of the daemon's.
SPECIFICATION FairProcessesSpec
CONSTANTS
  c1 = c1
  c2 = c2
  c3 = c3
  p1 = p1
  p2 = p2
  p3 = p3
  Nobody = Nobody
  Callers = {c1, c2, c3}
  MaxCalls = 2
  Procs = {p1, p2}
  Ops = {"sync", "indexFiles"}
  MayCrash = {p1, p2}
  MayClose = {p1, p2}
  MayExpire = TRUE
  MaxRequests = 2
  Candidates = {p1, p2, p3}
  Retries = 2
  MayDie = {p3}
  MayStop = {p1, p2, p3}
  MayFail = {p2}
  t1 = t1
  t2 = t2
  o1 = o1
  i1 = i1
  a1 = a1
  Tools = {t1, t2}
  Others = {o1}
  Inits = {i1}
  Answers = {a1}
INVARIANTS
  TypesOK
  MutualExclusion
  NoLeak
  OneDaemonUnlessKilled
  OnlyCrashesLeaveALock
  AtMostOneReply
  NothingForgotten
PROPERTIES
  TakesTurns
  NobodyIsLockedOut
  EveryCallIsAnswered
\* Calls end, processes may all be idle or dead, candidates exit, the host leaves.
CHECK_DEADLOCK FALSE
