\* Two processes that sync, nothing else: no crash, close or timeout.
SPECIFICATION Spec
CONSTANTS
  p1 = p1
  p2 = p2
  Nobody = Nobody
  Procs = {p1, p2}
  Ops = {"sync"}
  MayCrash = {}
  MayClose = {}
  MayExpire = FALSE
  MaxRequests = 2
INVARIANT OneWriter
CHECK_DEADLOCK FALSE
