\* One tool call that is sent while the daemon connection is being made.
SPECIFICATION Spec
CONSTANTS
  t1 = t1
  Tools = {t1}
  Others = {}
  Inits = {}
  Answers = {}
INVARIANT WedgeIsBounded
CHECK_DEADLOCK FALSE
