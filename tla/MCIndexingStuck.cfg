\* A writer that fails while there are files left to feed.
SPECIFICATION Spec
CONSTANTS
  Files = 4
  Window = 2
  WriterWindow = 2
  WriterMayFail = TRUE
  MayAbort = FALSE
INVARIANT CommitChainMakesRoom
CHECK_DEADLOCK FALSE
