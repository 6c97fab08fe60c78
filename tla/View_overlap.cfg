\* Two callers resolve the values at the same time.
SPECIFICATION Spec
CONSTANTS
  NULL = NULL
  Candidates = {b1, b2, b3}
  Deferred = {b2, b3}
  Absent = {}
  Singletons = {b1, b2}
  Readers = {r1, r2}
  MayFail = FALSE
  MaxChanges = 2
INVARIANTS AlwaysLive
CHECK_DEADLOCK FALSE
