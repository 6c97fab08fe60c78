\* Two callers read at any time; values are promises, or not, or null.
SPECIFICATION Spec
CONSTANTS
  NULL = NULL
  Candidates = {b1, b2, b3}
  Deferred = {b2, b3}
  Absent = {b3}
  Singletons = {b1, b2}
  Readers = {r1, r2}
  MayFail = TRUE
  MaxChanges = 4
INVARIANT LiveList
CHECK_DEADLOCK FALSE
