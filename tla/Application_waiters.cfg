\* Two calls: one waits for an operation that fails.
SPECIFICATION FairSpec
CONSTANTS
  Calls = {c1, c2}
  Handler = sig
  GracePeriod = FALSE
  MayFail = TRUE
PROPERTIES WaitersLearn
CHECK_DEADLOCK FALSE
