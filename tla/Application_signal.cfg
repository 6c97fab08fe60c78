\* A signal, and a restart while it shuts down.
SPECIFICATION FairSpec
CONSTANTS
  Calls = {c1, c2, c3}
  Handler = sig
  GracePeriod = TRUE
  MayFail = FALSE
PROPERTIES SignalEndsProcess
CHECK_DEADLOCK FALSE
