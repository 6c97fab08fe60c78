\* Four concurrent calls, failures, shutdown with a grace period.
SPECIFICATION FairSpec
CONSTANTS
  Calls = {c1, c2, c3, c4}
  Handler = sig
  GracePeriod = TRUE
  MayFail = TRUE
INVARIANTS
  SoleOperation
  NobodyWaitsInVain
  InitializedWhenUp
  ListenerBalance
PROPERTIES
  NoKillAfterRestart
  LifeCycle
  CallsSettle
CHECK_DEADLOCK FALSE
