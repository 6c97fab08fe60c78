\* Scopes, a shared singleton, a cycle entered at both of its places, refreshes and failures.
SPECIFICATION FairSpec
CONSTANTS
  app = app req = req NULL = NULL
  s = s t = t log = log reqLog = reqLog rq = rq ap = ap x = x y = y
  Contexts = {app, req}
  Chain <- Chains
  ContextScope <- ContextScopes
  Bindings = {s, t, log, reqLog, rq, ap, x, y}
  Key <- Keyed
  Owner <- Owned
  Scope <- Scoped
  Immediate = {log, reqLog, ap}
  Deps <- Needs
  Wanted <- Calls
  MayFail = TRUE
  MaxRequests = 2
  MaxResets = 1
INVARIANTS CalculatedOnce CacheCurrent Confined OnlyRealCycles
PROPERTIES RequestsSettle
CHECK_DEADLOCK FALSE
