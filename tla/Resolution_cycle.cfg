\* Two calls enter a cycle of dependencies at different places.
SPECIFICATION FairSpec
CONSTANTS
  app = app req = req NULL = NULL
  s = s t = t log = log reqLog = reqLog rq = rq ap = ap x = x y = y
  Contexts = {app, req}
  Chain <- Chains
  ContextScope <- ContextScopes
  Bindings = {s, t, log, reqLog, rq, ap, x, y}
  Key <- Keyed
  Owner <- Owned
  Scope <- Scoped
  Immediate = {log, reqLog, ap}
  Deps <- Needs
  Wanted <- BothEntries
  MayFail = FALSE
  MaxRequests = 2
  MaxResets = 0
PROPERTIES EveryRequestSettles
CHECK_DEADLOCK FALSE
