\* A binding of the request context that does not match hides one that does.
SPECIFICATION Spec
CONSTANTS
  app = app req = req key = key b1 = b1 b2 = b2 view = view watcher = watcher
  NULL = NULL
  Contexts = {app, req}
  Ancestors <- Chain
  Bindings = {b1, b2}
  KeyOf <- OneKey
  Views = {view}
  Watchers = {watcher}
  Home <- Homes
  Matching = {b1}
  MayFail = FALSE
  MaxEvents = 2
INVARIANTS StaleIsNotified
CHECK_DEADLOCK FALSE
