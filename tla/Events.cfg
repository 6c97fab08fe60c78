\* Both bindings match the view's filter; the watcher may fail.
SPECIFICATION FairSpec
CONSTANTS
  app = app req = req key = key b1 = b1 b2 = b2 view = view watcher = watcher
  NULL = NULL
  Contexts = {app, req}
  Ancestors <- Chain
  Bindings = {b1, b2}
  KeyOf <- OneKey
  Views = {view}
  Watchers = {watcher}
  Home <- Homes
  Matching = {b1, b2}
  MayFail = TRUE
  MaxEvents = 2
INVARIANTS StaleIsNotified HeardInOrder PendingCovers
PROPERTIES EventuallyFresh WaitEnds
CHECK_DEADLOCK FALSE
