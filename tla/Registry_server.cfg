\* A server as Application.server binds it, and an observer without group.
SPECIFICATION Spec
CONSTANTS
  o1 = o1 o2 = o2 o3 = o3 o4 = o4
  NULL = NULL
  Observers = {o1, o2}
  Alphabet <- Alphabetical
  Explicit <- NoGroups
  Tagged <- PlainServer
  Absent = {}
  Singletons = {o1, o2}
  Options <- DefaultOptions
  Orders <- Orderings
  MayFail = FALSE
  Runs = 1
  Rebinds = 0
  Regroups = 0
INVARIANTS GroupOrder
CHECK_DEADLOCK FALSE
