\* Observers come and go, and groups are reordered.
SPECIFICATION FairSpec
CONSTANTS
  o1 = o1 o2 = o2 o3 = o3 o4 = o4
  NULL = NULL
  Observers = {o1, o2, o3}
  Alphabet <- Alphabetical
  Explicit <- TwoGroups
  Tagged <- NoTags
  Absent = {}
  Singletons = {o1, o2, o3}
  Options <- ParallelOptions
  Orders <- Orderings
  MayFail = FALSE
  Runs = 2
  Rebinds = 2
  Regroups = 1
INVARIANTS NotifiedOnce CacheTrue
CHECK_DEADLOCK FALSE
