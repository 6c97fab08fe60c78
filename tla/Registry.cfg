\* Every choice of options; an observer may fail.
SPECIFICATION FairSpec
CONSTANTS
  o1 = o1 o2 = o2 o3 = o3 o4 = o4
  NULL = NULL
  Observers = {o1, o2, o3, o4}
  Alphabet <- Alphabetical
  Explicit <- ThreeGroups
  Tagged <- NoTags
  Absent = {}
  Singletons = {o1, o2, o3, o4}
  Options <- AllOptions
  Orders <- Orderings
  MayFail = TRUE
  Runs = 2
  Rebinds = 0
  Regroups = 0
PROPERTIES NotifiesByGroups OperationEnds
CHECK_DEADLOCK FALSE
