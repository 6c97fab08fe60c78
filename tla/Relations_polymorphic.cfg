\* Two sources that share a target.
CONSTANTS
  s1 = s1 s2 = s2 a = a b = b
  NONE = NONE
  Sources = {s1, s2}
  Types = {a, b}
  Ids = {1, 2}
  Hot <- MCHot
  Clients = {c1, c2}
  MaxOperations = 4
SPECIFICATION Spec
INVARIANT IncludesPolymorphic
CHECK_DEADLOCK FALSE
