\* Two callers; targets of two types, with the same ids.
CONSTANTS
  s1 = s1 s2 = s2 a = a b = b
  NONE = NONE
  Sources = {s1, s2}
  Types = {a, b}
  Ids = {1, 2}
  Hot <- MCHot
  Clients = {c1, c2}
  MaxOperations = 4
SPECIFICATION Spec
SYMMETRY Symmetry
INVARIANT Includes
PROPERTIES DeletesRightly SparesOthers
CHECK_DEADLOCK FALSE
