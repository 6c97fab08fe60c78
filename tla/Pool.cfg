\* Three borrowers, two resources and a slot for one that is being stopped.
CONSTANTS
  Borrowers = {c1, c2, c3}
  Resources = {r1, r2, r3}
  MaxResources = 2
  MaxFailures = 1
  NOTHING = NOTHING
SPECIFICATION Spec
INVARIANTS Exclusive Clean
PROPERTY NobodyWaits
CHECK_DEADLOCK FALSE
