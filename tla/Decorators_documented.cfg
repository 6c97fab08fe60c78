\* The decorator factories against their documentation: one class of a chain
\* has a property or a method, and a class below it decorates two.
CONSTANTS
  NONE = NONE ABSENT = ABSENT UNDEFINED = UNDEFINED
  Literals = {1}
  Variables = {x}
  MaxLength = 1
  MaxRoutes = 0
  Bindings <- ThreeBindings
  TagNames = {n1}
  TagValues = {t1}
  MaxTagged = 0
  MaxChanges = 0
  Properties = {p}
  Values = {v1}
  Restrictions <- OneEach
  MaxCalls = 0
  Depth = 2
  Members = {m, n}
  Parameters = 1
  Fields = {{"f"}}
  MaxApplied = 4
SPECIFICATION SeqSpec
INVARIANT MergedAsDocumented
CHECK_DEADLOCK FALSE
