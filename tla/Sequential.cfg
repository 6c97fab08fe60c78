\* Each algorithm on a small instance of its own.
CONSTANTS
  \* Routers: all tables of three routes over two literals and two variables.
  NONE = NONE ABSENT = ABSENT UNDEFINED = UNDEFINED
  Literals = {1, 2}
  Variables = {x, y}
  MaxLength = 2
  MaxRoutes = 3
  \* TagIndexer: two bindings of one key and one of another, in two contexts.
  Bindings <- ThreeBindings
  TagNames = {n1, n2}
  TagValues = {t1, t2}
  MaxTagged = 3
  MaxChanges = 3
  \* WhereBuilder: a caller's where, and three calls.
  Properties = {p, q}
  Values = {v1, v2}
  Restrictions <- OneEach
  MaxCalls = 3
  \* DecoratorFactories: a chain of three classes.
  Depth = 3
  Members = {m, n}
  Parameters = 2
  Fields = {{"f"}, {"f", "g"}}
  MaxApplied = 4
SPECIFICATION SeqSpec
SYMMETRY Symmetry
INVARIANTS SameRoutes IndexIsTrue ConstraintsHold MetadataMerged
CHECK_DEADLOCK FALSE
