CONSTANTS
  Method = 4
  Target = 7
  Express = {2}
  MaxNext = 2
  MaxWrites = 2
SPECIFICATION Spec
INVARIANT NobodyIsBypassed
CHECK_DEADLOCK FALSE
