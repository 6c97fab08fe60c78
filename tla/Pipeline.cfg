CONSTANTS
  Method = 4
  Target = 7
  Express = {2}
  MaxNext = 2
  MaxWrites = 2
SPECIFICATION Spec
INVARIANTS AnswersLast RunsOnce SkipIsRespected ClosedLast
PROPERTY Answered
CHECK_DEADLOCK FALSE
