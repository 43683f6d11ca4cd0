SPECIFICATION Spec
CONSTANTS
  BatchSize = 2
  MaxMsgs = 1
  MaxRows = 1
  Poison = {1}
INVARIANT
  ParserSurvives
CHECK_DEADLOCK FALSE
