SPECIFICATION Spec
CONSTANTS
  BatchSize = 2
  MaxMsgs = 1
  MaxRows = 1
  Poison = {}
INVARIANT
  NothingLeftBehind
CHECK_DEADLOCK FALSE
