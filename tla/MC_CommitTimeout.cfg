SPECIFICATION FairSpec
CONSTANTS
  BatchSize = 2
  MaxMsgs = 2
  MaxRows = 1
  Poison = {}
PROPERTY
  CommittedOnTimeout
CHECK_DEADLOCK FALSE
