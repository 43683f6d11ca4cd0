SPECIFICATION FairSpec
CONSTANTS
  BatchSize = 2
  MaxMsgs = 2
  MaxRows = 2
  Poison = {2}
INVARIANTS
  TypeOK
  TaskAccounting
  InOrder
  GracefulAbandonsAtMostHeld
PROPERTIES
  QuietAfterStop
  ImplementsDelivery
  EveryMessageParsed
  ShutdownOutcome
CHECK_DEADLOCK FALSE
