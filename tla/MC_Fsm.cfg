SPECIFICATION FairSpec
CONSTANTS
  Conns = {influx, mqtt}
  MaxChanges = 3
  MaxQueue = 3
  StopOutcomes = {"returns", "raises", "hangs"}
  ConnTroubles = {"raises", "locks"}
INVARIANTS
  TypeOK
  NoWriterLost
  RunningHasWriter
  CleanEnd
PROPERTIES
  FinalIsFinal
  Reconnects
  StopOutcome
CHECK_DEADLOCK FALSE
