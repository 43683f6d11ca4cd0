SPECIFICATION FairSpec
CONSTANTS
  Conns = {influx, mqtt}
  MaxChanges = 0
  MaxQueue = 3
  StopOutcomes = {"returns"}
  ConnTroubles = {}
PROPERTY
  StopReachesFinal
CHECK_DEADLOCK FALSE
