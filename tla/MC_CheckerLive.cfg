SPECIFICATION FairSpec
CONSTANTS
  Checkers = {k1, k2}
  MaxRivals = 0
  None = None
PROPERTIES StopReturns LostIsNoticed
