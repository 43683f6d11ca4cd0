SPECIFICATION Spec
CONSTANTS
  Checkers = {k1, k2}
  MaxRivals = 1
  None = None
INVARIANTS TypeOK UnwatchedWasReported RaiseNeedsRival
PROPERTIES EndsForAReason
