SPECIFICATION Spec
CONSTANTS
  Messages <- MCMessages
  BatchSize = 3
  Micro = 2
  IntMax = 11
INVARIANTS TypeOK RowsAligned SoundRowsMade CopiesAgree LostInBadCompany UnitsConvert
CHECK_DEADLOCK FALSE
