CONSTANTS
  MaxTsn = 4
  Packets <- SinglesAndPair
  Length <- UnitLength
  Charge <- UnevenCharge
  Capacity = 3
  UserResume = TRUE
  MayPause = TRUE
  MaxCalls = 5
SPECIFICATION Spec
INVARIANT TypeOK
INVARIANT NoneLost
INVARIANT AccountingExact
INVARIANT AckedArrived
CHECK_DEADLOCK FALSE
