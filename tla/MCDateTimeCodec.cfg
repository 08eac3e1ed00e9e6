CONSTANTS
  YearMax = 1
  SecondsPerYear = 3
  Offsets <- MCOffsets
  NoValue = NoValue
SPECIFICATION Spec
INVARIANTS TypeOK ExpiryNeverExtended
