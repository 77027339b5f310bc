SPECIFICATION Spec
CONSTANTS
  p1 = p1
  p2 = p2
  NaN = NaN
  NULL = NULL
  NotNumber <- NaN
  Numbers <- MC_Numbers
  Int32 = 40
  Uint64 = 100
  Paths <- MC_Paths
  Hashes <- MC_Hashes
  FlagWords <- MC_FlagWords
  MaxArgs = 3
CHECK_DEADLOCK FALSE
INVARIANTS
  OneTest
PROPERTIES
  FirstHolds
