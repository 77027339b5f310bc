SPECIFICATION MC_FairSpec
CONSTANTS
  Byte <- MC_Byte
  NegByte <- MC_NegByte
  WData <- MC_WData
  Addr <- MC_Addr
  LeftAddr <- MC_LeftAddr
  ZERO = 0
  ONES = 1
  NWords = 7
  UartLo = 0
  UartHi = 0
  FlashLo = 2
  FlashHi = 2
  RamLo = 4
  RamHi = 5
  DelayRanges = {{0, 1, 2, 3}, {2, 3}}
  NoRequest = NoRequest
  NoOp = NoOp
  MaxAccess = 2
INVARIANTS
  LatchedIsCurrent
  NoOrphanRequest
  PrintedOnce
PROPERTIES
  GoldSpec
  EveryAccessRetires
