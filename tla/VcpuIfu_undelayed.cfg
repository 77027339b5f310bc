SPECIFICATION MC_FairSpec
CONSTANTS
  i1 = i1
  i2 = i2
  i3 = i3
  Inst <- MC_Inst
  NWords = 5
  LINE_N = 2
  DelayRanges = {{0}}
  NoRequest = NoRequest
  Writable = {3}
PROPERTY
  FetchesIn1ToN
