SPECIFICATION FairSpec
CONSTANTS
  Configs <- MC_Configs
  n_insts = 2
  reset_cycles = 2
  MaxWait = 1
  MaxInstrets = 3
CHECK_DEADLOCK FALSE
INVARIANTS
  InStep
  EbreakChecked
  LateNeverPasses
  AsManyAsAsked
PROPERTIES
  Terminates
