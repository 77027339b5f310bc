SPECIFICATION MC_CountSpec
CONSTANTS
  Data <- MC_Data
  Zero = 0
  Mem <- MC_Mem
  REG_NUM = 2
  Firsts <- MC_CountFirsts
  Seconds <- MC_CountSeconds
  Inst <- MC_Inst
  Programs <- MC_Programs
  u_alu <- MC_alu
  u_com <- MC_com
  g_alu <- MC_alu_eval
  g_compare <- MC_compare
  Plus4 <- MC_Plus4
  lsu_load <- MC_load
  lsu_store <- MC_store
  g_load <- MC_load
  g_store <- MC_store
  IsMapped <- MC_IsMapped
  ValidPc <- MC_ValidPc
  INITIAL_PC = 0
  is_random = TRUE
  is_memcmp = TRUE
  n_insts = 2
  MaxCycles = 14
INVARIANTS
  CyclesAccounted
  InstructionsClassified
  LsuWaitsAreMemory
  FetchWaits
CHECK_DEADLOCK FALSE
