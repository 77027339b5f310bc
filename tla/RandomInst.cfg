SPECIFICATION Spec
CONSTANTS
  Patterns <- MC_Patterns
  Flags <- MC_Flags
  n_insts = 31
INVARIANTS
  TypeOK
  SameInstruction
  DecodedAsDrawn
  Reassembled
  AllButBgeuDrawable
  BasesAreMemory
  PrintedAsExecuted
