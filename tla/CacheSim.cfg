CONSTANTS
  Pcs <- MC_Pcs
  Shapes <- MC_Shapes
  itrace_len = 6
  Hash <- MC_Hash
  TimeWrap = 6
SPECIFICATION Spec
INVARIANTS
  TypeOK
  LoadBelowHalf
  CompulsoryOncePerLine
PROPERTIES
  ImplementsMissClasses
CHECK_DEADLOCK FALSE
