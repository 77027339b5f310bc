--------------------------- MODULE MC_EventCounts ----------------------------
(***************************************************************************)
(* MC_VsocGold's words, registers and memory, with an instruction of each  *)
(* kind that is counted and one that is none.                              *)
(***************************************************************************)
EXTENDS EventCounts, MC_VsocGold

MC_CountFirsts == {
  I("LUI", 0, FALSE, 1, 0, 0),
  I("LOAD", 2, FALSE, 1, 0, 0),
  I("JALR", 0, FALSE, 1, 0, 0),
  ZeroInst}

MC_CountSeconds == {
  I("CALC_REG", 0, TRUE, 1, 0, 1),
  I("STORE", 2, FALSE, 1, 1, 1),
  I("BRANCH", 4, FALSE, 0, 1, 0),
  I("BRANCH", 7, FALSE, 1, 0, 1),
  I("JAL", 0, FALSE, 1, 0, 0),
  EBREAK}

MC_CountInit == MC_Init /\ CountInit

MC_CountSpec == MC_CountInit /\ [][CountNext]_<<vars, counts>>
=============================================================================
