----------------------------- MODULE EventCounts -----------------------------
(***************************************************************************)
(* The event counts of a test (VEventCounts, soc_main.cpp), which the      *)
(* measurements of the project are made from: the cycle counter of csr.sv, *)
(* and what the EXU tells exu_perf_measure at every edge (exu.sv).  The    *)
(* bench and the CPU are VsocGold's.                                       *)
(***************************************************************************)
EXTENDS VsocGold

CONSTANT MaxCycles    \* longest test

ASSUME EventCountsAssumption == MaxCycles \in Nat

VARIABLES
  mcycle,
  mifu_wait, mlsu_wait,
  mload_seen, mstore_seen, msystem_seen, mcalc_seen, mjump_seen, mbranch_seen,
  mbranch_taken

counts == <<mcycle, mifu_wait, mlsu_wait, mload_seen, mstore_seen, msystem_seen,
            mcalc_seen, mjump_seen, mbranch_seen, mbranch_taken>>

INST_SYSTEM == 5

\* The edge's next_state is EXU_EXECUTE.
is_instret == exu_state' = "EXECUTE"

Retired(b) == Bit(is_instret /\ b, 1)

is_jump   == d_type \in {INST_JUMP, INST_JUMPR}
is_branch == d_type = INST_BRANCH

\* Slip: a jump is one of the CALC types.
is_calc_Jump == d_type.hi \in {0, 1}

\* inst_type[5:4] == INST_EXEC and inst_type[0] == INST_CALC
is_calc == d_type.hi \in {0, 1} /\ d_type.lo % 2 = 0

\* Slip: only the LSU's first cycle is waited for.
is_lsu_wait_Asked == exu_state' = "STALL_LSU" /\ exu_state # "STALL_LSU"

is_lsu_wait == exu_state' = "STALL_LSU"

is_branch_true ==
  is_branch /\ u_com(idu_com_op(idu_inst), rf_rdata(regs, idu_inst.rs1), rf_rdata(regs, idu_inst.rs2))

\* Slip: the waits of the last test are kept.
CountReset_KeepsWaits ==
  /\ mcycle' = 0 /\ UNCHANGED <<mifu_wait, mlsu_wait>>
  /\ mload_seen' = 0 /\ mstore_seen' = 0 /\ msystem_seen' = 0
  /\ mcalc_seen' = 0 /\ mjump_seen' = 0 /\ mbranch_seen' = 0 /\ mbranch_taken' = 0

\* exu_perf_reset and the reset of csr.sv
CountReset ==
  /\ mcycle' = 0 /\ mifu_wait' = 0 /\ mlsu_wait' = 0
  /\ mload_seen' = 0 /\ mstore_seen' = 0 /\ msystem_seen' = 0
  /\ mcalc_seen' = 0 /\ mjump_seen' = 0 /\ mbranch_seen' = 0 /\ mbranch_taken' = 0

\* exu_perf_measure and csr.sv; minstret is counted by Core
Count ==
  /\ mcycle' = mcycle + 1
  /\ mifu_wait' = mifu_wait + Bit(exu_state' = "STALL_IDU", 1)
  /\ mlsu_wait' = mlsu_wait + Bit(is_lsu_wait, 1)
  /\ mload_seen'   = mload_seen + Retired(d_type.hi = INST_LOAD)
  /\ mstore_seen'  = mstore_seen + Retired(d_type.hi = INST_STORE)
  /\ msystem_seen' = msystem_seen + Retired(d_type.hi = INST_SYSTEM)
  /\ mcalc_seen'   = mcalc_seen + Retired(is_calc)
  /\ mjump_seen'   = mjump_seen + Retired(is_jump)
  /\ mbranch_seen' = mbranch_seen + Retired(is_branch)
  /\ mbranch_taken' = mbranch_taken + Retired(is_branch_true)

CountInit ==
  /\ Init
  /\ mcycle = 0 /\ mifu_wait = 0 /\ mlsu_wait = 0
  /\ mload_seen = 0 /\ mstore_seen = 0 /\ msystem_seen = 0
  /\ mcalc_seen = 0 /\ mjump_seen = 0 /\ mbranch_seen = 0 /\ mbranch_taken = 0

CountNext ==
  \/ NewTest /\ CountReset
  \/ mcycle < MaxCycles /\ (\E i, l \in BOOLEAN : Cycle(i, l)) /\ Count
  \/ (Abandon \/ Finish \/ Continue) /\ UNCHANGED counts

CountSpec == CountInit /\ [][CountNext]_<<vars, counts>>

-----------------------------------------------------------------------------
(* Properties.                                                             *)

CountsOK == counts \in [1 .. 10 -> 0 .. MaxCycles]

\* The cycle in which the EXU leaves its reset is counted as nothing.
Started == Bit(mcycle > 0, 1)

\* Every cycle of a test is accounted for, once: an instruction retires in it,
\* or the EXU waits for the fetch or for the LSU (exu.sv:175-177 against
\* csr.sv:26); none is both, none is neither, whenever the answers come.
CyclesAccounted == mcycle = minstret + mifu_wait + mlsu_wait + Started

\* Every instruction that retires is of exactly one of the six kinds, whatever
\* its word, and none is counted while the LSU still has it (exu.sv:178-183).
InstructionsClassified ==
  minstret = mload_seen + mstore_seen + msystem_seen + mcalc_seen + mjump_seen + mbranch_seen

\* The cycles spent on the LSU are those of loads and stores: without one of
\* them there is no wait, and the EXU waits for one at most until it retires.
LsuWaitsAreMemory ==
  mlsu_wait > 0 => mload_seen + mstore_seen > 0 \/ exu_state = "STALL_LSU"

\* Each instruction costs at least one edge without one in the EXU, the one at
\* which the IDU latches it: the CPU never retires two in a row, and the fetch
\* after a load or a store is not hidden behind it.
FetchWaits == mifu_wait >= minstret
=============================================================================
