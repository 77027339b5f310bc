------------------------------ MODULE VsocGold -------------------------------
(***************************************************************************)
(* The test bench (soc_main.cpp) running the CPU in the SoC next to the    *)
(* golden model: test_random resets both and calls test_instructions, which *)
(* lets the CPU run until an instruction has retired (vsoc_fetch_exec),    *)
(* the golden model execute one (cpu_eval), and compares the two.  The SoC *)
(* around the CPU is what answers the fetch and the load/store unit.  The  *)
(* programs here execute no word they store to (VcpuIfu has those), and    *)
(* the options that end a test early, max and check, are off.              *)
(***************************************************************************)
EXTENDS Core, Gold

CONSTANTS
  is_random,     \* a random test: what the golden model does not map ends it
  is_memcmp,     \* the whole memory is compared, too
  n_insts,       \* length of a random test
  ValidPc(_)     \* is_valid_pc_address

VARIABLES
  phase,            \* "exec" in vsoc_fetch_exec, "eval" after it, "over" between tests
  gcpu,             \* the golden model
  instrets,         \* instructions the test has asked for
  minstret_start,   \* minstret when vsoc_fetch_exec was called
  is_test_success

benchVars == <<phase, gcpu, instrets, minstret_start, is_test_success>>
vars == <<coreVars, benchVars>>

ASSUME BenchAssumption ==
  /\ is_random \in BOOLEAN /\ is_memcmp \in BOOLEAN /\ n_insts \in Nat
  /\ INITIAL_PC \in Data
  /\ \A p \in Programs : p \in [Data -> Inst]
  /\ \A d \in Data : ValidPc(d) \in BOOLEAN

-----------------------------------------------------------------------------
\* vsoc_reset, g_reset, and the first turn of test_instructions' loop.
NewTest ==
  /\ phase = "over" /\ is_test_success
  /\ Reset
  /\ gcpu' = g_reset(gcpu, INITIAL_PC)
  /\ instrets' = 1 /\ minstret_start' = 0
  /\ phase' = "exec"
  /\ UNCHANGED is_test_success

Fetched == ebreak' \/ minstret' # minstret_start

\* One turn of vsoc_fetch_exec's loop.
Cycle(ifu_respValid, lsu_respValid) ==
  /\ phase = "exec"
  /\ Edge(ifu_respValid, lsu_respValid)
  /\ phase' = IF Fetched THEN "eval" ELSE "exec"
  /\ UNCHANGED <<gcpu, instrets, minstret_start, is_test_success>>

CountsAgree == ebreak \/ minstret = instrets

evaluated == cpu_eval(gcpu, code[gcpu.pc])

compare_vsoc_gold ==
  /\ ebreak = evaluated.ebreak /\ pc = evaluated.pc /\ regs = evaluated.regs
  /\ is_memcmp => mem = evaluated.mem

\* The golden model met something it does not know: the test is over.
Abandon ==
  /\ phase = "eval"
  /\ is_random /\ evaluated.is_not_mapped
  /\ gcpu' = evaluated
  /\ is_test_success' = (is_test_success /\ CountsAgree)
  /\ phase' = "over"
  /\ UNCHANGED <<coreVars, instrets, minstret_start>>

Compared ==
  /\ phase = "eval"
  /\ ~(is_random /\ evaluated.is_not_mapped)
  /\ gcpu' = evaluated
  /\ is_test_success' = (is_test_success /\ CountsAgree /\ compare_vsoc_gold)
  /\ UNCHANGED coreVars

Ends ==
  \/ ~is_test_success'
  \/ ebreak /\ gcpu'.ebreak
  \/ ~ValidPc(gcpu'.pc) \/ ~ValidPc(pc)
  \/ is_random /\ instrets > n_insts

Finish ==
  /\ Compared /\ Ends
  /\ phase' = "over"
  /\ UNCHANGED <<instrets, minstret_start>>

Continue ==
  /\ Compared /\ ~Ends
  /\ phase' = "exec"
  /\ instrets' = instrets + 1
  /\ minstret_start' = minstret

\* Before the first test; the build starts registers at zero.
Init ==
  /\ code \in Programs /\ mem \in Mem
  /\ is_start = FALSE /\ ifu_reqValid = FALSE /\ ifu_busy = FALSE /\ lsu_busy = FALSE
  /\ idu_respValid = FALSE /\ idu_inst \in Inst
  /\ exu_state = "START"
  /\ pc = INITIAL_PC /\ regs = [r \in Reg |-> Zero]
  /\ minstret = 0 /\ ebreak = FALSE
  /\ phase = "over" /\ instrets = 0 /\ minstret_start = 0 /\ is_test_success = TRUE
  /\ gcpu = [pc |-> INITIAL_PC, regs |-> regs, mem |-> mem, ebreak |-> FALSE,
             is_not_mapped |-> FALSE]

Next ==
  \/ NewTest
  \/ \E i, l \in BOOLEAN : Cycle(i, l)
  \/ Abandon \/ Finish \/ Continue

Spec == Init /\ [][Next]_vars

\* The bench's loop goes on, and the SoC answers what it is asked.
FairSpec ==
  /\ Spec
  /\ WF_vars(\E i, l \in BOOLEAN : Cycle(i, l))
  /\ WF_vars(ifu_busy /\ \E l \in BOOLEAN : Cycle(TRUE, l))
  /\ WF_vars(lsu_busy /\ \E i \in BOOLEAN : Cycle(i, TRUE))

-----------------------------------------------------------------------------
(* Properties.                                                             *)

TypeOK ==
  /\ code \in Programs /\ mem \in Mem
  /\ {is_start, ifu_reqValid, ifu_busy, lsu_busy, idu_respValid, ebreak} \subseteq BOOLEAN
  /\ idu_inst \in Inst /\ exu_state \in ExuState
  /\ pc \in Data /\ regs \in Regs
  /\ minstret \in Nat /\ minstret_start \in Nat /\ instrets \in Nat
  /\ phase \in {"exec", "eval", "over"}
  /\ gcpu \in GoldState
  /\ is_test_success \in BOOLEAN

(***************************************************************************)
(* No test fails: whenever the bench compares, the CPU has retired as many *)
(* instructions as were asked for, and its ebreak flag, its pc, every      *)
(* register and the memory are the golden model's (soc_main.cpp:801-813,   *)
(* 1003-1005), whatever the program and however long the SoC takes to      *)
(* answer.                                                                 *)
(***************************************************************************)
EveryTestPasses == is_test_success

(***************************************************************************)
(* There is one instruction in the CPU, and it is in one place: being      *)
(* asked for, fetched, decoded, or at the LSU.  So the IFU is not asked    *)
(* while it is busy, nor the LSU, which take no second request, and the    *)
(* IDU's register is not overwritten while the EXU or the LSU reads it.    *)
(***************************************************************************)
OneInstruction ==
  /\ ~(ifu_reqValid /\ (ifu_busy \/ idu_respValid \/ lsu_busy))
  /\ ~(ifu_busy /\ (idu_respValid \/ lsu_busy))
  /\ ~(idu_respValid /\ lsu_busy)
  /\ lsu_busy <=> exu_state = "STALL_LSU"

(***************************************************************************)
(* A reset finds the decoder empty.  idu.sv:28-30 resets nothing, so an    *)
(* instruction handed over at the reset would be seen again after it, and  *)
(* a load or a store among them would be sent to the LSU (cpu.sv:136).     *)
(***************************************************************************)
ResetFindsNothing == is_start => ~idu_respValid

(***************************************************************************)
(* vsoc_fetch_exec returns: an instruction retires however the answers of  *)
(* the fetch and of the LSU fall.                                          *)
(***************************************************************************)
FetchExecReturns == phase = "exec" ~> phase = "eval"
=============================================================================
