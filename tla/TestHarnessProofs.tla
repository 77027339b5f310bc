------------------------- MODULE TestHarnessProofs --------------------------
(***************************************************************************)
(* What is proved of the test bench as a judge: for programs and limits of *)
(* any size, whatever the CPUs and the golden model do, and for every      *)
(* choice of options.                                                      *)
(***************************************************************************)
EXTENDS TestHarness, TLAPS

-----------------------------------------------------------------------------
(* Types.                                                                  *)

VsocState == [arch : Arch, ebreak : BOOLEAN, minstret : Nat, mcycle : Nat, is_ebreak : BOOLEAN]
VcpuState == [arch : Arch, is_mem_write : BOOLEAN]
GoldState == [arch : Arch, ebreak : BOOLEAN, is_not_mapped : BOOLEAN, is_mem_write : BOOLEAN]

TypeOK ==
  /\ tb \in Configs
  /\ phase \in {"start", "top", "vsoc", "vcpu", "gold", "judge", "over", "done"}
  /\ vsoc \in VsocState /\ vcpu \in VcpuState /\ gcpu \in GoldState
  /\ vsoc_cycles \in Nat /\ vcpu_ticks \in Nat /\ instrets \in Nat
  /\ is_test_success \in BOOLEAN
  /\ is_tests_success \in BOOLEAN /\ tests_passed \in Nat

LEMMA ArchTypes ==
  ASSUME NEW a \in Arch
  PROVE  ResetArch(a) \in Arch /\ AfterEbreak(a) \in Arch
<1>1. n_insts \in Nat /\ a.pc \in 0 .. n_insts + 1
  BY HarnessAssumption DEF Arch
<1>2. ResetArch(a) \in Arch
  <2>1. 0 \in 0 .. n_insts + 1
    BY <1>1
  <2> QED  BY <2>1 DEF Arch, ResetArch
<1>3. (IF a.pc <= n_insts THEN a.pc + 1 ELSE a.pc) \in 0 .. n_insts + 1
  BY <1>1
<1>4. AfterEbreak(a) \in Arch
  BY <1>3 DEF Arch, AfterEbreak
<1> QED  BY <1>2, <1>4

LEMMA VsocType ==
  ASSUME TypeOK, Idle \/ Retire
  PROVE  vsoc' \in VsocState
<1>0. vsoc \in VsocState /\ vsoc.arch \in Arch
  BY DEF TypeOK, VsocState
<1>1. CASE Idle
  <2>1. (IF InReset THEN 0 ELSE vsoc.mcycle + 1) \in Nat
    BY <1>0 DEF VsocState
  <2>2. (vsoc.ebreak \/ vsoc.is_ebreak) \in BOOLEAN
    BY Zenon
  <2> QED  BY <1>0, <1>1, <2>1, <2>2 DEF Idle, VsocState
<1>2. CASE Retire
  <2>1. PICK is_ebreak \in BOOLEAN, a \in Arch :
          vsoc' = [vsoc EXCEPT !.mcycle = @ + 1, !.minstret = @ + 1, !.arch = a,
                               !.is_ebreak = is_ebreak]
    BY <1>0, <1>2, ArchTypes DEF Retire, Outcomes
  <2>2. vsoc.mcycle + 1 \in Nat /\ vsoc.minstret + 1 \in Nat
    BY <1>0 DEF VsocState
  <2> QED  BY <1>0, <2>1, <2>2 DEF VsocState
<1> QED  BY <1>1, <1>2

LEMMA VcpuType ==
  ASSUME TypeOK, VcpuRetire
  PROVE  vsoc' \in VsocState /\ vcpu' \in VcpuState
<1>0. vsoc \in VsocState /\ vcpu.arch \in Arch
  BY DEF TypeOK, VcpuState
<1>1. PICK is_ebreak \in BOOLEAN, is_mem_write \in BOOLEAN, a \in Arch :
        /\ vcpu' = [arch |-> a, is_mem_write |-> is_mem_write]
        /\ vsoc' = [vsoc EXCEPT !.minstret = IF @ <= MaxInstrets THEN @ + 1 ELSE @,
                                !.ebreak = @ \/ is_ebreak]
  BY <1>0, ArchTypes DEF VcpuRetire
<1>2. (IF vsoc.minstret <= MaxInstrets THEN vsoc.minstret + 1 ELSE vsoc.minstret) \in Nat
  BY <1>0 DEF VsocState
<1>3. (vsoc.ebreak \/ is_ebreak) \in BOOLEAN
  BY Zenon
<1> QED  BY <1>0, <1>1, <1>2, <1>3 DEF VsocState, VcpuState

LEMMA GoldType ==
  ASSUME TypeOK, GoldEval
  PROVE  gcpu' \in GoldState
<1>0. gcpu.arch \in Arch
  BY DEF TypeOK, GoldState
<1>1. PICK is_ebreak \in BOOLEAN, is_not_mapped \in BOOLEAN, is_mem_write \in BOOLEAN, a \in Arch :
        gcpu' = [arch |-> a, ebreak |-> is_ebreak, is_mem_write |-> is_mem_write,
                 is_not_mapped |-> gcpu.is_not_mapped \/ is_not_mapped]
  BY <1>0, ArchTypes DEF GoldEval, Outcomes
<1>2. (gcpu.is_not_mapped \/ is_not_mapped) \in BOOLEAN
  BY Zenon
<1> QED  BY <1>1, <1>2 DEF GoldState

LEMMA StartType ==
  ASSUME TypeOK, StartTest
  PROVE  vsoc' \in VsocState /\ vcpu' \in VcpuState /\ gcpu' \in GoldState
<1>1. vsoc.arch \in Arch /\ vcpu.arch \in Arch /\ gcpu.arch \in Arch
  BY DEF TypeOK, VsocState, VcpuState, GoldState
<1>2. ResetArch(vsoc.arch) \in Arch /\ ResetArch(vcpu.arch) \in Arch /\ ResetArch(gcpu.arch) \in Arch
  BY <1>1, ArchTypes
<1>3. vsoc' \in VsocState
  BY <1>1, <1>2 DEF StartTest, VsocState
<1>4. vcpu' \in VcpuState
  BY <1>2 DEF StartTest, TypeOK, VcpuState
<1>5. gcpu' \in GoldState
  BY <1>2 DEF StartTest, TypeOK, GoldState
<1> QED  BY <1>3, <1>4, <1>5

LEMMA TypeStep == TypeOK /\ [Next]_vars => TypeOK'
<1> SUFFICES ASSUME TypeOK, [Next]_vars PROVE TypeOK'
  OBVIOUS
<1>1. CASE StartTest
  BY <1>1, StartType DEF StartTest, TypeOK, testVars
<1>2. CASE Top
  BY <1>2 DEF Top, TypeOK, testVars, AfterVsoc, AfterVcpu
<1>3. CASE VsocCycle
  <2>1. vsoc' \in VsocState
    BY <1>3, VsocType DEF VsocCycle
  <2>2. is_test_success' \in BOOLEAN
    BY <1>3, Zenon DEF VsocCycle, TypeOK
  <2>3. phase' \in {"vsoc", "vcpu", "gold", "judge"}
    BY <1>3 DEF VsocCycle, AfterVsoc, AfterVcpu
  <2> QED  BY <1>3, <2>1, <2>2, <2>3 DEF VsocCycle, TypeOK, testVars
<1>4. CASE VcpuTick
  <2>1. vsoc' \in VsocState /\ vcpu' \in VcpuState
    BY <1>4, VcpuType DEF VcpuTick, TypeOK
  <2>2. is_test_success' \in BOOLEAN
    BY <1>4, Zenon DEF VcpuTick, TypeOK
  <2>3. phase' \in {"vcpu", "gold", "judge"} /\ vcpu_ticks' \in Nat
    BY <1>4 DEF VcpuTick, AfterVcpu, TypeOK
  <2> QED  BY <1>4, <2>1, <2>2, <2>3 DEF VcpuTick, TypeOK, testVars
<1>5. CASE GoldEval
  <2>1. gcpu' \in GoldState
    BY <1>5, GoldType
  <2>2. is_test_success' \in BOOLEAN
    BY <1>5, Zenon DEF GoldEval
  <2>3. phase' \in {"over", "judge"}
    BY <1>5 DEF GoldEval
  <2> QED  BY <1>5, <2>1, <2>2, <2>3 DEF GoldEval, TypeOK, testVars, cycleVars
<1>6. CASE Judge
  <2>1. is_test_success' \in BOOLEAN
    BY <1>6, Zenon DEF Judge
  <2>2. phase' \in {"over", "top"}
    BY <1>6 DEF Judge
  <2> QED  BY <1>6, <2>1, <2>2 DEF Judge, TypeOK, testVars, cycleVars
<1>7. CASE EndTest
  <2>1. is_tests_success' \in BOOLEAN
    BY <1>7, Zenon DEF EndTest
  <2>2. phase' \in {"start", "done"} /\ tests_passed' \in Nat
    BY <1>7 DEF EndTest, Passed, TypeOK
  <2> QED  BY <1>7, <2>1, <2>2 DEF EndTest, TypeOK, cycleVars
<1>8. CASE UNCHANGED vars
  BY <1>8 DEF vars, TypeOK, testVars, cycleVars
<1> QED  BY <1>1, <1>2, <1>3, <1>4, <1>5, <1>6, <1>7, <1>8 DEF Next

-----------------------------------------------------------------------------
(***************************************************************************)
(* The inductive invariant, by the turn of test_instructions' loop.  A     *)
(* turn that runs the vcpu fails, since none of its instructions is        *)
(* counted where the bench looks for them; so of a turn that succeeds only *)
(* the CPU in the SoC and the golden model remain, and what the bench has  *)
(* checked of them still holds when the turn is judged.                    *)
(***************************************************************************)
Turn == {"vsoc", "vcpu", "gold", "judge"}

Running ==
  /\ phase \in Turn => instrets > 0
  /\ phase = "vsoc" => tb.is_vsoc
  /\ phase = "vcpu" => tb.is_vcpu
  /\ phase = "gold" => tb.is_gold

VcpuFails ==
  tb.is_vcpu /\ is_test_success =>
    /\ phase \notin {"gold", "judge"}
    /\ phase = "top" => instrets = 0
    /\ phase = "over" => Abandoned

\* The loop does not go on with a CPU that has stopped.
NotStopped == phase \in {"top", "vsoc"} /\ tb.is_vsoc => ~vsoc.ebreak

\* What vsoc_fetch_exec has found.
VsocFound ==
  phase \in {"gold", "judge", "over"} /\ tb.is_vsoc /\ ~tb.is_vcpu /\ is_test_success =>
    IF vsoc.ebreak THEN tb.is_check => vsoc.arch.a0 = 0
    ELSE vsoc.mcycle = vsoc_cycles - reset_cycles /\ vsoc.minstret = instrets

\* Why a test that succeeds is over.
Ended == phase = "over" /\ is_test_success /\ ~tb.is_random => AllStopped \/ Astray

asked == IF tb.max_tests = 0 THEN 1 ELSE tb.max_tests

MoreAsked == phase # "done" /\ tb.is_random => is_tests_success /\ tests_passed < asked

IInv ==
  /\ TypeOK /\ Running /\ VcpuFails /\ NotStopped /\ VsocFound /\ Ended /\ MoreAsked
  /\ InStep /\ LateNeverPasses /\ AsManyAsAsked

LEMMA InitIInv == Init => IInv
<1> SUFFICES ASSUME Init PROVE IInv
  OBVIOUS
<1>1. TypeOK
  BY DEF Init, TypeOK, VsocState, VcpuState, GoldState
<1>2. tb.max_tests \in Nat
  BY HarnessAssumption DEF Init, Config
<1>3. MoreAsked
  BY <1>2 DEF Init, MoreAsked, asked
<1> QED  BY <1>1, <1>3 DEF Init, IInv, Turn, Running, VcpuFails, NotStopped, VsocFound, Ended,
            InStep, LateNeverPasses, AsManyAsAsked

-----------------------------------------------------------------------------
(* One lemma per action.                                                   *)

LEMMA StartIInv == IInv /\ StartTest => IInv'
<1> SUFFICES ASSUME IInv, StartTest PROVE IInv'
  OBVIOUS
<1>1. TypeOK'
  BY TypeStep DEF IInv, Next
<1>2. /\ phase = "start" /\ phase' = "top" /\ instrets' = 0 /\ UNCHANGED <<tb, testVars>>
      /\ ~vsoc'.ebreak
  BY DEF StartTest
<1>3. MoreAsked'
  BY <1>2 DEF IInv, MoreAsked, asked, testVars
<1> QED  BY <1>1, <1>2, <1>3 DEF IInv, Turn, Running, VcpuFails, NotStopped, VsocFound, Ended, InStep,
            LateNeverPasses, AsManyAsAsked

LEMMA TopIInv == IInv /\ Top => IInv'
<1> SUFFICES ASSUME IInv, Top PROVE IInv'
  OBVIOUS
<1>1. TypeOK'
  BY TypeStep DEF IInv, Next
<1>2. /\ phase = "top" /\ phase' \in Turn /\ instrets' = instrets + 1
      /\ phase' = IF tb.is_vsoc THEN "vsoc" ELSE IF tb.is_vcpu THEN "vcpu"
                  ELSE IF tb.is_gold THEN "gold" ELSE "judge"
      /\ UNCHANGED <<tb, vsoc, is_test_success, testVars>>
  BY DEF Top, AfterVsoc, AfterVcpu, Turn
<1>3. MoreAsked'
  BY <1>2 DEF IInv, MoreAsked, asked, testVars, Turn
<1>4. Running'
  BY <1>2 DEF Running, IInv, TypeOK
<1>5. VcpuFails' /\ NotStopped' /\ VsocFound'
  BY <1>2 DEF IInv, VcpuFails, NotStopped, VsocFound, Turn
<1> QED  BY <1>1, <1>2, <1>3, <1>4, <1>5 DEF IInv, Turn, Ended, InStep, LateNeverPasses, AsManyAsAsked

LEMMA VsocIInv == IInv /\ VsocCycle => IInv'
<1> SUFFICES ASSUME IInv, VsocCycle PROVE IInv'
  OBVIOUS
<1>1. TypeOK'
  BY TypeStep DEF IInv, Next
<1>2. /\ phase = "vsoc" /\ UNCHANGED <<tb, instrets, testVars>>
      /\ phase' = IF VsocBreak THEN (IF tb.is_vcpu THEN "vcpu" ELSE IF tb.is_gold THEN "gold" ELSE "judge")
                  ELSE "vsoc"
      /\ VsocBreak => (is_test_success' <=> is_test_success /\ VsocReturned)
  BY Zenon DEF VsocCycle, AfterVsoc, AfterVcpu
<1>3. MoreAsked'
  BY <1>2 DEF IInv, MoreAsked, asked, testVars
<1>4. Running'
  BY <1>2 DEF IInv, Running, Turn
<1>5. VcpuFails'
  BY <1>2 DEF VcpuFails
<1>6. NotStopped'
  BY <1>2 DEF NotStopped, VsocBreak
<1>7. VsocFound'
  BY <1>2 DEF VsocFound, VsocReturned, VsocCounts
<1> QED  BY <1>1, <1>2, <1>3, <1>4, <1>5, <1>6, <1>7 DEF IInv, Ended, InStep, LateNeverPasses,
            AsManyAsAsked

LEMMA VcpuIInv == IInv /\ VcpuTick => IInv'
<1> SUFFICES ASSUME IInv, VcpuTick PROVE IInv'
  OBVIOUS
<1>1. TypeOK'
  BY TypeStep DEF IInv, Next
<1>2. /\ phase = "vcpu" /\ UNCHANGED <<tb, instrets, testVars>>
      /\ phase' = IF vcpu_break_code THEN (IF tb.is_gold THEN "gold" ELSE "judge") ELSE "vcpu"
      /\ vcpu_break_code => (is_test_success' <=> is_test_success /\ vcpu_minstret = instrets)
  BY Zenon DEF VcpuTick, AfterVcpu
<1>3. MoreAsked'
  BY <1>2 DEF IInv, MoreAsked, asked, testVars
<1>4. Running' /\ tb.is_vcpu
  BY <1>2 DEF IInv, Running, Turn
<1>5. VcpuFails'
  BY <1>2 DEF VcpuFails, vcpu_minstret, IInv, Running, Turn
<1> QED  BY <1>1, <1>2, <1>3, <1>4, <1>5 DEF IInv, NotStopped, VsocFound, Ended, InStep,
            LateNeverPasses, AsManyAsAsked

LEMMA GoldIInv == IInv /\ GoldEval => IInv'
<1> SUFFICES ASSUME IInv, GoldEval PROVE IInv'
  OBVIOUS
<1>1. TypeOK'
  BY TypeStep DEF IInv, Next
<1>2. /\ phase = "gold" /\ UNCHANGED <<tb, vsoc, vsoc_cycles, instrets, testVars>>
      /\ phase' = IF gcpu'.is_not_mapped /\ tb.is_random THEN "over" ELSE "judge"
      /\ is_test_success' => is_test_success
  BY Zenon DEF GoldEval, cycleVars
<1>3. MoreAsked'
  BY <1>2 DEF IInv, MoreAsked, asked, testVars
<1>4. Running' /\ tb.is_gold
  BY <1>2 DEF IInv, Running, Turn
<1>5. phase' = "over" => Abandoned' /\ tb'.is_random
  BY <1>2, <1>4 DEF Abandoned
<1>6. VcpuFails' /\ VsocFound'
  BY <1>2 DEF IInv, VcpuFails, VsocFound
<1> QED  BY <1>1, <1>2, <1>3, <1>4, <1>5, <1>6 DEF IInv, NotStopped, Ended, InStep,
            LateNeverPasses, AsManyAsAsked

LEMMA JudgeIInv == IInv /\ Judge => IInv'
<1> SUFFICES ASSUME IInv, Judge PROVE IInv'
  OBVIOUS
<1>1. TypeOK'
  BY TypeStep DEF IInv, Next
<1>2. /\ phase = "judge" /\ UNCHANGED <<tb, vsoc, vcpu, gcpu, vsoc_cycles, vcpu_ticks, instrets, testVars>>
      /\ is_test_success' <=> is_test_success /\ Compared /\ ~TimedOut
      /\ phase' = IF \/ ~is_test_success' \/ AllStopped \/ Astray
                     \/ (tb.is_random /\ instrets > n_insts)
                  THEN "over" ELSE "top"
  BY Zenon DEF Judge, cycleVars
<1>3. MoreAsked'
  BY <1>2 DEF IInv, MoreAsked, asked, testVars
<1>4. is_test_success' => ~tb.is_vcpu
  BY <1>2 DEF IInv, VcpuFails
<1>5. Running' /\ VcpuFails'
  BY <1>2, <1>4 DEF Running, VcpuFails, Turn
<1>6. VsocFound'
  BY <1>2 DEF IInv, VsocFound
<1>7. Ended'
  BY <1>2 DEF Ended, AllStopped, Astray
<1>8. NotStopped'
  <2> SUFFICES ASSUME phase' = "top", tb.is_vsoc, vsoc.ebreak PROVE FALSE
    BY <1>2 DEF NotStopped
  <2>1. Compared /\ ~tb.is_vcpu /\ ~AllStopped
    BY <1>2, <1>4
  <2> QED  BY <2>1 DEF Compared, compare_vsoc_gold, AllStopped
<1>9. InStep'
  <2> SUFFICES ASSUME is_test_success'
               PROVE  /\ tb.is_vsoc /\ tb.is_gold =>
                           Same(vsoc.arch, gcpu.arch) /\ vsoc.ebreak = gcpu.ebreak
                      /\ tb.is_vsoc /\ ~vsoc.ebreak =>
                           vsoc.minstret = instrets /\ vsoc.mcycle = vsoc_cycles - reset_cycles
    BY <1>2 DEF InStep, Same
  <2>1. tb.is_vsoc /\ tb.is_gold => Same(vsoc.arch, gcpu.arch) /\ vsoc.ebreak = gcpu.ebreak
    BY <1>2 DEF Compared, compare_vsoc_gold
  <2>2. tb.is_vsoc /\ ~vsoc.ebreak =>
          vsoc.minstret = instrets /\ vsoc.mcycle = vsoc_cycles - reset_cycles
    BY <1>2, <1>4 DEF IInv, VsocFound
  <2> QED  BY <2>1, <2>2
<1>10. LateNeverPasses'
  <2>1. vsoc_cycles \in Nat /\ vcpu_cycles \in Nat /\ tb.max_cycles \in Nat
    BY HarnessAssumption DEF IInv, TypeOK, vcpu_cycles, Config
  <2>2. is_test_success' /\ tb.max_cycles # 0 =>
          vsoc_cycles < tb.max_cycles /\ vcpu_cycles < tb.max_cycles
    BY <1>2, <2>1 DEF TimedOut
  <2> QED  BY <1>2, <2>2 DEF LateNeverPasses, vcpu_cycles
<1> QED  BY <1>1, <1>2, <1>3, <1>5, <1>6, <1>7, <1>8, <1>9, <1>10 DEF IInv, AsManyAsAsked

LEMMA EndIInv == IInv /\ EndTest => IInv'
<1> SUFFICES ASSUME IInv, EndTest PROVE IInv'
  OBVIOUS
<1>1. TypeOK'
  BY TypeStep DEF IInv, Next
<1>2. /\ phase = "over" /\ UNCHANGED tb /\ phase' \in {"start", "done"}
      /\ phase' = IF tb.is_random /\ is_tests_success' /\ tests_passed' < tb.max_tests
                  THEN "start" ELSE "done"
      /\ is_tests_success' => is_tests_success
      /\ tests_passed' = IF is_tests_success' THEN tests_passed + 1 ELSE tests_passed
  BY DEF EndTest, Passed, Another
<1>3. tests_passed \in Nat /\ tb.max_tests \in Nat
  BY HarnessAssumption DEF IInv, TypeOK, Config
<1>4. tb.is_random => tests_passed < asked
  BY <1>2 DEF IInv, MoreAsked
<1>5. MoreAsked' /\ AsManyAsAsked'
  BY <1>2, <1>3, <1>4 DEF MoreAsked, AsManyAsAsked, asked
<1> QED  BY <1>1, <1>2, <1>5 DEF IInv, Turn, Running, VcpuFails, NotStopped, VsocFound, Ended, InStep,
            LateNeverPasses

LEMMA StutterIInv == IInv /\ UNCHANGED vars => IInv'
<1> SUFFICES ASSUME IInv, UNCHANGED vars PROVE IInv'
  OBVIOUS
<1>1. TypeOK'
  BY TypeStep DEF IInv
<1>2. Running' /\ VcpuFails' /\ NotStopped' /\ VsocFound' /\ MoreAsked'
  BY DEF vars, cycleVars, testVars, IInv, Running, VcpuFails, NotStopped, VsocFound, MoreAsked,
     asked, Abandoned
<1>3. Ended'
  BY DEF vars, cycleVars, testVars, IInv, Ended, AllStopped, Astray
<1>4. InStep' /\ LateNeverPasses' /\ AsManyAsAsked'
  BY DEF vars, cycleVars, testVars, IInv, InStep, LateNeverPasses, AsManyAsAsked, Abandoned, Same,
     vcpu_cycles
<1> QED  BY <1>1, <1>2, <1>3, <1>4 DEF IInv

LEMMA Invariance == Spec => []IInv
<1>1. IInv /\ [Next]_vars => IInv'
  BY StartIInv, TopIInv, VsocIInv, VcpuIInv, GoldIInv, JudgeIInv, EndIInv, StutterIInv DEF Next
<1> QED  BY <1>1, InitIInv, PTL DEF Spec

-----------------------------------------------------------------------------
(***************************************************************************)
(* Whatever the CPU in the SoC executes, however long it takes and wherever*)
(* its resets leave it, a turn or a test passes only when it has kept step *)
(* with the golden model and with the bench's own counts                   *)
(* (test_instructions, soc_main.cpp:950).                                  *)
(***************************************************************************)
THEOREM PassesInStep == Spec => []InStep
BY Invariance, PTL DEF IInv

(***************************************************************************)
(* With check, a program that has executed its ebreak passes only with     *)
(* a0 = 0, wherever in the program the ebreak is.                          *)
(***************************************************************************)
THEOREM ChecksEbreak == Spec => []EbreakChecked
<1>1. IInv => EbreakChecked
  <2> SUFFICES ASSUME IInv, phase = "over", is_test_success, tb.is_check, tb.is_vsoc, ~tb.is_random,
                      vsoc.is_ebreak \/ vsoc.ebreak, vsoc.arch.pc <= n_insts
               PROVE  vsoc.arch.a0 = 0
    BY DEF EbreakChecked
  <2>1. ~tb.is_vcpu /\ ~Abandoned
    BY DEF IInv, VcpuFails, Abandoned
  <2>2. vsoc.ebreak
    <3>1. CASE AllStopped
      BY <3>1 DEF AllStopped
    <3>2. CASE Astray
      <4>1. tb.is_gold => gcpu.arch.pc = vsoc.arch.pc
        BY <2>1 DEF IInv, InStep, Same
      <4> QED  BY <2>1, <3>2, <4>1 DEF Astray, is_valid_pc_address
    <3> QED  BY <3>1, <3>2 DEF IInv, Ended
  <2> QED  BY <2>1, <2>2 DEF IInv, VsocFound
<1> QED  BY <1>1, Invariance, PTL

(***************************************************************************)
(* No test passes that has taken as many cycles as it may, for any limit.  *)
(***************************************************************************)
THEOREM LateFails == Spec => []LateNeverPasses
BY Invariance, PTL DEF IInv

(***************************************************************************)
(* test_random passes exactly as many tests as it was asked for, for any   *)
(* number, or stops at the first that fails (soc_main.cpp:1142).           *)
(***************************************************************************)
THEOREM RunsAsAsked == Spec => []AsManyAsAsked
BY Invariance, PTL DEF IInv
=============================================================================
