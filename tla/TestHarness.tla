----------------------------- MODULE TestHarness -----------------------------
(***************************************************************************)
(* The test bench as a judge (soc_main.cpp): test_instructions, its three  *)
(* comparisons, the loops that run a CPU for an instruction, and           *)
(* test_random around them, for every choice of vsoc, vcpu and gold.       *)
(* VsocGold has the CPU that is right and asks whether the bench passes    *)
(* it; here the CPUs and the programs do anything, instruction by          *)
(* instruction, and the question is what the bench notices.                *)
(***************************************************************************)
EXTENDS Integers

CONSTANTS
  Configs,       \* what main starts
  n_insts,       \* words in the program
  reset_cycles,  \* 10 in the code
  MaxWait,       \* bound: cycles without an instruction
  MaxInstrets    \* bound: instructions of a program that no other limit ends

Config ==
  [is_vsoc : BOOLEAN, is_vcpu : BOOLEAN, is_gold : BOOLEAN, is_random : BOOLEAN,
   is_check : BOOLEAN, is_memcmp : BOOLEAN, max_cycles : Nat, max_tests : Nat]

ASSUME HarnessAssumption ==
  /\ \A c \in Configs : c \in Config /\ (c.is_vsoc \/ c.is_vcpu \/ c.is_gold)
  /\ {n_insts, reset_cycles, MaxWait, MaxInstrets} \subseteq Nat

VARIABLES
  tb,               \* the configuration
  phase,            \* "start", "top", "vsoc", "vcpu", "gold", "judge", "over", "done"
  vsoc, vcpu, gcpu,
  vsoc_cycles, vcpu_ticks,
  waited,           \* cycles since the instruction was asked for
  minstret_start, instrets,
  is_test_success,
  is_tests_success, tests_passed   \* test_random's

cycleVars == <<vsoc_cycles, vcpu_ticks, waited>>
testVars  == <<is_tests_success, tests_passed>>
vars == <<tb, phase, vsoc, vcpu, gcpu, cycleVars, minstret_start, instrets, is_test_success, testVars>>

(***************************************************************************)
(* What a comparison can tell apart: the pc, as a word of the program, the *)
(* registers, by one that can be zero (a0), and the memory.  In addition   *)
(* the CPU in the SoC has the counts that exu_perf_measure keeps, and an   *)
(* ebreak of which it has not yet told (exu.sv:174: a cycle later).  Those *)
(* of the vcpu are never changed, whichever CPU it is that calls.          *)
(***************************************************************************)
Arch == [pc : 0 .. n_insts + 1, a0 : {0, 1}, mem : {0, 1}]

vcpu_minstret == 0
vcpu_ebreak   == FALSE

vcpu_cycles == vcpu_ticks \div 2

ResetArch(a) == [a EXCEPT !.pc = 0, !.a0 = 0]

\* An instruction other than ebreak, which may store to the memory; the last
\* one that is to be executed leads out of the program.  (The golden model
\* alone has no cycles, and max no effect.)
IsLast == (tb.max_cycles = 0 \/ ~(tb.is_vsoc \/ tb.is_vcpu)) /\ instrets >= MaxInstrets
Outcomes == {a \in Arch : IsLast => a.pc > n_insts}

AfterEbreak(a) == [a EXCEPT !.pc = IF @ <= n_insts THEN @ + 1 ELSE @]

\* Slip: the address after the last instruction is out.
is_valid_pc_address_Lt(pc) == pc < n_insts

is_valid_pc_address(pc) == pc <= n_insts

-----------------------------------------------------------------------------
(* test_instructions: the resets, and the top of the loop.  No memory is   *)
(* cleared.                                                                *)

StartTest ==
  /\ phase = "start"
  /\ vsoc' = [arch |-> IF tb.is_vsoc THEN ResetArch(vsoc.arch) ELSE vsoc.arch,
              ebreak |-> FALSE, minstret |-> 0, mcycle |-> 0, is_ebreak |-> FALSE]
  /\ vcpu' = IF tb.is_vcpu THEN [arch |-> ResetArch(vcpu.arch), is_mem_write |-> FALSE] ELSE vcpu
  /\ gcpu' = IF tb.is_gold THEN [arch |-> ResetArch(gcpu.arch), ebreak |-> FALSE,
                                 is_not_mapped |-> FALSE, is_mem_write |-> FALSE]
             ELSE gcpu
  /\ vsoc_cycles' = 0 /\ vcpu_ticks' = 1 /\ instrets' = 0 /\ is_test_success' = TRUE
  /\ phase' = "top"
  /\ UNCHANGED <<tb, waited, minstret_start, testVars>>

AfterVcpu == IF tb.is_gold THEN "gold" ELSE "judge"
AfterVsoc == IF tb.is_vcpu THEN "vcpu" ELSE AfterVcpu

Top ==
  /\ phase = "top"
  /\ instrets' = instrets + 1
  /\ minstret_start' = vsoc.minstret /\ waited' = 0
  /\ phase' = IF tb.is_vsoc THEN "vsoc" ELSE AfterVsoc
  /\ UNCHANGED <<tb, vsoc, vcpu, gcpu, vsoc_cycles, vcpu_ticks, is_test_success, testVars>>

-----------------------------------------------------------------------------
(* vsoc_fetch_exec, by cycles of the CPU.  The SoC holds the CPU in reset  *)
(* for as many cycles more as the bench has held the SoC.                  *)

InReset == vsoc_cycles < reset_cycles

Idle ==
  /\ waited < MaxWait \/ InReset \/ vsoc.is_ebreak
  /\ vsoc' = [vsoc EXCEPT !.mcycle = IF InReset THEN 0 ELSE @ + 1,
                          !.ebreak = @ \/ vsoc.is_ebreak, !.is_ebreak = FALSE]

Retire ==
  /\ ~InReset /\ ~vsoc.is_ebreak
  /\ \E is_ebreak \in BOOLEAN :
     \E a \in IF is_ebreak THEN {AfterEbreak(vsoc.arch)} ELSE Outcomes :
       vsoc' = [vsoc EXCEPT !.mcycle = @ + 1, !.minstret = @ + 1, !.arch = a,
                            !.is_ebreak = is_ebreak]

VsocCounts ==
  vsoc'.mcycle = vsoc_cycles' - reset_cycles /\ vsoc'.minstret = instrets

VsocReturned ==
  IF vsoc'.ebreak THEN tb.is_check => vsoc'.arch.a0 = 0 ELSE VsocCounts

VsocBreak ==
  \/ tb.max_cycles # 0 /\ vsoc_cycles' >= tb.max_cycles
  \/ vsoc'.ebreak
  \/ vsoc'.minstret # minstret_start

VsocCycle ==
  /\ phase = "vsoc"
  /\ Idle \/ Retire
  /\ vsoc_cycles' = vsoc_cycles + 1
  /\ waited' = IF waited < MaxWait THEN waited + 1 ELSE waited
  /\ IF VsocBreak
     THEN phase' = AfterVsoc /\ is_test_success' = (is_test_success /\ VsocReturned)
     ELSE UNCHANGED <<phase, is_test_success>>
  /\ UNCHANGED <<tb, vcpu, gcpu, vcpu_ticks, minstret_start, instrets, testVars>>

-----------------------------------------------------------------------------
(* vcpu_fetch_exec, by half cycles.  An instruction of the vcpu is counted *)
(* into the counts of the CPU in the SoC; the time is not counted when     *)
(* there is no limit to it, nor what is counted there past MaxInstrets.    *)

VcpuRetire ==
  \E is_ebreak, is_mem_write \in BOOLEAN :
  \E a \in IF is_ebreak THEN {AfterEbreak(vcpu.arch)} ELSE Arch :
    /\ a.mem # vcpu.arch.mem => is_mem_write
    /\ vcpu' = [arch |-> a, is_mem_write |-> is_mem_write]
    /\ vsoc' = [vsoc EXCEPT !.minstret = IF @ <= MaxInstrets THEN @ + 1 ELSE @,
                            !.ebreak = @ \/ is_ebreak]

vcpu_break_code ==
  \/ tb.max_cycles # 0 /\ vcpu_cycles' >= tb.max_cycles
  \/ vcpu_ebreak
  \/ vcpu_minstret # 0   \* minstret_start

VcpuTick ==
  /\ phase = "vcpu"
  /\ VcpuRetire \/ UNCHANGED <<vsoc, vcpu>>
  /\ vcpu_ticks' = IF tb.max_cycles = 0 THEN vcpu_ticks ELSE vcpu_ticks + 1
  /\ IF vcpu_break_code
     THEN phase' = AfterVcpu
          /\ is_test_success' = (is_test_success /\ vcpu_minstret = instrets)
     ELSE UNCHANGED <<phase, is_test_success>>
  /\ UNCHANGED <<tb, gcpu, vsoc_cycles, waited, minstret_start, instrets, testVars>>

-----------------------------------------------------------------------------
\* cpu_eval; in a random test what the golden model does not know ends it.
GoldEval ==
  /\ phase = "gold"
  /\ \E is_ebreak, is_not_mapped, is_mem_write \in BOOLEAN :
     \E a \in IF is_ebreak THEN {AfterEbreak(gcpu.arch)} ELSE Outcomes :
       /\ is_ebreak => is_not_mapped           \* gcpu.cpp:402, 417
       /\ a.mem # gcpu.arch.mem => is_mem_write
       /\ gcpu' = [arch |-> a, ebreak |-> is_ebreak, is_mem_write |-> is_mem_write,
                   is_not_mapped |-> gcpu.is_not_mapped \/ is_not_mapped]
  /\ is_test_success' = (is_test_success /\ (gcpu'.ebreak /\ tb.is_check => gcpu'.arch.a0 = 0))
  /\ phase' = IF gcpu'.is_not_mapped /\ tb.is_random THEN "over" ELSE "judge"
  /\ UNCHANGED <<tb, vsoc, vcpu, cycleVars, minstret_start, instrets, testVars>>

Same(a, b) == a.pc = b.pc /\ a.a0 = b.a0 /\ (tb.is_memcmp => a.mem = b.mem)

\* Slip: nothing is compared once the CPU has stopped.
compare_vsoc_gold_Stopped ==
  vsoc.ebreak \/ Same(vsoc.arch, gcpu.arch)

compare_vsoc_gold ==
  vsoc.ebreak = gcpu.ebreak /\ Same(vsoc.arch, gcpu.arch)

\* Without memcmp the words last written are compared.
compare_vcpu_gold ==
  /\ vcpu_ebreak = gcpu.ebreak /\ Same(vcpu.arch, gcpu.arch)
  /\ gcpu.is_mem_write \/ vcpu.is_mem_write => vcpu.arch.mem = gcpu.arch.mem

compare_vcpu_vsoc ==
  vcpu_ebreak = vsoc.ebreak /\ Same(vcpu.arch, vsoc.arch)

Compared ==
  /\ tb.is_gold /\ tb.is_vsoc => compare_vsoc_gold
  /\ tb.is_gold /\ tb.is_vcpu => compare_vcpu_gold
  /\ ~tb.is_gold /\ tb.is_vcpu /\ tb.is_vsoc => compare_vcpu_vsoc

\* Slip: the cycle of the limit itself is still allowed.
TimedOut_After == tb.max_cycles # 0 /\ (vsoc_cycles > tb.max_cycles \/ vcpu_cycles > tb.max_cycles)

TimedOut == tb.max_cycles # 0 /\ (vsoc_cycles >= tb.max_cycles \/ vcpu_cycles >= tb.max_cycles)

AllStopped ==
  /\ tb.is_vsoc => vsoc.ebreak
  /\ tb.is_vcpu => vcpu_ebreak
  /\ tb.is_gold => gcpu.ebreak

Astray ==
  \/ tb.is_gold /\ ~is_valid_pc_address(gcpu.arch.pc)
  \/ tb.is_vsoc /\ ~is_valid_pc_address(vsoc.arch.pc)
  \/ tb.is_vcpu /\ ~is_valid_pc_address(vcpu.arch.pc)

\* The rest of a turn of the loop.
Judge ==
  /\ phase = "judge"
  /\ is_test_success' = (is_test_success /\ Compared /\ ~TimedOut)
  /\ phase' = IF \/ ~is_test_success' \/ AllStopped \/ Astray
                 \/ (tb.is_random /\ instrets > n_insts)
              THEN "over" ELSE "top"
  /\ UNCHANGED <<tb, vsoc, vcpu, gcpu, cycleVars, minstret_start, instrets, testVars>>

\* Slip: one test more is run.
Another_Past == is_tests_success' /\ tests_passed' <= tb.max_tests

Another == is_tests_success' /\ tests_passed' < tb.max_tests

\* Slip: no test is counted.
Passed_Missing == tests_passed' = tests_passed

Passed == tests_passed' = IF is_tests_success' THEN tests_passed + 1 ELSE tests_passed

\* test_random's loop, and test_bin's return.
EndTest ==
  /\ phase = "over"
  /\ is_tests_success' = (is_tests_success /\ is_test_success)
  /\ Passed
  /\ phase' = IF tb.is_random /\ Another THEN "start" ELSE "done"
  /\ UNCHANGED <<tb, vsoc, vcpu, gcpu, cycleVars, minstret_start, instrets, is_test_success>>

\* main has made the test bench.
Init ==
  /\ tb \in Configs /\ phase = "start"
  /\ \E a \in Arch :
       /\ a = ResetArch(a) /\ a.mem = 0
       /\ vsoc = [arch |-> a, ebreak |-> FALSE, minstret |-> 0, mcycle |-> 0, is_ebreak |-> FALSE]
       /\ vcpu = [arch |-> a, is_mem_write |-> FALSE]
       /\ gcpu = [arch |-> a, ebreak |-> FALSE, is_not_mapped |-> FALSE, is_mem_write |-> FALSE]
  /\ vsoc_cycles = 0 /\ vcpu_ticks = 0 /\ waited = 0 /\ minstret_start = 0 /\ instrets = 0
  /\ is_test_success = TRUE /\ is_tests_success = TRUE /\ tests_passed = 0

Next == StartTest \/ Top \/ VsocCycle \/ VcpuTick \/ GoldEval \/ Judge \/ EndTest

Spec == Init /\ [][Next]_vars

\* The bench is one thread that runs until it is done.
FairSpec == Spec /\ WF_vars(Next)

-----------------------------------------------------------------------------
(* Properties.                                                             *)

Abandoned == tb.is_random /\ tb.is_gold /\ gcpu.is_not_mapped

(***************************************************************************)
(* A CPU that is wrong does not pass: when the next instruction is asked   *)
(* for, and when a test has ended as passed that was not given up, the CPU *)
(* in the SoC has executed as many instructions as the golden model (or    *)
(* has stopped with it), in the cycles the bench has counted, and the pc   *)
(* and the registers are the golden model's; so is the memory with memcmp  *)
(* (test_instructions, compare_vsoc_gold).                                 *)
(***************************************************************************)
InStep ==
  /\ \/ phase = "top" /\ instrets > 0
     \/ phase = "over" /\ ~Abandoned
  /\ is_test_success
  =>
    /\ tb.is_vsoc /\ tb.is_gold =>
         /\ Same(vsoc.arch, gcpu.arch) /\ vsoc.ebreak = gcpu.ebreak
    /\ tb.is_vsoc /\ ~vsoc.ebreak =>
         /\ vsoc.minstret = instrets
         /\ vsoc.mcycle = vsoc_cycles - reset_cycles

(***************************************************************************)
(* "[check] : on ebreak check a0 == 0, otherwise test failed" (the usage): *)
(* a program from a file whose ebreak the CPU in the SoC has executed, the *)
(* last word of the file included, passes only with a0 = 0.  The bench     *)
(* hears of the ebreak a cycle after it has counted it, when the pc is     *)
(* already past it (is_valid_pc_address, test_instructions).               *)
(***************************************************************************)
EbreakChecked ==
  /\ phase = "over" /\ is_test_success /\ tb.is_check /\ tb.is_vsoc /\ ~tb.is_random
  /\ vsoc.is_ebreak \/ vsoc.ebreak
  /\ vsoc.arch.pc <= n_insts
  => vsoc.arch.a0 = 0

\* A test that has taken max_cycles does not pass, unless the golden model
\* gave it up in that turn (vsoc_fetch_exec, test_instructions).
LateNeverPasses ==
  phase = "over" /\ is_test_success /\ tb.max_cycles # 0 /\ ~Abandoned =>
    /\ tb.is_vsoc => vsoc_cycles < tb.max_cycles
    /\ tb.is_vcpu => vcpu_cycles < tb.max_cycles

\* The bench comes to an end: a random test after n_insts instructions, any
\* test of a CPU after max_cycles, a program when it stops or leaves the code;
\* the vcpu at max_cycles only.
Terminates == ~tb.is_vcpu \/ tb.max_cycles # 0 => <>(phase = "done")

\* "./random_test.sh vcpu" (random_test.sh:6) runs the vcpu beside the golden
\* model: an instruction of the vcpu is noticed, and the bench goes on.
VcpuFetchReturns == phase = "vcpu" ~> phase # "vcpu"

\* "random <tests> <n_insts> ...: <tests> times random tests"
\* (soc_main.cpp:1207), but one when none is asked for; a test that fails is
\* the last and is not counted among those that passed.
AsManyAsAsked ==
  LET asked == IF tb.max_tests = 0 THEN 1 ELSE tb.max_tests IN
  phase = "done" /\ tb.is_random =>
    IF is_tests_success THEN tests_passed = asked ELSE tests_passed < asked
=============================================================================
