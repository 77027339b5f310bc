--------------------------- MODULE MC_TestHarness ----------------------------
(***************************************************************************)
(* Programs of two words (and what comes after them), at most one cycle   *)
(* more than an instruction needs, a limit that an instruction can meet    *)
(* before, at and after its end, and random tests two at a time or, with   *)
(* none asked for, one.                                                    *)
(***************************************************************************)
EXTENDS TestHarness

\* Every choice of options without the vcpu, and random tests with it that
\* have a limit.
MC_Configs ==
  {c \in [is_vsoc : BOOLEAN, is_vcpu : BOOLEAN, is_gold : BOOLEAN, is_random : BOOLEAN,
          is_check : BOOLEAN, is_memcmp : BOOLEAN, max_cycles : {0, 3, 5}, max_tests : {0, 2}] :
     /\ c.is_vsoc \/ c.is_gold \/ c.is_vcpu
     /\ ~c.is_random => c.max_tests = 0
     /\ IF c.is_vcpu
        THEN c.is_random /\ ~c.is_check /\ ~c.is_memcmp /\ c.max_tests = 0 /\ c.max_cycles = 3
        ELSE c.max_cycles # 3}

\* vcpu gold random, and the same with vsoc, without a limit.
MC_VcpuConfigs ==
  [is_vsoc : BOOLEAN, is_vcpu : {TRUE}, is_gold : BOOLEAN, is_random : {TRUE},
   is_check : {FALSE}, is_memcmp : {FALSE}, max_cycles : {0}, max_tests : {0}]
=============================================================================
