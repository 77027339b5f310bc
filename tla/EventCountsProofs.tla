-------------------------- MODULE EventCountsProofs --------------------------
(***************************************************************************)
(* Theorems about EventCounts: the counts a measurement is made from add   *)
(* up, for every program, arithmetic and memory and however long the SoC   *)
(* takes to answer.                                                        *)
(***************************************************************************)
EXTENDS EventCounts, VsocGoldProofs

\* The counted steps are steps of the bench.
LEMMA CountedSteps == CountSpec => Spec
<1>1. CountInit => Init
  BY DEF CountInit
<1>2. [CountNext]_<<vars, counts>> => [Next]_vars
  BY Zenon DEF CountNext, Next
<1> QED
  BY <1>1, <1>2, PTL DEF CountSpec, Spec

\* What an edge makes of the EXU's state and of minstret.
LEMMA EdgeCounts ==
  ASSUME TypeOK, NEW i \in BOOLEAN, NEW l \in BOOLEAN, Cycle(i, l)
  PROVE  /\ exu_state' \in {"START", "STALL_IDU", "STALL_LSU", "EXECUTE"}
         /\ exu_state' = "START" <=> exu_state = "RESET"
         /\ minstret' = minstret + Bit(exu_state' = "EXECUTE", 1)
         /\ phase = "exec" /\ phase' \in {"exec", "eval"}
<1>1. Edge(i, l) /\ phase = "exec" /\ phase' \in {"exec", "eval"}
  BY Zenon DEF Cycle
<1>2. \/ exu_state = "RESET" /\ exu_state' = "START" /\ minstret' = minstret
      \/ exu_state \in {"START", "STALL_IDU", "EXECUTE"} /\ exu_state' = "STALL_IDU"
           /\ minstret' = minstret
      \/ (Handed \/ exu_state = "STALL_LSU") /\ exu_state' = "STALL_LSU" /\ minstret' = minstret
      \/ Retires(l) /\ exu_state' = "EXECUTE" /\ minstret' = minstret + 1
  BY <1>1, Zenon DEF Edge, Exu, ExuStart, ExuNoInst, ExuStall, ExuExecute
<1> QED
  BY <1>1, <1>2 DEF TypeOK, Retires, Handed, Bit

-----------------------------------------------------------------------------
(* Every cycle and every instruction is counted once.                      *)

CountType == counts \in Nat \X Nat \X Nat \X Nat \X Nat \X Nat \X Nat \X Nat \X Nat \X Nat

\* Until the first edge after a reset no cycle has been counted.
FirstCycle == phase # "over" => (mcycle = 0 <=> exu_state = "RESET")

CountInv ==
  /\ TypeOK /\ CountType
  /\ FirstCycle
  /\ CyclesAccounted
  /\ InstructionsClassified
  /\ mbranch_taken <= mbranch_seen
  /\ mcycle <= MaxCycles

LEMMA CountTypes ==
  CountType <=> /\ mcycle \in Nat /\ mifu_wait \in Nat /\ mlsu_wait \in Nat
                /\ mload_seen \in Nat /\ mstore_seen \in Nat /\ msystem_seen \in Nat
                /\ mcalc_seen \in Nat /\ mjump_seen \in Nat /\ mbranch_seen \in Nat
                /\ mbranch_taken \in Nat
BY DEF CountType, counts

\* The six kinds are disjoint, and there is no other.
LEMMA OneKind ==
  ASSUME idu_inst \in Inst
  PROVE  /\ Bit(d_type.hi = INST_LOAD, 1) + Bit(d_type.hi = INST_STORE, 1)
              + Bit(d_type.hi = INST_SYSTEM, 1) + Bit(is_calc, 1) + Bit(is_jump, 1)
              + Bit(is_branch, 1) = 1
         /\ is_branch_true => is_branch
<1>1. idu_inst.opcode \in Opcode /\ idu_inst.funct3 \in 0 .. 7
  BY InstFields
<1>2. \/ \E lo \in 0 .. 7 : d_type = Type(INST_STORE, lo)
      \/ \E lo \in 0 .. 7 : d_type = Type(INST_LOAD, lo)
      \/ \E lo \in {0, 1, 4, 5} : d_type = Type(5, lo)
      \/ d_type \in {INST_IMM, INST_REG, INST_UPP, INST_AUIPC, Type(0, 0)}
      \/ d_type \in {INST_JUMP, INST_JUMPR}
      \/ d_type = INST_BRANCH
  BY <1>1, TypeOf, Zenon DEF Opcode, d_type
<1> USE DEF Type, Bit, INST_LOAD, INST_STORE, INST_SYSTEM, is_calc, is_jump, is_branch,
            INST_BRANCH, INST_JUMP, INST_JUMPR, INST_IMM, INST_REG, INST_UPP, INST_AUIPC
<1>3. Bit(d_type.hi = INST_LOAD, 1) + Bit(d_type.hi = INST_STORE, 1)
        + Bit(d_type.hi = INST_SYSTEM, 1) + Bit(is_calc, 1) + Bit(is_jump, 1)
        + Bit(is_branch, 1) = 1
  BY <1>2
<1>4. is_branch_true => is_branch
  BY Zenon DEF is_branch_true
<1> QED
  BY <1>3, <1>4

LEMMA CountInvInit == CountInit => CountInv
<1> SUFFICES ASSUME CountInit PROVE CountInv
  OBVIOUS
<1>1. /\ Init /\ minstret = 0 /\ phase = "over"
      /\ mcycle = 0 /\ mifu_wait = 0 /\ mlsu_wait = 0
      /\ mload_seen = 0 /\ mstore_seen = 0 /\ msystem_seen = 0
      /\ mcalc_seen = 0 /\ mjump_seen = 0 /\ mbranch_seen = 0 /\ mbranch_taken = 0
  BY Zenon DEF CountInit, Init
<1>2. TypeOK
  BY <1>1, TypeInit
<1>3. CountType
  BY <1>1, CountTypes
<1> QED
  BY <1>1, <1>2, <1>3, EventCountsAssumption
  DEF CountInv, FirstCycle, CyclesAccounted, Started, Bit, InstructionsClassified

\* An edge counts its cycle, and the instruction that retires at it, if any.
LEMMA EdgeCounted ==
  ASSUME CountInv, mcycle < MaxCycles, Count, NEW i \in BOOLEAN, NEW l \in BOOLEAN, Cycle(i, l)
  PROVE  /\ CountType' /\ FirstCycle' /\ CyclesAccounted' /\ InstructionsClassified'
         /\ mbranch_taken' <= mbranch_seen' /\ mcycle' <= MaxCycles
<1> DEFINE E == Bit(exu_state' = "EXECUTE", 1)
           C == exu_state' = "EXECUTE"
<1>1. /\ TypeOK /\ CountType /\ FirstCycle /\ CyclesAccounted /\ InstructionsClassified
      /\ mbranch_taken <= mbranch_seen /\ mcycle <= MaxCycles
  BY Zenon DEF CountInv
<1>2. /\ exu_state' \in {"START", "STALL_IDU", "STALL_LSU", "EXECUTE"}
      /\ exu_state' = "START" <=> exu_state = "RESET"
      /\ minstret' = minstret + E
      /\ phase = "exec" /\ phase' \in {"exec", "eval"}
  BY <1>1, EdgeCounts
<1>3. minstret \in Nat /\ idu_inst \in Inst
  BY <1>1 DEF TypeOK
<1>4. \A b : Retired(b) = IF C THEN Bit(b, 1) ELSE 0
  BY Zenon DEF Retired, is_instret, Bit
<1>5. PICK ld, st, sy, ca, ju, br, ta \in {0, 1} :
        /\ ld = Bit(d_type.hi = INST_LOAD, 1) /\ st = Bit(d_type.hi = INST_STORE, 1)
        /\ sy = Bit(d_type.hi = INST_SYSTEM, 1) /\ ca = Bit(is_calc, 1)
        /\ ju = Bit(is_jump, 1) /\ br = Bit(is_branch, 1) /\ ta = Bit(is_branch_true, 1)
  <2>1. \A b : Bit(b, 1) \in {0, 1}
    BY Zenon DEF Bit
  <2> QED
    BY <2>1, Zenon
<1>6. ld + st + sy + ca + ju + br = 1 /\ ta <= br
  BY <1>3, <1>5, OneKind DEF Bit
<1>7. /\ mcycle' = mcycle + 1
      /\ mifu_wait' = mifu_wait + (IF exu_state' = "STALL_IDU" THEN 1 ELSE 0)
      /\ mlsu_wait' = mlsu_wait + (IF exu_state' = "STALL_LSU" THEN 1 ELSE 0)
      /\ mload_seen'   = mload_seen + (IF C THEN ld ELSE 0)
      /\ mstore_seen'  = mstore_seen + (IF C THEN st ELSE 0)
      /\ msystem_seen' = msystem_seen + (IF C THEN sy ELSE 0)
      /\ mcalc_seen'   = mcalc_seen + (IF C THEN ca ELSE 0)
      /\ mjump_seen'   = mjump_seen + (IF C THEN ju ELSE 0)
      /\ mbranch_seen' = mbranch_seen + (IF C THEN br ELSE 0)
      /\ mbranch_taken' = mbranch_taken + (IF C THEN ta ELSE 0)
  BY <1>4, <1>5, Zenon DEF Count, Bit, is_lsu_wait
<1>8. CountType'
  BY <1>1, <1>7 DEF CountType, counts
<1>9. InstructionsClassified' /\ mbranch_taken' <= mbranch_seen'
  BY <1>1, <1>2, <1>3, <1>6, <1>7, CountTypes DEF InstructionsClassified, Bit
<1>10. FirstCycle' /\ CyclesAccounted' /\ mcycle' <= MaxCycles
  BY <1>1, <1>2, <1>3, <1>7, CountTypes, EventCountsAssumption
  DEF FirstCycle, CyclesAccounted, Started, Bit
<1> QED
  BY <1>8, <1>9, <1>10

LEMMA CountInvStep == CountInv /\ [CountNext]_<<vars, counts>> => CountInv'
<1> SUFFICES ASSUME CountInv, [CountNext]_<<vars, counts>> PROVE CountInv'
  OBVIOUS
<1>1. TypeOK'
  <2>1. TypeOK /\ [Next]_vars
    BY Zenon DEF CountInv, CountNext, Next
  <2> QED
    BY <2>1, TypeStep
<1>2. CASE NewTest /\ CountReset
  <2>1. minstret' = 0 /\ exu_state' = "RESET"
    BY <1>2, Zenon DEF NewTest, Reset
  <2>2. CountType'
    BY <1>2 DEF CountReset, CountType, counts
  <2> QED
    BY <1>1, <1>2, <2>1, <2>2, EventCountsAssumption
    DEF CountReset, CountInv, FirstCycle, CyclesAccounted, Started, Bit, InstructionsClassified
<1>3. CASE mcycle < MaxCycles /\ (\E i, l \in BOOLEAN : Cycle(i, l)) /\ Count
  BY <1>1, <1>3, EdgeCounted, Zenon DEF CountInv
<1>4. CASE (Abandon \/ Finish \/ Continue) /\ UNCHANGED counts
  <2>1. minstret' = minstret /\ exu_state' = exu_state /\ phase # "over"
    BY <1>4, Zenon DEF Abandon, Finish, Continue, Compared, coreVars
  <2> QED
    BY <1>1, <1>4, <2>1
    DEF counts, CountInv, CountType, FirstCycle, CyclesAccounted, Started, InstructionsClassified
<1>5. CASE UNCHANGED <<vars, counts>>
  BY <1>1, <1>5
  DEF vars, coreVars, benchVars, counts, CountInv, CountType, FirstCycle, CyclesAccounted,
      Started, InstructionsClassified
<1> QED
  BY <1>2, <1>3, <1>4, <1>5, Zenon DEF CountNext

LEMMA Counting == CountSpec => []CountInv
BY CountInvInit, CountInvStep, PTL DEF CountSpec

(***************************************************************************)
(* No count is larger than the cycles of the longest test: nothing is      *)
(* counted twice at an edge or carried over a reset (soc_main.cpp:394-431).*)
(***************************************************************************)
THEOREM CountsBounded == CountSpec => []CountsOK
<1>1. CountInv => CountsOK
  <2> SUFFICES ASSUME CountInv PROVE CountsOK
    OBVIOUS
  <2>1. minstret \in Nat
    BY DEF CountInv, TypeOK
  <2>2. \A k \in {mcycle, mifu_wait, mlsu_wait, mload_seen, mstore_seen, msystem_seen,
                   mcalc_seen, mjump_seen, mbranch_seen, mbranch_taken} : k \in 0 .. MaxCycles
    BY <2>1, CountTypes, EventCountsAssumption
    DEF CountInv, CyclesAccounted, Started, Bit, InstructionsClassified
  <2> QED
    BY <2>2 DEF CountsOK, counts
<1> QED
  BY <1>1, Counting, PTL

(***************************************************************************)
(* Every cycle of a test is one in which an instruction retires, one in    *)
(* which the EXU waits for the fetch, or one in which it waits for the LSU *)
(* (exu.sv:175-177, csr.sv:26), whatever the program and the SoC's timing. *)
(***************************************************************************)
THEOREM CyclesAddUp == CountSpec => []CyclesAccounted
<1>1. CountInv => CyclesAccounted
  BY Zenon DEF CountInv
<1> QED
  BY <1>1, Counting, PTL

(***************************************************************************)
(* Every instruction that retires is counted as one of the six kinds, and  *)
(* as one only (exu.sv:178-183), whatever the program.                     *)
(***************************************************************************)
THEOREM KindsAddUp == CountSpec => []InstructionsClassified
<1>1. CountInv => InstructionsClassified
  BY Zenon DEF CountInv
<1> QED
  BY <1>1, Counting, PTL

-----------------------------------------------------------------------------
(* What is waited for.  Where the instruction is (PInv of VsocGoldProofs)  *)
(* says which wait has been counted for it already.                        *)

WaitInv ==
  /\ mifu_wait >= minstret
  /\ phase = "exec" /\ (Decoded \/ AtLsu) => mifu_wait >= minstret + 1
  /\ mlsu_wait > 0 =>
       mload_seen + mstore_seen > 0 \/ (phase = "exec" /\ AtLsu)

LEMMA EdgeWaits ==
  ASSUME is_random => IInv, PInv, CountInv, WaitInv, Count,
         NEW i \in BOOLEAN, NEW l \in BOOLEAN, Cycle(i, l)
  PROVE  WaitInv'
<1>1. /\ TypeOK /\ CountType /\ WaitInv
      /\ phase = "exec" /\ phase' \in {"exec", "eval"}
      /\ Edge(i, l)
      /\ minstret' = minstret + Bit(exu_state' = "EXECUTE", 1)
      /\ AtReset \/ Asked \/ Fetching \/ Decoded \/ AtLsu
      /\ AtLsu => is_lsu_inst(d_type)
  <2>1. TypeOK /\ CountType
    BY Zenon DEF CountInv
  <2>2. phase = "exec" /\ phase' \in {"exec", "eval"} /\ Edge(i, l)
    BY Zenon DEF Cycle
  <2>3. minstret' = minstret + Bit(exu_state' = "EXECUTE", 1)
    BY <2>1, EdgeCounts
  <2> QED
    BY <2>1, <2>2, <2>3, Zenon DEF PInv, PExec
<1>2. /\ minstret \in Nat /\ mifu_wait \in Nat /\ mlsu_wait \in Nat
      /\ mload_seen \in Nat /\ mstore_seen \in Nat /\ idu_inst \in Inst
  BY <1>1, CountTypes DEF TypeOK
<1>3. /\ mifu_wait' = mifu_wait + Bit(exu_state' = "STALL_IDU", 1)
      /\ mlsu_wait' = mlsu_wait + Bit(exu_state' = "STALL_LSU", 1)
      /\ mload_seen'  = mload_seen + Bit(exu_state' = "EXECUTE" /\ d_type.hi = INST_LOAD, 1)
      /\ mstore_seen' = mstore_seen + Bit(exu_state' = "EXECUTE" /\ d_type.hi = INST_STORE, 1)
  BY Zenon DEF Count, Retired, is_instret, is_lsu_wait
\* It is waited for on its way to the decoder ...
<1>4. CASE AtReset \/ Asked \/ Fetching
  <2>1. /\ \/ Asked' /\ exu_state' = "START"
           \/ (Fetching' \/ Decoded') /\ exu_state' = "STALL_IDU"
        /\ ~AtLsu /\ ~AtLsu'
    BY <1>1, <1>4, EdgeMoves DEF AtReset, Asked, Quiet, Fetching, Decoded, AtLsu
  <2>2. exu_state' # "STALL_LSU" /\ exu_state' # "EXECUTE"
    BY <2>1
  <2>3. Decoded' => exu_state' = "STALL_IDU"
    BY DEF Decoded
  <2> QED
    BY <1>1, <1>2, <1>3, <2>1, <2>2, <2>3 DEF WaitInv, Bit
\* ... and from there until it retires.
<1>5. CASE Decoded \/ AtLsu
  <2>1. \/ AtLsu' /\ exu_state' = "STALL_LSU"
        \/ /\ exu_state' = "EXECUTE" /\ ~AtLsu' /\ ~Decoded'
           /\ AtLsu => is_lsu_inst(d_type)
    BY <1>1, <1>5, EdgeMoves DEF Asked, Quiet, AtLsu, Decoded
  <2>2. is_lsu_inst(d_type) => d_type.hi = INST_LOAD \/ d_type.hi = INST_STORE
    <3>1. idu_inst.opcode \in Opcode /\ idu_inst.funct3 \in 0 .. 7
      BY <1>2, InstFields
    <3>2. \/ \E lo \in 0 .. 7 : d_type = Type(INST_STORE, lo)
          \/ \E lo \in 0 .. 7 : d_type = Type(INST_LOAD, lo)
          \/ \E lo \in {0, 1, 4, 5} : d_type = Type(5, lo)
          \/ d_type \in {INST_IMM, INST_REG, INST_UPP, INST_AUIPC, Type(0, 0)}
          \/ d_type \in {INST_JUMP, INST_JUMPR}
          \/ d_type = INST_BRANCH
      BY <1>2, <3>1, TypeOf, Zenon DEF Opcode, d_type
    <3> QED
      BY <3>2 DEF Type, is_lsu_inst, INST_LOAD, INST_STORE, INST_BRANCH, INST_JUMP, INST_JUMPR,
                  INST_IMM, INST_REG, INST_UPP, INST_AUIPC
  <2>3. CASE AtLsu' /\ exu_state' = "STALL_LSU"
    <3>1. phase' = "exec"
      <4>1. PEval'
        BY CyclePlaces
      <4> QED
        BY <1>1, <2>3, <4>1 DEF PEval, Doomed, Fetching, Decoded
    <3> QED
      BY <1>1, <1>2, <1>3, <1>5, <2>3, <3>1 DEF WaitInv, Bit
  <2>4. CASE exu_state' = "EXECUTE" /\ ~AtLsu' /\ ~Decoded'
    BY <1>1, <1>2, <1>3, <1>5, <2>2, <2>4 DEF WaitInv, Bit
  <2> QED
    BY <2>1, <2>3, <2>4
<1> QED
  BY <1>1, <1>4, <1>5

LEMMA WaitInvStep ==
  (is_random => IInv) /\ PInv /\ CountInv /\ WaitInv /\ [CountNext]_<<vars, counts>> => WaitInv'
<1> SUFFICES ASSUME is_random => IInv, PInv, CountInv, WaitInv, [CountNext]_<<vars, counts>>
             PROVE  WaitInv'
  OBVIOUS
<1>1. CASE NewTest /\ CountReset
  <2>1. /\ minstret' = 0 /\ exu_state' = "RESET"
        /\ mifu_wait' = 0 /\ mlsu_wait' = 0
    BY <1>1, Zenon DEF NewTest, Reset, CountReset
  <2> QED
    BY <2>1 DEF WaitInv, Decoded, AtLsu
<1>2. CASE mcycle < MaxCycles /\ (\E i, l \in BOOLEAN : Cycle(i, l)) /\ Count
  BY <1>2, EdgeWaits, Zenon
<1>3. CASE (Abandon \/ Finish \/ Continue) /\ UNCHANGED counts
  <2>1. /\ phase = "eval" /\ UNCHANGED coreVars
        /\ phase' = "over" \/ (Compared /\ is_test_success')
    BY <1>3, Zenon DEF Abandon, Finish, Continue, Compared, Ends
  <2>2. phase' = "over" \/ exu_state = "EXECUTE"
    BY <2>1, Passes
  <2>3. minstret' = minstret /\ exu_state' = exu_state
    BY <2>1 DEF coreVars
  <2> QED
    BY <1>3, <2>1, <2>2, <2>3 DEF WaitInv, Decoded, AtLsu, counts
<1>4. CASE UNCHANGED <<vars, counts>>
  BY <1>4 DEF WaitInv, Decoded, AtLsu, counts, vars, coreVars, benchVars
<1> QED
  BY <1>1, <1>2, <1>3, <1>4, Zenon DEF CountNext

LEMMA Waiting == CountSpec => []WaitInv
<1>1. CountInit => WaitInv
  BY DEF CountInit, Init, WaitInv
<1> QED
  BY <1>1, WaitInvStep, CountedSteps, Places, Counting, PTL DEF CountSpec

(***************************************************************************)
(* The EXU waits at least one cycle for each instruction that it retires   *)
(* (exu.sv:74-102, idu.sv:26-39), however soon the fetch is answered: the  *)
(* CPU never does better than one in two cycles.                           *)
(***************************************************************************)
THEOREM FetchIsWaitedFor == CountSpec => []FetchWaits
<1>1. WaitInv => FetchWaits
  BY Zenon DEF WaitInv, FetchWaits
<1> QED
  BY <1>1, Waiting, PTL

(***************************************************************************)
(* The cycles counted as waits for the LSU are those of loads and stores   *)
(* (exu.sv:54, 88-95, 177-179).                                            *)
(***************************************************************************)
THEOREM LsuIsWaitedFor == CountSpec => []LsuWaitsAreMemory
<1>1. WaitInv => LsuWaitsAreMemory
  BY Zenon DEF WaitInv, LsuWaitsAreMemory, AtLsu
<1> QED
  BY <1>1, Waiting, PTL
=============================================================================
