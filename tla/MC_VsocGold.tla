---------------------------- MODULE MC_VsocGold -----------------------------
(***************************************************************************)
(* A small instance of VsocGold: words of two bits with the arithmetic of  *)
(* Alu, two registers (and the number of a third, which neither side has), *)
(* two words of memory at addresses 0 and 1, and programs of two           *)
(* instructions followed by zeros.  The first instruction is one of        *)
(* Firsts, which sets a register or the pc, the second one of Seconds.     *)
(* The immediates of the five formats differ where a program can tell.     *)
(***************************************************************************)
EXTENDS VsocGold

CONSTANTS Firsts, Seconds

A  == INSTANCE Alu WITH W <- 2
A4 == INSTANCE Alu WITH W <- 4

MC_Data == 0 .. 3
MC_Mem  == [{0, 1} -> MC_Data]

\* A byte is one bit wide here.
MC_load(m, a, size, sign) ==
  LET d == IF a \in {0, 1} THEN m[a] ELSE 0 IN
  IF size = 0 THEN (IF sign THEN 3 ELSE 1) * (d % 2) ELSE d

MC_store(m, a, size, d) ==
  IF a \notin {0, 1} THEN m
  ELSE [m EXCEPT ![a] = IF size = 0 THEN 2 * (@ \div 2) + (d % 2) ELSE d]

MC_IsMapped(a, wen) == a \in {0, 1}

MC_alu(op, l, r)      == A!Value(A!alu(op, A!Word(l), A!Word(r)))
MC_com(op, l, r)      == A!com(op, A!Word(l), A!Word(r))
MC_alu_eval(op, l, r) == A!Value(A!alu_eval(op, A!Word(l), A!Word(r)))
MC_compare(op, l, r)  == A!compare(op, A!Word(l), A!Word(r))

MC_Plus4(p)   == (p + 1) % 4
MC_ValidPc(p) == p <= n_insts

I(opcode, funct3, sub, rd, rs1, rs2) ==
  [opcode |-> opcode, funct3 |-> funct3, sub |-> sub, rd |-> rd, rs1 |-> rs1, rs2 |-> rs2,
   imm |-> [f \in {"i", "u", "s", "j", "b"} |->
              CASE f = "i" -> 1 [] f = "u" -> 2 [] f = "s" -> 0 [] f = "j" -> 1 [] f = "b" -> 3]]

ZeroInst == I("OTHER", 0, FALSE, 0, 0, 0)
EBREAK   == I("SYSTEM", 0, FALSE, 0, 0, 1)

MC_Firsts == {
  I("LUI", 0, FALSE, 1, 0, 0),      \* x1 = 2
  I("AUIPC", 0, FALSE, 1, 0, 0),
  I("CALC_IMM", 0, FALSE, 1, 1, 1), \* addi x1, x1, 1
  I("CALC_IMM", 0, FALSE, 2, 0, 0), \* to a register that is not there
  I("CALC_IMM", 0, FALSE, 0, 0, 0), \* to x0
  I("LOAD", 2, FALSE, 1, 0, 0),     \* lw x1, 1(x0)
  I("JALR", 0, FALSE, 1, 0, 0),
  ZeroInst}

MC_Seconds == {
  I("CALC_IMM", 5, TRUE, 1, 1, 0),  \* srai x1, x1, 1
  I("CALC_IMM", 0, TRUE, 1, 1, 0),  \* addi with bit 30 of the word set
  I("CALC_REG", 0, TRUE, 1, 0, 1),  \* sub x1, x0, x1
  I("CALC_REG", 3, FALSE, 1, 0, 1), \* sltu x1, x0, x1
  I("LOAD", 0, FALSE, 1, 0, 0),     \* lb, lbu
  I("LOAD", 4, FALSE, 1, 1, 0),
  I("STORE", 0, FALSE, 0, 0, 1),    \* sb x1, 0(x0)
  I("STORE", 2, FALSE, 1, 1, 1),    \* sw x1, 0(x1)
  I("BRANCH", 4, FALSE, 0, 1, 0),   \* blt x1, x0, -1
  I("BRANCH", 7, FALSE, 1, 0, 1),   \* bgeu x0, x1, -1
  I("JAL", 0, FALSE, 1, 0, 0),
  EBREAK}

MC_Inst == Firsts \cup Seconds \cup {ZeroInst}

MC_Programs ==
  {[d \in Data |-> CASE d = 0 -> p[1] [] d = 1 -> p[2] [] OTHER -> ZeroInst] :
     p \in Firsts \X Seconds}

MC_Init ==
  /\ code = (CHOOSE p \in Programs : TRUE)
  /\ mem = [a \in {0, 1} |-> 3 * a] /\ idu_inst = ZeroInst
  /\ Init

MC_Spec == MC_Init /\ [][Next]_vars

(***************************************************************************)
(* What VsocGold assumes of the arithmetic is so: for the operations and   *)
(* comparisons the golden model has, alu.sv and com.sv compute on every    *)
(* pair of words what alu_eval and compare do, the arithmetic shift among  *)
(* them, which riscv.cpp:60-70 puts together from unsigned ones; a result  *)
(* is a word.  The words here have four bits, the fewest that tell a       *)
(* shift's amount from its operand; it is asked before the first test.     *)
(***************************************************************************)
ArithmeticAgrees == instrets = 0 => A4!Agree

MC_FairSpec ==
  /\ MC_Spec
  /\ WF_vars(\E i, l \in BOOLEAN : Cycle(i, l))
  /\ WF_vars(ifu_busy /\ \E l \in BOOLEAN : Cycle(TRUE, l))
  /\ WF_vars(lsu_busy /\ \E i \in BOOLEAN : Cycle(i, TRUE))
=============================================================================
