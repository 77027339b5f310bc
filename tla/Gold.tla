-------------------------------- MODULE Gold ---------------------------------
(***************************************************************************)
(* The golden model, soc/gcpu.cpp: cpu_eval executes one instruction.  Its *)
(* state is a record, as the struct Gcpu is.                               *)
(***************************************************************************)
EXTENDS Isa

GoldState == [pc : Data, regs : Regs, mem : Mem, ebreak : BOOLEAN, is_not_mapped : BOOLEAN]

\* inst_type; "NONE" is the code's 0.
inst_type(i) ==
  CASE i.opcode = "CALC_IMM" -> "IMM"
    [] i.opcode = "CALC_REG" -> "REG"
    [] i.opcode = "LOAD" ->
         CASE i.funct3 \in {0, 4} -> "LOAD_BYTE"
           [] i.funct3 \in {1, 5} -> "LOAD_HALF"
           [] i.funct3 = 2        -> "LOAD_WORD"
           [] OTHER               -> "NONE"
    [] i.opcode = "STORE"  -> "STORE"
    [] i.opcode = "LUI"    -> "UPP"
    [] i.opcode = "AUIPC"  -> "AUIPC"
    [] i.opcode = "JALR"   -> "JUMPR"
    [] i.opcode = "JAL"    -> "JUMP"
    [] i.opcode = "BRANCH" -> "BRANCH"
    [] OTHER               -> "NONE"

dec_imm(i) ==
  CASE i.opcode \in {"CALC_IMM", "LOAD", "JALR"} -> i.imm["i"]
    [] i.opcode = "STORE"            -> i.imm["s"]
    [] i.opcode \in {"LUI", "AUIPC"} -> i.imm["u"]
    [] i.opcode = "JAL"              -> i.imm["j"]
    [] i.opcode = "BRANCH"           -> i.imm["b"]
    [] OTHER                         -> Zero

dec_alu_op(i) ==
  CASE i.opcode = "CALC_IMM" -> (IF i.sub /\ i.funct3 = 5 THEN 8 ELSE 0) + i.funct3
    [] i.opcode = "CALC_REG" -> (IF i.sub /\ i.funct3 \in {5, 0} THEN 8 ELSE 0) + i.funct3
    [] OTHER                 -> 0

dec_com_op(i) == IF i.opcode = "BRANCH" THEN i.funct3 ELSE 0

is_mem_sign(i) == i.funct3 < 4

\* Bit 20 of the instruction, the lowest of the rs2 field.
dec_ebreak(i) == i.opcode = "SYSTEM" /\ i.rs2 % 2 = 1

is_mem_op(i) == inst_type(i) \in {"LOAD_BYTE", "LOAD_HALF", "LOAD_WORD", "STORE"}

rf_read(g, r) == IF r < REG_NUM THEN g.regs[r] ELSE Zero

eval_alu(g, i) ==
  LET t == inst_type(i) IN
  g_alu(dec_alu_op(i),
        IF t \in {"JUMP", "AUIPC", "BRANCH"} THEN g.pc ELSE rf_read(g, i.rs1),
        CASE t = "REG" -> rf_read(g, i.rs2) [] t = "UPP" -> Zero [] OTHER -> dec_imm(i))

\* 0, 1 and 2 for a byte, a half and a word.
load_size(t) == CASE t = "LOAD_BYTE" -> 0 [] t = "LOAD_HALF" -> 1 [] OTHER -> 2

reg_wen(t) == t \notin {"STORE", "BRANCH", "NONE"}

reg_wdata(g, i) ==
  LET t == inst_type(i) IN
  CASE t \in {"LOAD_BYTE", "LOAD_HALF", "LOAD_WORD"} ->
         g_load(g.mem, eval_alu(g, i), load_size(t), is_mem_sign(i))
    [] t = "UPP" -> dec_imm(i)
    [] t \in {"JUMP", "JUMPR"} -> Plus4(g.pc)
    [] t \in {"AUIPC", "REG", "IMM"} -> eval_alu(g, i)
    [] OTHER -> Zero

pc_jump(g, i) ==
  \/ inst_type(i) \in {"JUMP", "JUMPR"}
  \/ inst_type(i) = "BRANCH" /\ g_compare(dec_com_op(i), rf_read(g, i.rs1), rf_read(g, i.rs2))

\* A store reads its address too.
NotMapped(g, i) ==
  LET t == inst_type(i) IN
  \/ t = "NONE"
  \/ is_mem_op(i) /\ ~IsMapped(eval_alu(g, i), FALSE)
  \/ t = "STORE" /\ ~IsMapped(eval_alu(g, i), TRUE)

cpu_eval(g, i) ==
  [pc   |-> IF pc_jump(g, i) THEN eval_alu(g, i) ELSE Plus4(g.pc),
   regs |-> IF reg_wen(inst_type(i)) /\ i.rd # 0 /\ i.rd < REG_NUM
            THEN [g.regs EXCEPT ![i.rd] = reg_wdata(g, i)] ELSE g.regs,
   mem  |-> IF inst_type(i) = "STORE"
            THEN g_store(g.mem, eval_alu(g, i), i.funct3, rf_read(g, i.rs2)) ELSE g.mem,
   ebreak |-> dec_ebreak(i),
   is_not_mapped |-> g.is_not_mapped \/ NotMapped(g, i)]

\* g_reset keeps the memory (gcpu.cpp:122).
g_reset(g, p) ==
  [pc |-> p, regs |-> [r \in Reg |-> Zero], mem |-> g.mem,
   ebreak |-> FALSE, is_not_mapped |-> FALSE]
=============================================================================
