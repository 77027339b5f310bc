--------------------------- MODULE VsocGoldProofs ---------------------------
(***************************************************************************)
(* Theorems about VsocGold: a random test never fails, whatever the        *)
(* program, the arithmetic, the memory and the timing of the SoC.          *)
(***************************************************************************)
EXTENDS VsocGold, WellFoundedInduction, NaturalsInduction, TLAPS

-----------------------------------------------------------------------------
(* The two decoders.                                                       *)

\* The fields of an instruction have their types.
LEMMA InstFields ==
  ASSUME NEW i \in Inst
  PROVE  /\ i.opcode \in Opcode /\ i.funct3 \in 0 .. 7 /\ i.sub \in BOOLEAN
         /\ i.rd \in 0 .. 31 /\ i.rs1 \in 0 .. 31 /\ i.rs2 \in 0 .. 31
         /\ \A f \in {"i", "u", "s", "j", "b"} : i.imm[f] \in Data
         /\ Comparable(i)
  BY IsaAssumption DEF Instruction

\* Both sides' types of the instructions with an opcode in ops.
LEMMA TypeOf ==
  ASSUME NEW i \in Inst
  PROVE  /\ i.opcode = "CALC_IMM" => idu_type(i) = INST_IMM /\ inst_type(i) = "IMM"
         /\ i.opcode = "CALC_REG" => idu_type(i) = INST_REG /\ inst_type(i) = "REG"
         /\ i.opcode = "LUI" => idu_type(i) = INST_UPP /\ inst_type(i) = "UPP"
         /\ i.opcode = "AUIPC" => idu_type(i) = INST_AUIPC /\ inst_type(i) = "AUIPC"
         /\ i.opcode = "JAL" => idu_type(i) = INST_JUMP /\ inst_type(i) = "JUMP"
         /\ i.opcode = "JALR" => idu_type(i) = INST_JUMPR /\ inst_type(i) = "JUMPR"
         /\ i.opcode = "BRANCH" => idu_type(i) = INST_BRANCH /\ inst_type(i) = "BRANCH"
         /\ i.opcode = "STORE" => idu_type(i) = Type(INST_STORE, i.funct3) /\ inst_type(i) = "STORE"
         /\ i.opcode = "LOAD" => idu_type(i) = Type(INST_LOAD, i.funct3)
         /\ i.opcode = "SYSTEM" => inst_type(i) = "NONE"
         /\ i.opcode = "SYSTEM" => \E lo \in {0, 1, 4, 5} : idu_type(i) = Type(5, lo)
         /\ i.opcode = "OTHER" => inst_type(i) = "NONE" /\ idu_type(i) = Type(0, 0)
<1>2. i.funct3 \in 0 .. 7
  BY InstFields
<1>3. CASE i.opcode = "SYSTEM"
  <2>1. inst_type(i) = "NONE"
    BY <1>3 DEF inst_type
  <2>2. PICK lo : lo = Bit(i.funct3 >= 4, 4) + Bit(i.funct3 \in {1, 2, 3, 5, 6, 7}, 1)
    OBVIOUS
  <2>3. lo \in {0, 1, 4, 5}
    BY <1>2, <2>2 DEF Bit
  <2>4. idu_type(i) = Type(5, lo)
    BY <1>3, <2>2 DEF idu_type
  <2> QED
    BY <1>3, <2>1, <2>3, <2>4
<1>4. CASE i.opcode # "SYSTEM"
  BY <1>4 DEF idu_type, inst_type
<1> QED
  BY <1>3, <1>4

\* The golden model's type of a load, by its size.
LEMMA LoadType ==
  ASSUME NEW i \in Inst, i.opcode = "LOAD"
  PROVE  \/ inst_type(i) = "NONE" /\ i.funct3 \in {3, 6, 7}
         \/ inst_type(i) = "LOAD_BYTE" /\ i.funct3 \in {0, 4}
         \/ inst_type(i) = "LOAD_HALF" /\ i.funct3 \in {1, 5}
         \/ inst_type(i) = "LOAD_WORD" /\ i.funct3 = 2
<1>1. i.funct3 \in 0 .. 7
  BY InstFields
<1>2. inst_type(i) = CASE i.funct3 \in {0, 4} -> "LOAD_BYTE"
                       [] i.funct3 \in {1, 5} -> "LOAD_HALF"
                       [] i.funct3 = 2        -> "LOAD_WORD"
                       [] OTHER               -> "NONE"
  BY DEF inst_type
<1> QED
  BY <1>1, <1>2

\* A type of the CPU is one of the constants of inst_defines.vh or none.
LEMMA TypeHi ==
  ASSUME NEW i \in Inst
  PROVE  /\ idu_type(i).hi = INST_STORE <=> i.opcode = "STORE"
         /\ idu_type(i).hi = INST_LOAD <=> i.opcode = "LOAD"
         /\ idu_type(i).hi = 5 <=> i.opcode = "SYSTEM"
         /\ idu_type(i) = INST_EBREAK => i.opcode = "SYSTEM"
         /\ idu_type(i) \in {INST_JUMP, INST_JUMPR} <=> i.opcode \in {"JAL", "JALR"}
         /\ idu_type(i) = INST_BRANCH <=> i.opcode = "BRANCH"
         /\ idu_type(i) = INST_REG <=> i.opcode = "CALC_REG"
         /\ idu_type(i) \in {INST_JUMP, INST_AUIPC, INST_BRANCH}
              <=> i.opcode \in {"JAL", "AUIPC", "BRANCH"}
         /\ idu_type(i) \in {INST_UPP, INST_AUIPC, INST_REG, INST_IMM}
              <=> i.opcode \in {"LUI", "AUIPC", "CALC_REG", "CALC_IMM"}
         /\ writes_rd(idu_type(i))
              <=> i.opcode \notin {"STORE", "BRANCH", "OTHER"}
         /\ is_lsu_inst(idu_type(i)) <=> i.opcode \in {"LOAD", "STORE"}
<1> USE TypeOf, InstFields
<1> USE DEF INST_STORE, INST_LOAD, INST_EBREAK, INST_JUMP, INST_JUMPR, INST_BRANCH, INST_REG,
            INST_IMM, INST_AUIPC, INST_UPP, Type, writes_rd, is_lsu_inst
<1>1. CASE i.opcode \in {"CALC_IMM", "CALC_REG", "LUI", "AUIPC"}
  BY <1>1
<1>2. CASE i.opcode \in {"JAL", "JALR", "BRANCH"}
  BY <1>2
<1>3. CASE i.opcode \in {"LOAD", "STORE"}
  BY <1>3
<1>4. CASE i.opcode \in {"SYSTEM", "OTHER"}
  BY <1>4
<1> QED
  BY <1>1, <1>2, <1>3, <1>4 DEF Opcode
-----------------------------------------------------------------------------
(* The operands and the result of the arithmetic.                          *)

\* Both register files read the same: exu.sv answers zero for x0, gcpu.cpp reads it.
LEMMA RfAgree ==
  ASSUME NEW g \in GoldState, NEW r \in 0 .. 31
  PROVE  rf_rdata(g.regs, r) = rf_read(g, r) /\ rf_read(g, r) \in Data
<1>1. g.regs \in [Reg -> Data] /\ g.regs[0] = Zero
  BY DEF GoldState, Regs
<1>2. CASE r = 0
  BY <1>1, <1>2, IsaAssumption DEF rf_rdata, rf_read, Reg
<1>3. CASE r # 0
  BY <1>1, <1>3, IsaAssumption DEF rf_rdata, rf_read, Reg
<1> QED
  BY <1>2, <1>3

\* The decoders choose the same operation; lui has none in gcpu.cpp.
LEMMA OpAgree ==
  ASSUME NEW i \in Inst, i.opcode \notin {"LUI", "SYSTEM"}
  PROVE  idu_alu_op(i) = dec_alu_op(i) /\ dec_alu_op(i) \in GoldAluOps
<1>1. i.funct3 \in 0 .. 7 /\ i.sub \in BOOLEAN
  BY InstFields
<1>2. CASE i.opcode = "CALC_IMM"
  <2>1. /\ idu_alu_op(i) = Bit(i.sub /\ i.funct3 = 5, 8) + i.funct3
        /\ dec_alu_op(i) = (IF i.sub /\ i.funct3 = 5 THEN 8 ELSE 0) + i.funct3
    BY <1>2 DEF idu_alu_op, dec_alu_op
  <2> QED
    BY <1>1, <2>1 DEF Bit, GoldAluOps
<1>3. CASE i.opcode = "CALC_REG"
  <2>1. /\ idu_alu_op(i) = Bit(i.sub /\ i.funct3 \in {0, 5}, 8) + i.funct3
        /\ dec_alu_op(i) = (IF i.sub /\ i.funct3 \in {5, 0} THEN 8 ELSE 0) + i.funct3
    BY <1>3 DEF idu_alu_op, dec_alu_op
  <2> QED
    BY <1>1, <2>1 DEF Bit, GoldAluOps
<1>4. CASE i.opcode \notin {"CALC_IMM", "CALC_REG"}
  BY <1>4 DEF idu_alu_op, dec_alu_op, GoldAluOps
<1> QED
  BY <1>2, <1>3, <1>4

\* The decoders choose the same immediate.
LEMMA ImmAgree ==
  ASSUME NEW i \in Inst, i.opcode # "SYSTEM"
  PROVE  idu_imm(i) = dec_imm(i) /\ dec_imm(i) \in Data
  BY InstFields, IsaAssumption DEF idu_imm, dec_imm

\* lui goes its own way on each side.
LEMMA AluAgree ==
  ASSUME NEW i \in Inst, NEW g \in GoldState, i.opcode \notin {"LUI", "SYSTEM"}
  PROVE  alu_res(i, g.pc, g.regs) = eval_alu(g, i) /\ eval_alu(g, i) \in Data
<1> DEFINE l == IF i.opcode \in {"JAL", "AUIPC", "BRANCH"} THEN g.pc ELSE rf_read(g, i.rs1)
           r == IF i.opcode = "CALC_REG" THEN rf_read(g, i.rs2) ELSE dec_imm(i)
<1>1. i.rs1 \in 0 .. 31 /\ i.rs2 \in 0 .. 31 /\ i.opcode \in Opcode
  BY InstFields
<1>2. l \in Data /\ r \in Data
  BY <1>1, RfAgree, ImmAgree DEF GoldState
<1>3. alu_res(i, g.pc, g.regs) = u_alu(dec_alu_op(i), l, r)
  BY <1>1, TypeHi, RfAgree, ImmAgree, OpAgree DEF alu_res
<1>4. eval_alu(g, i) = g_alu(dec_alu_op(i), l, r)
  <2>1. inst_type(i) \in {"JUMP", "AUIPC", "BRANCH"} <=> i.opcode \in {"JAL", "AUIPC", "BRANCH"}
    BY <1>1, TypeOf, LoadType DEF Opcode
  <2>2. inst_type(i) = "REG" <=> i.opcode = "CALC_REG"
    BY <1>1, TypeOf, LoadType DEF Opcode
  <2>3. inst_type(i) # "UPP"
    BY <1>1, TypeOf, LoadType DEF Opcode
  <2> QED
    BY <2>1, <2>2, <2>3 DEF eval_alu
<1> QED
  BY <1>2, <1>3, <1>4, OpAgree, ArithmeticAssumption

LEMMA AluLui ==
  ASSUME NEW i \in Inst, NEW g \in GoldState, i.opcode = "LUI"
  PROVE  alu_res(i, g.pc, g.regs) = dec_imm(i) /\ dec_imm(i) \in Data
<1>1. i.rs1 \in 0 .. 31
  BY InstFields
<1>2. alu_res(i, g.pc, g.regs) = u_alu(ALU_OP_RHS, rf_read(g, i.rs1), dec_imm(i))
  BY <1>1, TypeHi, RfAgree, ImmAgree DEF alu_res, idu_alu_op
<1> QED
  BY <1>1, <1>2, RfAgree, ImmAgree, ArithmeticAssumption
-----------------------------------------------------------------------------
(* What an instruction does.                                               *)

\* The same instructions jump on both sides, branches on the same comparison.
LEMMA JumpAgree ==
  ASSUME NEW i \in Inst, NEW g \in GoldState
  PROVE  /\ is_pc_jump(i, g.regs) <=> pc_jump(g, i)
         /\ pc_jump(g, i) => i.opcode \in {"JAL", "JALR", "BRANCH"}
<1>1. /\ i.rs1 \in 0 .. 31 /\ i.rs2 \in 0 .. 31 /\ i.opcode \in Opcode
      /\ i.funct3 \in 0 .. 7 /\ Comparable(i)
  BY InstFields
<1>2. CASE i.opcode = "BRANCH"
  <2>1. idu_com_op(i) = i.funct3 /\ dec_com_op(i) = i.funct3 /\ i.funct3 \in 0 .. 7 \ {2}
    BY <1>1, <1>2 DEF idu_com_op, dec_com_op, Comparable
  <2>2. g_compare(dec_com_op(i), rf_read(g, i.rs1), rf_read(g, i.rs2))
          = u_com(idu_com_op(i), rf_rdata(g.regs, i.rs1), rf_rdata(g.regs, i.rs2))
    <3>1. /\ rf_rdata(g.regs, i.rs1) = rf_read(g, i.rs1) /\ rf_read(g, i.rs1) \in Data
          /\ rf_rdata(g.regs, i.rs2) = rf_read(g, i.rs2) /\ rf_read(g, i.rs2) \in Data
      BY <1>1, RfAgree
    <3>2. g_compare(i.funct3, rf_read(g, i.rs1), rf_read(g, i.rs2))
            = u_com(i.funct3, rf_read(g, i.rs1), rf_read(g, i.rs2))
      BY <2>1, <3>1, ArithmeticAssumption
    <3> QED
      BY <2>1, <3>1, <3>2
  <2>3. idu_type(i) = INST_BRANCH /\ idu_type(i) \notin {INST_JUMP, INST_JUMPR}
    BY <1>2, TypeHi
  <2>4. inst_type(i) = "BRANCH"
    BY <1>2, TypeOf
  <2> QED
    BY <1>2, <2>2, <2>3, <2>4 DEF is_pc_jump, pc_jump
<1>3. CASE i.opcode \in {"JAL", "JALR"}
  BY <1>3, TypeHi, TypeOf DEF is_pc_jump, pc_jump
<1>4. CASE i.opcode \notin {"JAL", "JALR", "BRANCH"}
  <2>1. inst_type(i) \notin {"JUMP", "JUMPR", "BRANCH"}
    BY <1>1, <1>4, TypeOf, LoadType DEF Opcode
  <2> QED
    BY <1>4, <2>1, TypeHi DEF is_pc_jump, pc_jump
<1> QED
  BY <1>2, <1>3, <1>4

\* A store leaves the same memory on both sides.
LEMMA StoreAgree ==
  ASSUME NEW i \in Inst, NEW g \in GoldState
  PROVE  cpu_eval(g, i).mem = mem_after(i, g.pc, g.regs, g.mem) /\ cpu_eval(g, i).mem \in Mem
<1>1. i.rs2 \in 0 .. 31 /\ i.opcode \in Opcode /\ i.funct3 \in 0 .. 7 /\ Comparable(i)
  BY InstFields
<1>2. g.mem \in Mem
  BY DEF GoldState
<1>3. CASE i.opcode = "STORE"
  <2>1. i.funct3 \in 0 .. 2 /\ idu_type(i).lo % 4 = i.funct3
    BY <1>1, <1>3, TypeOf DEF Comparable, Type
  <2>2. cpu_eval(g, i).mem = g_store(g.mem, eval_alu(g, i), i.funct3, rf_read(g, i.rs2))
    BY <1>3, TypeOf DEF cpu_eval
  <2>3. mem_after(i, g.pc, g.regs, g.mem)
          = lsu_store(g.mem, alu_res(i, g.pc, g.regs), i.funct3, rf_rdata(g.regs, i.rs2))
    BY <1>3, <2>1, TypeHi DEF mem_after
  <2>4. alu_res(i, g.pc, g.regs) = eval_alu(g, i) /\ eval_alu(g, i) \in Data
    BY <1>3, AluAgree
  <2>5. rf_rdata(g.regs, i.rs2) = rf_read(g, i.rs2) /\ rf_read(g, i.rs2) \in Data
    BY <1>1, RfAgree
  <2>6. /\ lsu_store(g.mem, eval_alu(g, i), i.funct3, rf_read(g, i.rs2)) \in Mem
        /\ g_store(g.mem, eval_alu(g, i), i.funct3, rf_read(g, i.rs2))
             = lsu_store(g.mem, eval_alu(g, i), i.funct3, rf_read(g, i.rs2))
    BY <1>2, <2>1, <2>4, <2>5, MemoryAssumption
  <2> QED
    BY <2>2, <2>3, <2>4, <2>5, <2>6
<1>4. CASE i.opcode # "STORE"
  <2>1. inst_type(i) # "STORE"
    BY <1>1, <1>4, TypeOf, LoadType DEF Opcode
  <2> QED
    BY <1>2, <1>4, <2>1, TypeHi DEF cpu_eval, mem_after
<1> QED
  BY <1>3, <1>4

\* A load returns a word on both sides, the same one where gcpu.cpp has memory.
LEMMA LoadAgree ==
  ASSUME NEW i \in Inst, NEW g \in GoldState, i.opcode = "LOAD"
  PROVE  /\ lsu_rdata(i, g.pc, g.regs, g.mem) \in Data
         /\ inst_type(i) # "NONE" => reg_wdata(g, i) \in Data
         /\ NotMapped(g, i) \/ reg_wdata(g, i) = lsu_rdata(i, g.pc, g.regs, g.mem)
<1> DEFINE a == eval_alu(g, i)
<1>1. i.funct3 \in 0 .. 7 /\ g.mem \in Mem
  BY InstFields DEF GoldState
<1>2. a \in Data /\ alu_res(i, g.pc, g.regs) = a
  BY AluAgree
<1>3. idu_type(i).lo = i.funct3
  BY TypeOf DEF Type
<1>4. PICK size \in 0 .. 3 : size = i.funct3 % 4
  BY <1>1
<1>5. PICK sign \in BOOLEAN : sign = (i.funct3 < 4)
  <2>1. (i.funct3 < 4) \in BOOLEAN
    BY <1>1
  <2> QED
    BY <2>1, Zenon
<1>6. lsu_rdata(i, g.pc, g.regs, g.mem) = lsu_load(g.mem, a, size, sign)
  <2>1. lsu_rdata(i, g.pc, g.regs, g.mem)
          = lsu_load(g.mem, alu_res(i, g.pc, g.regs), idu_type(i).lo % 4, idu_type(i).lo < 4)
    BY DEF lsu_rdata
  <2> HIDE DEF a
  <2> QED
    BY <1>2, <1>3, <1>4, <1>5, <2>1, Zenon
<1>7. lsu_load(g.mem, a, size, sign) \in Data /\ g_load(g.mem, a, size, sign) \in Data
  <2> HIDE DEF a
  <2> QED
    BY <1>1, <1>2, MemoryAssumption, Zenon
<1>8. ASSUME inst_type(i) # "NONE"
      PROVE  /\ load_size(inst_type(i)) = size /\ size \in 0 .. 2
             /\ inst_type(i) \in {"LOAD_BYTE", "LOAD_HALF", "LOAD_WORD"}
  BY <1>4, <1>8, LoadType DEF load_size
<1>9. ASSUME inst_type(i) # "NONE"
      PROVE  reg_wdata(g, i) = g_load(g.mem, a, size, sign)
  <2>1. reg_wdata(g, i) = g_load(g.mem, a, load_size(inst_type(i)), is_mem_sign(i))
    BY <1>8, <1>9 DEF reg_wdata
  <2>2. is_mem_sign(i) = sign
    BY <1>5, Zenon DEF is_mem_sign
  <2> HIDE DEF a
  <2> QED
    BY <1>8, <1>9, <2>1, <2>2, Zenon
<1>10. ASSUME ~NotMapped(g, i)
       PROVE  reg_wdata(g, i) = lsu_rdata(i, g.pc, g.regs, g.mem)
  <2>1. inst_type(i) # "NONE"
    BY <1>10, Zenon DEF NotMapped
  <2>2. is_mem_op(i)
    BY <1>8, <2>1 DEF is_mem_op
  <2>3. IsMapped(a, FALSE)
    BY <1>10, <2>2, Zenon DEF NotMapped
  <2>4. size \in 0 .. 2
    BY <1>8, <2>1
  <2> HIDE DEF a
  <2>5. g_load(g.mem, a, size, sign) = lsu_load(g.mem, a, size, sign)
    BY <1>1, <1>2, <2>3, <2>4, MemoryAssumption, Zenon
  <2> QED
    BY <1>6, <1>9, <2>1, <2>5
<1>11. ASSUME inst_type(i) # "NONE"
       PROVE  reg_wdata(g, i) \in Data
  BY <1>7, <1>9, <1>11
<1>12. lsu_rdata(i, g.pc, g.regs, g.mem) \in Data
  BY <1>6, <1>7
<1> QED
  BY <1>10, <1>11, <1>12

\* If the golden model knows the instruction, it does what the CPU does.
LEMMA EvalAgree ==
  ASSUME NEW i \in Inst, NEW g \in GoldState, NEW csr \in Data, ~NotMapped(g, i)
  PROVE  /\ cpu_eval(g, i).pc = pc_next(i, g.pc, g.regs)
         /\ cpu_eval(g, i).regs
              = rf_write(g.regs, writes_rd(idu_type(i)), i.rd,
                         rf_wdata(i, g.pc, g.regs, g.mem, csr))
<1>1. i.opcode \in Opcode /\ i.funct3 \in 0 .. 7
  BY InstFields
<1>2. inst_type(i) # "NONE"
  BY Zenon DEF NotMapped
<1>3. i.opcode \notin {"SYSTEM", "OTHER"}
  BY <1>2, TypeOf
<1>4. cpu_eval(g, i).pc = pc_next(i, g.pc, g.regs)
  <2>1. cpu_eval(g, i).pc = IF pc_jump(g, i) THEN eval_alu(g, i) ELSE Plus4(g.pc)
    BY DEF cpu_eval
  <2>2. pc_next(i, g.pc, g.regs)
          = IF is_pc_jump(i, g.regs) THEN alu_res(i, g.pc, g.regs) ELSE Plus4(g.pc)
    BY DEF pc_next
  <2>3. pc_jump(g, i) => alu_res(i, g.pc, g.regs) = eval_alu(g, i)
    BY JumpAgree, AluAgree
  <2> QED
    BY <2>1, <2>2, <2>3, JumpAgree
<1>5. writes_rd(idu_type(i)) <=> reg_wen(inst_type(i))
  BY <1>1, <1>2, <1>3, TypeHi, TypeOf, LoadType DEF reg_wen, Opcode
<1>6. ASSUME reg_wen(inst_type(i))
      PROVE  rf_wdata(i, g.pc, g.regs, g.mem, csr) = reg_wdata(g, i)
  <2> USE DEF Type, INST_LOAD, INST_JUMP, INST_JUMPR, INST_UPP, INST_AUIPC, INST_REG, INST_IMM
  <2>1. i.opcode \in {"LUI", "AUIPC", "JAL", "JALR", "LOAD", "CALC_IMM", "CALC_REG"}
    BY <1>1, <1>3, <1>5, <1>6, TypeHi DEF Opcode
  <2>2. CASE i.opcode \in {"AUIPC", "CALC_IMM", "CALC_REG"}
    <3>1. rf_wdata(i, g.pc, g.regs, g.mem, csr) = alu_res(i, g.pc, g.regs)
      BY <2>2, TypeOf DEF rf_wdata
    <3>2. reg_wdata(g, i) = eval_alu(g, i)
      <4>1. inst_type(i) \in {"AUIPC", "REG", "IMM"}
        BY <2>2, TypeOf
      <4> QED
        BY <4>1 DEF reg_wdata
    <3> QED
      BY <2>2, <3>1, <3>2, AluAgree
  <2>3. CASE i.opcode = "LUI"
    <3>1. rf_wdata(i, g.pc, g.regs, g.mem, csr) = alu_res(i, g.pc, g.regs)
      BY <2>3, TypeOf DEF rf_wdata
    <3>2. reg_wdata(g, i) = dec_imm(i)
      <4>1. inst_type(i) \in {"UPP"}
        BY <2>3, TypeOf
      <4> QED
        BY <4>1 DEF reg_wdata
    <3> QED
      BY <2>3, <3>1, <3>2, AluLui
  <2>4. CASE i.opcode \in {"JAL", "JALR"}
    <3>1. rf_wdata(i, g.pc, g.regs, g.mem, csr) = Plus4(g.pc)
      BY <2>4, TypeOf DEF rf_wdata
    <3>2. reg_wdata(g, i) = Plus4(g.pc)
      <4>1. inst_type(i) \in {"JUMP", "JUMPR"}
        BY <2>4, TypeOf
      <4> QED
        BY <4>1 DEF reg_wdata
    <3> QED
      BY <3>1, <3>2
  <2>5. CASE i.opcode = "LOAD"
    <3>1. idu_type(i) = Type(INST_LOAD, i.funct3)
      BY <2>5, TypeOf
    <3>2. i.funct3 \in {0, 1, 2, 4, 5}
      BY <1>2, <2>5, LoadType
    <3>3. rf_wdata(i, g.pc, g.regs, g.mem, csr) = lsu_rdata(i, g.pc, g.regs, g.mem)
      BY <3>1, <3>2 DEF rf_wdata
    <3> QED
      BY <2>5, <3>3, LoadAgree
  <2> QED
    BY <2>1, <2>2, <2>3, <2>4, <2>5
<1>7. cpu_eval(g, i).regs
        = rf_write(g.regs, writes_rd(idu_type(i)), i.rd, rf_wdata(i, g.pc, g.regs, g.mem, csr))
  BY <1>5, <1>6 DEF cpu_eval, rf_write
<1> QED
  BY <1>4, <1>7

\* What the golden model does not know, ebreak and the CSRs among it.
LEMMA SystemNotMapped ==
  ASSUME NEW i \in Inst, NEW g \in GoldState, ~NotMapped(g, i)
  PROVE  ~dec_ebreak(i) /\ idu_type(i) # INST_EBREAK
<1>1. i.opcode # "SYSTEM"
  BY TypeOf, Zenon DEF NotMapped
<1> QED
  BY <1>1, TypeHi DEF dec_ebreak

-----------------------------------------------------------------------------
(* Types.                                                                  *)

\* The result of the arithmetic is a word unless the instruction is of SYSTEM.
LEMMA AluType ==
  ASSUME NEW i \in Inst, NEW g \in GoldState, i.opcode # "SYSTEM"
  PROVE  alu_res(i, g.pc, g.regs) \in Data
<1>1. CASE i.opcode = "LUI"
  BY <1>1, AluLui
<1>2. CASE i.opcode # "LUI"
  BY <1>2, AluAgree
<1> QED
  BY <1>1, <1>2

\* A register file stays one if what is written is a word.
LEMMA WriteType ==
  ASSUME NEW rf \in Regs, NEW wen, NEW rd \in 0 .. 31, NEW d, wen => d \in Data
  PROVE  rf_write(rf, wen, rd, d) \in Regs
BY IsaAssumption DEF rf_write, Regs, Reg

\* What an instruction leaves in the CPU (exu.sv, lsu.sv) has its types.
LEMMA CpuType ==
  ASSUME NEW i \in Inst, NEW g \in GoldState, NEW csr \in Data
  PROVE  /\ pc_next(i, g.pc, g.regs) \in Data
         /\ rf_write(g.regs, writes_rd(idu_type(i)), i.rd,
                     rf_wdata(i, g.pc, g.regs, g.mem, csr)) \in Regs
         /\ mem_after(i, g.pc, g.regs, g.mem) \in Mem
<1>1. i.opcode \in Opcode /\ i.rd \in 0 .. 31
  BY InstFields
<1>2. Plus4(g.pc) \in Data /\ g.regs \in Regs
  BY ArithmeticAssumption DEF GoldState
<1>3. pc_next(i, g.pc, g.regs) \in Data
  <2>1. is_pc_jump(i, g.regs) => alu_res(i, g.pc, g.regs) \in Data
    BY JumpAgree, AluType
  <2> QED
    BY <1>2, <2>1 DEF pc_next
<1>4. ASSUME writes_rd(idu_type(i))
      PROVE  rf_wdata(i, g.pc, g.regs, g.mem, csr) \in Data
  <2> USE DEF Type, INST_LOAD, INST_JUMP, INST_JUMPR, INST_UPP, INST_AUIPC, INST_REG, INST_IMM
  <2>1. CASE i.opcode \in {"LUI", "AUIPC", "CALC_IMM", "CALC_REG"}
    <3>1. rf_wdata(i, g.pc, g.regs, g.mem, csr) = alu_res(i, g.pc, g.regs)
      BY <2>1, TypeOf DEF rf_wdata
    <3> QED
      BY <2>1, <3>1, AluType
  <2>2. CASE i.opcode \in {"JAL", "JALR"}
    BY <1>2, <2>2, TypeOf DEF rf_wdata
  <2>3. CASE i.opcode = "LOAD"
    <3>1. idu_type(i) = Type(INST_LOAD, i.funct3)
      BY <2>3, TypeOf
    <3>2. lsu_rdata(i, g.pc, g.regs, g.mem) \in Data
      BY <2>3, LoadAgree
    <3> QED
      BY <3>1, <3>2, IsaAssumption DEF rf_wdata
  <2>4. CASE i.opcode = "SYSTEM"
    <3>1. PICK lo \in {0, 1, 4, 5} : idu_type(i) = Type(5, lo)
      BY <2>4, TypeOf
    <3> QED
      BY <3>1, IsaAssumption DEF rf_wdata
  <2> QED
    BY <1>1, <1>4, <2>1, <2>2, <2>3, <2>4, TypeHi DEF Opcode
<1> QED
  BY <1>1, <1>2, <1>3, <1>4, WriteType, StoreAgree

\* cpu_eval returns a state of the golden model.
LEMMA GoldType ==
  ASSUME NEW i \in Inst, NEW g \in GoldState
  PROVE  cpu_eval(g, i) \in GoldState
<1>1. i.opcode \in Opcode /\ i.rd \in 0 .. 31
  BY InstFields
<1>2. Plus4(g.pc) \in Data /\ g.regs \in Regs /\ g.is_not_mapped \in BOOLEAN
  BY ArithmeticAssumption DEF GoldState
<1>3. cpu_eval(g, i).pc \in Data
  <2>1. pc_jump(g, i) => eval_alu(g, i) \in Data
    BY JumpAgree, AluAgree
  <2> QED
    BY <1>2, <2>1 DEF cpu_eval
<1>4. ASSUME reg_wen(inst_type(i))
      PROVE  reg_wdata(g, i) \in Data
  <2>1. CASE i.opcode \in {"AUIPC", "CALC_IMM", "CALC_REG"}
    <3>1. inst_type(i) \in {"AUIPC", "REG", "IMM"}
      BY <2>1, TypeOf
    <3> QED
      BY <2>1, <3>1, AluAgree DEF reg_wdata
  <2>2. CASE i.opcode \in {"JAL", "JALR"}
    <3>1. inst_type(i) \in {"JUMP", "JUMPR"}
      BY <2>2, TypeOf
    <3> QED
      BY <1>2, <3>1 DEF reg_wdata
  <2>3. CASE i.opcode = "LUI"
    <3>1. inst_type(i) = "UPP"
      BY <2>3, TypeOf
    <3> QED
      BY <2>3, <3>1, ImmAgree DEF reg_wdata
  <2>4. CASE i.opcode = "LOAD"
    BY <1>4, <2>4, LoadAgree DEF reg_wen
  <2> QED
    BY <1>1, <1>4, <2>1, <2>2, <2>3, <2>4, TypeOf DEF Opcode, reg_wen
<1>5. cpu_eval(g, i).regs \in Regs
  <2>1. cpu_eval(g, i).regs = rf_write(g.regs, reg_wen(inst_type(i)), i.rd, reg_wdata(g, i))
    BY DEF cpu_eval, rf_write
  <2> QED
    BY <1>1, <1>2, <1>4, <2>1, WriteType
<1>6. cpu_eval(g, i).ebreak \in BOOLEAN /\ cpu_eval(g, i).is_not_mapped \in BOOLEAN
  <2>1. cpu_eval(g, i).ebreak = dec_ebreak(i)
    BY Zenon DEF cpu_eval
  <2>2. cpu_eval(g, i).is_not_mapped = (g.is_not_mapped \/ NotMapped(g, i))
    BY Zenon DEF cpu_eval
  <2>3. dec_ebreak(i) \in BOOLEAN
    BY Zenon DEF dec_ebreak
  <2>4. (g.is_not_mapped \/ NotMapped(g, i)) \in BOOLEAN
    BY Zenon
  <2> QED
    BY <2>1, <2>2, <2>3, <2>4, Zenon
<1>7. cpu_eval(g, i) = [pc |-> cpu_eval(g, i).pc, regs |-> cpu_eval(g, i).regs,
                        mem |-> cpu_eval(g, i).mem, ebreak |-> cpu_eval(g, i).ebreak,
                        is_not_mapped |-> cpu_eval(g, i).is_not_mapped]
  BY DEF cpu_eval
<1> QED
  BY <1>3, <1>5, <1>6, <1>7, StoreAgree DEF GoldState

\* What a cycle does to the pc, the registers and the memory.
LEMMA EdgeWrites ==
  ASSUME TypeOK, NEW i \in BOOLEAN, NEW l \in BOOLEAN, Edge(i, l)
  PROVE  /\ pc' \in Data /\ regs' \in Regs /\ mem' \in Mem
         /\ \/ exu_state' # "EXECUTE" /\ minstret' = minstret /\ pc' = pc /\ regs' = regs
            \/ /\ Retires(l) /\ minstret' = minstret + 1 /\ exu_state' = "EXECUTE"
               /\ pc' = pc_next(idu_inst, pc, regs)
               /\ \E csr \in Data :
                    regs' = rf_write(regs, writes_rd(idu_type(idu_inst)), idu_inst.rd,
                                     rf_wdata(idu_inst, pc, regs, mem, csr))
<1> DEFINE g == [pc |-> pc, regs |-> regs, mem |-> mem, ebreak |-> FALSE, is_not_mapped |-> FALSE]
<1>1. g \in GoldState /\ idu_inst \in Inst
  BY DEF TypeOK, GoldState
<1>2. g.pc = pc /\ g.regs = regs /\ g.mem = mem
  OBVIOUS
<1>3. Exu(l)
  BY Zenon DEF Edge
<1>4. \/ exu_state' # "EXECUTE" /\ minstret' = minstret /\ pc' = pc /\ regs' = regs
      \/ /\ Retires(l) /\ minstret' = minstret + 1 /\ exu_state' = "EXECUTE"
         /\ pc' = pc_next(idu_inst, pc, regs)
         /\ \E csr \in Data :
              regs' = rf_write(regs, writes_rd(idu_type(idu_inst)), idu_inst.rd,
                               rf_wdata(idu_inst, pc, regs, mem, csr))
  <2>1. CASE /\ ExuStart \/ ExuNoInst \/ ExuStall(l)
             /\ UNCHANGED <<pc, regs, minstret>>
    BY <2>1 DEF ExuStart, ExuNoInst, ExuStall
  <2>2. CASE ExuExecute(l)
    BY <2>2, Zenon DEF ExuExecute, d_type
  <2> QED
    BY <1>3, <2>1, <2>2, Zenon DEF Exu
<1>5. pc' \in Data /\ regs' \in Regs
  <2>1. CASE minstret' = minstret /\ pc' = pc /\ regs' = regs
    BY <2>1 DEF TypeOK
  <2>2. ASSUME NEW csr \in Data, pc' = pc_next(idu_inst, pc, regs),
               regs' = rf_write(regs, writes_rd(idu_type(idu_inst)), idu_inst.rd,
                                rf_wdata(idu_inst, pc, regs, mem, csr))
        PROVE  pc' \in Data /\ regs' \in Regs
    <3> HIDE DEF g
    <3>1. /\ pc_next(idu_inst, g.pc, g.regs) \in Data
          /\ rf_write(g.regs, writes_rd(idu_type(idu_inst)), idu_inst.rd,
                      rf_wdata(idu_inst, g.pc, g.regs, g.mem, csr)) \in Regs
      BY <1>1, CpuType
    <3> QED
      BY <1>2, <2>2, <3>1
  <2> QED
    BY <1>4, <2>1, <2>2
<1>6. mem' \in Mem
  <2> HIDE DEF g
  <2>1. mem_after(idu_inst, g.pc, g.regs, g.mem) \in Mem
    BY <1>1, StoreAgree
  <2>2. mem' = IF l THEN mem_after(idu_inst, pc, regs, mem) ELSE mem
    BY Zenon DEF Edge
  <2> QED
    BY <1>2, <2>1, <2>2 DEF TypeOK
<1> QED
  BY <1>4, <1>5, <1>6

\* The types are inductive.
LEMMA TypeStep == TypeOK /\ [Next]_vars => TypeOK'
<1> SUFFICES ASSUME TypeOK, [Next]_vars PROVE TypeOK'
  OBVIOUS
<1>0. /\ code \in [Data -> Inst]
      /\ INITIAL_PC \in Data /\ [r \in Reg |-> Zero] \in Regs
  BY BenchAssumption, IsaAssumption DEF TypeOK, Regs, Reg
<1>1. CASE NewTest
  BY <1>0, <1>1 DEF TypeOK, NewTest, Reset, g_reset, GoldState, ExuState
<1>2. ASSUME NEW i \in BOOLEAN, NEW l \in BOOLEAN, Cycle(i, l)
      PROVE  TypeOK'
  <2>1. Edge(i, l) /\ UNCHANGED <<gcpu, instrets, minstret_start, is_test_success>>
    BY <1>2, Zenon DEF Cycle
  <2>2. pc' \in Data /\ regs' \in Regs /\ mem' \in Mem /\ minstret' \in Nat
    BY <2>1, EdgeWrites DEF TypeOK
  <2>3. exu_state' \in ExuState
    <3>1. Exu(l)
      BY <2>1, Zenon DEF Edge
    <3> QED
      BY <3>1 DEF Exu, ExuStart, ExuNoInst, ExuStall, ExuExecute, ExuState
  <2>4. idu_inst' \in Inst
    <3>1. Idu(i)
      BY <2>1, Zenon DEF Edge
    <3>2. idu_inst' = IF i THEN code[pc] ELSE idu_inst
      BY <3>1, Zenon DEF Idu
    <3> QED
      BY <1>0, <3>2 DEF TypeOK
  <2>5. {is_start', ifu_reqValid', ifu_busy', lsu_busy', idu_respValid', ebreak'} \subseteq BOOLEAN
    <3>1. is_start' \in BOOLEAN /\ ifu_busy' \in BOOLEAN /\ lsu_busy' \in BOOLEAN
      BY <2>1, Zenon DEF Edge
    <3>2. ifu_reqValid' \in BOOLEAN
      BY <2>1, Zenon DEF Edge, Fetches
    <3>3. idu_respValid' \in BOOLEAN
      BY <2>1, Zenon DEF Edge, Idu
    <3>4. ebreak' \in BOOLEAN
      BY <2>1, Zenon DEF Edge
    <3> QED
      BY <3>1, <3>2, <3>3, <3>4
  <2>6. code' = code
    BY <2>1, Zenon DEF Edge
  <2>7. phase' \in {"exec", "eval"}
    BY <1>2 DEF Cycle
  <2> QED
    BY <2>1, <2>2, <2>3, <2>4, <2>5, <2>6, <2>7 DEF TypeOK
<1>3. evaluated \in GoldState
  BY <1>0, GoldType DEF TypeOK, evaluated, GoldState
<1>4. CASE Abandon
  <2>1. is_test_success' \in BOOLEAN
    BY <1>4, Zenon DEF Abandon
  <2> QED
    BY <1>3, <1>4, <2>1 DEF TypeOK, Abandon, coreVars
<1>5. CASE Finish
  <2>1. is_test_success' \in BOOLEAN
    BY <1>5, Zenon DEF Finish, Compared
  <2> QED
    BY <1>3, <1>5, <2>1 DEF TypeOK, Finish, Compared, coreVars
<1>6. CASE Continue
  <2>1. is_test_success' \in BOOLEAN
    BY <1>6, Zenon DEF Continue, Compared
  <2> QED
    BY <1>3, <1>6, <2>1 DEF TypeOK, Continue, Compared, coreVars
<1>7. CASE UNCHANGED vars
  BY <1>7 DEF TypeOK, vars, coreVars, benchVars
<1> QED
  BY <1>1, <1>2, <1>4, <1>5, <1>6, <1>7 DEF Next

\* The types hold before the first test.
LEMMA TypeInit == Init => TypeOK
<1> SUFFICES ASSUME Init PROVE TypeOK
  OBVIOUS
<1>1. INITIAL_PC \in Data /\ regs \in Regs /\ mem \in Mem
  BY BenchAssumption, IsaAssumption DEF Init, Regs, Reg
<1>2. gcpu \in GoldState
  BY <1>1 DEF Init, GoldState
<1> QED
  BY <1>1, <1>2 DEF Init, TypeOK, ExuState

(***************************************************************************)
(* Both sides keep their types: among others a register that is written    *)
(* gets a word, x0 stays zero in both register files (exu.sv and           *)
(* gcpu.cpp), and no store leaves the memory.                              *)
(***************************************************************************)
THEOREM TypeCorrect == Spec => []TypeOK
BY TypeInit, TypeStep, PTL DEF Spec

-----------------------------------------------------------------------------
(* The inductive invariant: where the instruction is, and what the two     *)
(* sides have in common while the CPU runs, after it, and between tests.   *)

Quiet   == ~is_start /\ ~ifu_busy /\ ~idu_respValid /\ ~lsu_busy
           /\ exu_state \in {"START", "EXECUTE"}
AtReset == is_start /\ ~ifu_reqValid /\ ~ifu_busy /\ ~idu_respValid /\ ~lsu_busy
           /\ exu_state = "RESET"
Asked   == ifu_reqValid /\ Quiet
Fetching == ~is_start /\ ~ifu_reqValid /\ ifu_busy /\ ~idu_respValid /\ ~lsu_busy
            /\ exu_state = "STALL_IDU"
Decoded == ~is_start /\ ~ifu_reqValid /\ ~ifu_busy /\ idu_respValid /\ ~lsu_busy
           /\ exu_state = "STALL_IDU"
AtLsu   == ~is_start /\ ~ifu_reqValid /\ ~ifu_busy /\ ~idu_respValid /\ lsu_busy
           /\ exu_state = "STALL_LSU"

ExecInv == phase = "exec" =>
  /\ AtReset \/ Asked \/ Fetching \/ Decoded \/ AtLsu
  /\ exu_state = "EXECUTE" => d_type # INST_EBREAK
  /\ Decoded \/ AtLsu => idu_inst = code[pc]
  /\ AtLsu => is_lsu_inst(d_type)
  /\ pc = gcpu.pc /\ regs = gcpu.regs /\ mem = gcpu.mem /\ ~gcpu.is_not_mapped
  /\ ~ebreak /\ minstret = minstret_start /\ instrets = minstret + 1

EvalInv == phase = "eval" =>
  /\ Asked /\ exu_state = "EXECUTE" /\ idu_inst = code[gcpu.pc]
  /\ mem = evaluated.mem
  /\ evaluated.is_not_mapped \/ (pc = evaluated.pc /\ regs = evaluated.regs)
  /\ ~gcpu.is_not_mapped
  /\ ~ebreak /\ minstret = instrets

OverInv == phase = "over" => Quiet /\ mem = gcpu.mem

IInv == TypeOK /\ ExecInv /\ EvalInv /\ OverInv /\ is_test_success

\* What a cycle does to the instruction in the CPU.
LEMMA EdgeMoves ==
  ASSUME TypeOK, NEW i \in BOOLEAN, NEW l \in BOOLEAN, Edge(i, l)
  PROVE  /\ AtReset => Asked' /\ exu_state' = "START" /\ ~l
         /\ Asked \/ Fetching => ~l /\ (Fetching' \/ (Decoded' /\ idu_inst' = code[pc]))
         /\ Decoded \/ (AtLsu /\ is_lsu_inst(d_type)) =>
              /\ idu_inst' = idu_inst
              /\ \/ ~Retires(l) /\ AtLsu' /\ is_lsu_inst(d_type) /\ ~l
                 \/ Retires(l) /\ Asked' /\ exu_state' = "EXECUTE" /\ (l <=> is_lsu_inst(d_type))
<1> USE DEF TypeOK, Retires, Handed, Fetches, lsu_reqValid
<1>1. /\ i => ifu_reqValid \/ ifu_busy
      /\ l => lsu_reqValid \/ lsu_busy
      /\ ifu_busy' <=> (ifu_reqValid \/ ifu_busy) /\ ~i
      /\ lsu_busy' <=> (lsu_reqValid \/ lsu_busy) /\ ~l
      /\ ifu_reqValid' <=> Fetches(l)
      /\ ~is_start'
      /\ idu_respValid' <=> i
      /\ idu_inst' = IF i THEN code[pc] ELSE idu_inst
  BY Zenon DEF Edge, Idu
<1>2. \/ exu_state = "RESET" /\ exu_state' = "START"
      \/ ~idu_respValid /\ exu_state \in {"START", "STALL_IDU", "EXECUTE"} /\ exu_state' = "STALL_IDU"
      \/ ~l /\ ((Handed /\ is_lsu_inst(d_type)) \/ exu_state = "STALL_LSU") /\ exu_state' = "STALL_LSU"
      \/ Retires(l) /\ exu_state' = "EXECUTE"
  BY Zenon DEF Edge, Exu, ExuStart, ExuNoInst, ExuStall, ExuExecute
<1>3. AtReset => Asked' /\ exu_state' = "START" /\ ~l
  BY <1>1, <1>2 DEF AtReset, Asked, Quiet
<1>4. Asked \/ Fetching => ~l /\ (Fetching' \/ (Decoded' /\ idu_inst' = code[pc]))
  BY <1>1, <1>2 DEF Asked, Quiet, Fetching, Decoded
<1>5. Decoded \/ (AtLsu /\ is_lsu_inst(d_type)) =>
        /\ idu_inst' = idu_inst
        /\ \/ ~Retires(l) /\ AtLsu' /\ is_lsu_inst(d_type) /\ ~l
           \/ Retires(l) /\ Asked' /\ exu_state' = "EXECUTE" /\ (l <=> is_lsu_inst(d_type))
  BY <1>1, <1>2 DEF Asked, Quiet, AtLsu, Decoded
<1> QED
  BY <1>3, <1>4, <1>5

\* The invariant over a cycle of vsoc_fetch_exec.
LEMMA CycleStep ==
  ASSUME IInv, NEW i \in BOOLEAN, NEW l \in BOOLEAN, Cycle(i, l)
  PROVE  ExecInv' /\ EvalInv' /\ OverInv' /\ is_test_success'
<1>1. /\ phase = "exec" /\ Edge(i, l) /\ phase' = IF Fetched THEN "eval" ELSE "exec"
      /\ UNCHANGED <<gcpu, instrets, minstret_start, is_test_success>>
  BY Zenon DEF Cycle
<1>2. TypeOK /\ is_test_success' /\ code' = code
  BY <1>1, Zenon DEF IInv, Edge
<1>3. /\ AtReset \/ Asked \/ Fetching \/ Decoded \/ AtLsu
      /\ exu_state = "EXECUTE" => d_type # INST_EBREAK
      /\ Decoded \/ AtLsu => idu_inst = code[pc]
      /\ AtLsu => is_lsu_inst(d_type)
      /\ pc = gcpu.pc /\ regs = gcpu.regs /\ mem = gcpu.mem /\ ~gcpu.is_not_mapped
      /\ ~ebreak /\ minstret = minstret_start /\ instrets = minstret + 1
  BY <1>1, Zenon DEF IInv, ExecInv
<1>4. ~ebreak'
  <2>1. ebreak' = (ebreak \/ (d_type = INST_EBREAK /\ exu_state = "EXECUTE"))
    BY <1>1, Zenon DEF Edge
  <2> QED
    BY <1>3, <2>1
<1>5. mem' = IF l THEN mem_after(idu_inst, pc, regs, mem) ELSE mem
  BY <1>1, Zenon DEF Edge
\* An instruction retires: what it left is what the golden model will leave.
<1>6. ASSUME exu_state' = "EXECUTE"
      PROVE  ExecInv' /\ EvalInv' /\ OverInv'
  <2>1. /\ Asked' /\ idu_inst' = idu_inst /\ idu_inst = code[gcpu.pc]
        /\ l <=> is_lsu_inst(d_type)
    BY <1>1, <1>2, <1>3, <1>6, EdgeMoves DEF AtReset, Asked, Quiet, Fetching, Decoded, AtLsu
  <2>2. /\ minstret' = minstret + 1
        /\ pc' = pc_next(idu_inst, pc, regs)
        /\ \E csr \in Data :
             regs' = rf_write(regs, writes_rd(idu_type(idu_inst)), idu_inst.rd,
                              rf_wdata(idu_inst, pc, regs, mem, csr))
    BY <1>1, <1>2, <1>6, EdgeWrites
  <2>3. evaluated' = cpu_eval(gcpu, idu_inst) /\ idu_inst \in Inst /\ gcpu \in GoldState
    BY <1>1, <1>2, <2>1 DEF evaluated, TypeOK
  <2>4. mem' = evaluated'.mem
    <3>1. mem' = mem_after(idu_inst, pc, regs, mem)
      BY <1>5, <2>1, <2>3, TypeHi DEF mem_after, d_type
    <3>2. cpu_eval(gcpu, idu_inst).mem = mem_after(idu_inst, gcpu.pc, gcpu.regs, gcpu.mem)
      BY <2>3, StoreAgree
    <3> QED
      BY <1>3, <2>3, <3>1, <3>2
  <2>5. evaluated'.is_not_mapped \/ (pc' = evaluated'.pc /\ regs' = evaluated'.regs)
    <3>1. CASE NotMapped(gcpu, idu_inst)
      <4>1. cpu_eval(gcpu, idu_inst).is_not_mapped = (gcpu.is_not_mapped \/ NotMapped(gcpu, idu_inst))
        BY Zenon DEF cpu_eval
      <4> QED
        BY <2>3, <3>1, <4>1
    <3>2. CASE ~NotMapped(gcpu, idu_inst)
      <4>1. PICK csr \in Data :
              regs' = rf_write(regs, writes_rd(idu_type(idu_inst)), idu_inst.rd,
                               rf_wdata(idu_inst, pc, regs, mem, csr))
        BY <2>2
      <4>2. /\ cpu_eval(gcpu, idu_inst).pc = pc_next(idu_inst, gcpu.pc, gcpu.regs)
            /\ cpu_eval(gcpu, idu_inst).regs
                 = rf_write(gcpu.regs, writes_rd(idu_type(idu_inst)), idu_inst.rd,
                            rf_wdata(idu_inst, gcpu.pc, gcpu.regs, gcpu.mem, csr))
        BY <2>3, <3>2, EvalAgree
      <4> QED
        BY <1>3, <2>2, <2>3, <4>1, <4>2
    <3> QED
      BY <3>1, <3>2
  <2>6. phase' = "eval"
    BY <1>1, <1>2, <1>3, <2>2 DEF Fetched, TypeOK
  <2>7. EvalInv'
    BY <1>1, <1>2, <1>3, <1>4, <1>6, <2>1, <2>2, <2>4, <2>5 DEF EvalInv, TypeOK
  <2> QED
    BY <2>6, <2>7 DEF ExecInv, OverInv
\* It is on its way: the two sides still agree.
<1>7. ASSUME exu_state' # "EXECUTE"
      PROVE  ExecInv' /\ EvalInv' /\ OverInv'
  <2>1. minstret' = minstret /\ pc' = pc /\ regs' = regs
    BY <1>1, <1>2, <1>7, EdgeWrites
  <2>2. /\ AtReset' \/ Asked' \/ Fetching' \/ Decoded' \/ AtLsu'
        /\ Decoded' \/ AtLsu' => idu_inst' = code[pc]
        /\ AtLsu' => is_lsu_inst(d_type) /\ idu_inst' = idu_inst
        /\ ~l
    BY <1>1, <1>2, <1>3, <1>7, EdgeMoves DEF AtReset, Asked, Quiet, Fetching, Decoded, AtLsu
  <2>3. mem' = mem
    BY <1>5, <2>2
  <2>4. phase' = "exec"
    BY <1>1, <1>3, <1>4, <2>1 DEF Fetched
  <2>5. AtLsu' => is_lsu_inst(d_type')
    BY <2>2 DEF d_type
  <2>6. ExecInv'
    BY <1>1, <1>2, <1>3, <1>4, <1>7, <2>1, <2>2, <2>3, <2>5 DEF ExecInv
  <2> QED
    BY <2>4, <2>6 DEF EvalInv, OverInv
<1> QED
  BY <1>2, <1>6, <1>7

\* What the bench finds when it compares in a random test.
LEMMA Agreement ==
  ASSUME IInv, phase = "eval", ~evaluated.is_not_mapped
  PROVE  /\ CountsAgree /\ compare_vsoc_gold /\ evaluated.mem = mem
         /\ ~evaluated.ebreak /\ d_type # INST_EBREAK
<1>1. /\ Asked /\ exu_state = "EXECUTE" /\ idu_inst = code[gcpu.pc]
      /\ mem = evaluated.mem
      /\ pc = evaluated.pc /\ regs = evaluated.regs
      /\ ~ebreak /\ minstret = instrets
  BY Zenon DEF IInv, EvalInv
<1>2. evaluated = cpu_eval(gcpu, idu_inst) /\ idu_inst \in Inst /\ gcpu \in GoldState
  BY <1>1 DEF evaluated, IInv, TypeOK
<1>3. ~NotMapped(gcpu, idu_inst)
  <2>1. cpu_eval(gcpu, idu_inst).is_not_mapped = (gcpu.is_not_mapped \/ NotMapped(gcpu, idu_inst))
    BY Zenon DEF cpu_eval
  <2> QED
    BY <1>2, <2>1, Zenon
<1>4. ~dec_ebreak(idu_inst) /\ d_type # INST_EBREAK
  BY <1>2, <1>3, SystemNotMapped DEF d_type
<1>5. evaluated.ebreak = dec_ebreak(idu_inst)
  BY <1>2, Zenon DEF cpu_eval
<1>6. ebreak = evaluated.ebreak
  BY <1>1, <1>2, <1>4, <1>5 DEF IInv, TypeOK, dec_ebreak
<1> QED
  BY <1>1, <1>4, <1>5, <1>6, Zenon DEF CountsAgree, compare_vsoc_gold

\* The invariant is inductive when the tests are random.
LEMMA IInvStep == ASSUME is_random PROVE IInv /\ [Next]_vars => IInv'
<1> SUFFICES ASSUME IInv, [Next]_vars PROVE IInv'
  OBVIOUS
<1>0. TypeOK'
  BY TypeStep DEF IInv
<1>1. CASE NewTest
  <2>1. phase' = "exec" /\ is_test_success'
    BY <1>1 DEF NewTest
  <2>2. Quiet /\ mem = gcpu.mem
    BY <1>1 DEF NewTest, IInv, OverInv
  <2>3. AtReset' /\ exu_state' = "RESET"
    BY <1>1, <2>2 DEF NewTest, Reset, AtReset, Quiet
  <2>4. /\ gcpu'.pc = INITIAL_PC /\ gcpu'.regs = [r \in Reg |-> Zero] /\ gcpu'.mem = gcpu.mem
        /\ ~gcpu'.is_not_mapped
    BY <1>1 DEF NewTest, g_reset
  <2>5. /\ pc' = INITIAL_PC /\ regs' = [r \in Reg |-> Zero] /\ mem' = mem /\ ~ebreak'
        /\ minstret' = 0 /\ minstret_start' = 0 /\ instrets' = 1
    BY <1>1 DEF NewTest, Reset
  <2>6. ExecInv'
    BY <2>2, <2>3, <2>4, <2>5 DEF ExecInv, AtReset, Decoded, AtLsu
  <2> QED
    BY <1>0, <2>1, <2>6 DEF IInv, EvalInv, OverInv
<1>2. ASSUME NEW i \in BOOLEAN, NEW l \in BOOLEAN, Cycle(i, l)
      PROVE  IInv'
  BY <1>0, <1>2, CycleStep DEF IInv
<1>3. CASE Abandon
  <2>1. /\ phase = "eval" /\ phase' = "over" /\ gcpu' = evaluated
        /\ is_test_success' = (is_test_success /\ CountsAgree) /\ UNCHANGED coreVars
    BY <1>3, Zenon DEF Abandon
  <2>2. Asked /\ mem = evaluated.mem /\ minstret = instrets
    BY <2>1 DEF IInv, EvalInv
  <2>3. is_test_success'
    BY <2>1, <2>2, Zenon DEF IInv, CountsAgree
  <2>4. OverInv'
    BY <2>1, <2>2 DEF OverInv, Asked, Quiet, coreVars
  <2> QED
    BY <1>0, <2>1, <2>3, <2>4 DEF IInv, ExecInv, EvalInv
<1>4. ASSUME Compared, phase' \in {"exec", "over"}
      PROVE  /\ is_test_success' /\ gcpu' = evaluated /\ UNCHANGED coreVars
             /\ Asked' /\ exu_state' = "EXECUTE" /\ d_type' # INST_EBREAK
             /\ pc' = gcpu'.pc /\ regs' = gcpu'.regs /\ mem' = gcpu'.mem
             /\ ~gcpu'.is_not_mapped /\ ~ebreak' /\ minstret = instrets
  <2>1. /\ phase = "eval" /\ ~evaluated.is_not_mapped
        /\ gcpu' = evaluated /\ UNCHANGED coreVars
        /\ is_test_success' = (is_test_success /\ CountsAgree /\ compare_vsoc_gold)
    BY <1>4, Zenon DEF Compared
  <2>2. /\ Asked /\ exu_state = "EXECUTE" /\ ~ebreak /\ minstret = instrets
        /\ pc = evaluated.pc /\ regs = evaluated.regs
    BY <2>1, Zenon DEF IInv, EvalInv
  <2>3. is_test_success'
    BY <2>1, Agreement, Zenon DEF IInv
  <2>4. Asked' /\ d_type' # INST_EBREAK
    BY <2>1, <2>2, Agreement DEF Asked, Quiet, coreVars, d_type
  <2> QED
    BY <2>1, <2>2, <2>3, <2>4, Agreement DEF coreVars
<1>5. CASE Finish
  <2>1. phase' = "over" /\ Compared
    BY <1>5 DEF Finish
  <2> QED
    BY <1>0, <1>4, <2>1 DEF IInv, ExecInv, EvalInv, OverInv, Asked
<1>6. CASE Continue
  <2>1. phase' = "exec" /\ Compared /\ instrets' = instrets + 1 /\ minstret_start' = minstret
    BY <1>6 DEF Continue
  <2>2. ExecInv'
    BY <1>4, <2>1 DEF ExecInv, Asked, Quiet, Decoded, AtLsu, coreVars
  <2> QED
    BY <1>0, <1>4, <2>1, <2>2 DEF IInv, EvalInv, OverInv
<1>7. CASE UNCHANGED vars
  BY <1>0, <1>7 DEF IInv, ExecInv, EvalInv, OverInv, AtReset, Asked, Quiet, Fetching, Decoded,
                    AtLsu, d_type, evaluated, vars, coreVars, benchVars
<1> QED
  BY <1>1, <1>2, <1>3, <1>5, <1>6, <1>7 DEF Next

\* It holds before the first test.
LEMMA IInvInit == Init => IInv
BY TypeInit DEF Init, IInv, ExecInv, EvalInv, OverInv, Quiet

\* It is an invariant of random tests.
LEMMA Invariance == ASSUME is_random PROVE Spec => []IInv
BY IInvInit, IInvStep, PTL DEF Spec

(***************************************************************************)
(* No random test fails (EveryTestPasses, soc_main.cpp:801-813 and         *)
(* 1003-1005): CPU and golden model agree after every instruction of every *)
(* program, whatever the words, the arithmetic and the memory are and      *)
(* however long the SoC takes.                                             *)
(***************************************************************************)
THEOREM RandomTestsPass == ASSUME is_random PROVE Spec => []EveryTestPasses
<1>1. IInv => EveryTestPasses
  BY DEF IInv, EveryTestPasses
<1> QED
  BY <1>1, Invariance, PTL

-----------------------------------------------------------------------------
(* Where the instruction is, in any test.  In one that is not random the   *)
(* two sides need not agree: the CPU takes an ecall for an ebreak, counts  *)
(* that one when it has asked for the next instruction, and the bench      *)
(* compares while this one is being fetched.  Then the flags differ or, if *)
(* the next is an ebreak too, the pcs: the test fails, no reset follows.   *)

PExec == phase = "exec" =>
  /\ AtReset \/ Asked \/ Fetching \/ Decoded \/ AtLsu
  /\ AtLsu => is_lsu_inst(d_type)
  /\ pc = gcpu.pc /\ ~ebreak /\ minstret = minstret_start

Doomed == ~is_random /\ (Fetching \/ Decoded) /\ ebreak /\ pc = gcpu.pc

PEval == phase = "eval" => (Asked /\ exu_state = "EXECUTE" /\ ~ebreak) \/ Doomed

POver == phase = "over" => Quiet \/ (~is_test_success /\ (Fetching \/ Decoded))

PInv == TypeOK /\ PExec /\ PEval /\ POver

LEMMA CyclePlaces ==
  ASSUME is_random => IInv, PInv, NEW i \in BOOLEAN, NEW l \in BOOLEAN, Cycle(i, l)
  PROVE  /\ PExec' /\ PEval' /\ POver'
         /\ phase' = "eval" \/ exu_state' # "EXECUTE"
<1>1. /\ phase = "exec" /\ Edge(i, l) /\ phase' = IF Fetched THEN "eval" ELSE "exec"
      /\ UNCHANGED <<gcpu, minstret_start>>
  BY Zenon DEF Cycle
<1>2. /\ TypeOK
      /\ AtReset \/ Asked \/ Fetching \/ Decoded \/ AtLsu
      /\ AtLsu => is_lsu_inst(d_type)
      /\ pc = gcpu.pc /\ ~ebreak /\ minstret = minstret_start
  BY <1>1, Zenon DEF PInv, PExec
<1>3. ebreak' <=> d_type = INST_EBREAK /\ exu_state = "EXECUTE"
  <2>1. ebreak' = (ebreak \/ (d_type = INST_EBREAK /\ exu_state = "EXECUTE"))
    BY <1>1, Zenon DEF Edge
  <2> QED
    BY <1>2, <2>1
<1>4. CASE exu_state' = "EXECUTE"
  <2>1. Asked' /\ (Decoded \/ AtLsu)
    BY <1>1, <1>2, <1>4, EdgeMoves DEF AtReset, Asked, Quiet, Fetching, Decoded, AtLsu
  <2>2. ~ebreak'
    BY <1>3, <2>1 DEF Decoded, AtLsu
  <2>3. minstret' = minstret + 1
    BY <1>1, <1>2, <1>4, EdgeWrites
  <2>4. phase' = "eval"
    BY <1>1, <1>2, <2>3 DEF Fetched, TypeOK
  <2> QED
    BY <1>4, <2>1, <2>2, <2>4 DEF PExec, PEval, POver
<1>5. CASE exu_state' # "EXECUTE"
  <2>1. /\ AtReset' \/ Asked' \/ Fetching' \/ Decoded' \/ AtLsu'
        /\ AtLsu' => is_lsu_inst(d_type) /\ idu_inst' = idu_inst
        /\ Asked => Fetching' \/ Decoded'
    BY <1>1, <1>2, <1>5, EdgeMoves DEF AtReset, Asked, Quiet, Fetching, Decoded, AtLsu
  <2>2. minstret' = minstret /\ pc' = pc /\ gcpu' = gcpu
    BY <1>1, <1>2, <1>5, EdgeWrites
  <2>3. AtLsu' => is_lsu_inst(d_type')
    BY <2>1 DEF d_type
  <2>4. CASE ebreak'
    <3>1. Asked /\ phase' = "eval"
      BY <1>1, <1>2, <1>3, <2>4 DEF Fetched, AtReset, Fetching, Decoded, AtLsu
    <3>2. ~is_random
      BY <1>1, <1>3, <2>4 DEF IInv, ExecInv
    <3> QED
      BY <1>2, <1>5, <2>1, <2>2, <2>4, <3>1, <3>2 DEF PExec, PEval, POver, Doomed
  <2>5. CASE ~ebreak'
    <3>1. phase' = "exec"
      BY <1>1, <1>2, <2>2, <2>5 DEF Fetched
    <3> QED
      BY <1>1, <1>2, <1>5, <2>1, <2>2, <2>3, <2>5, <3>1 DEF PExec, PEval, POver
  <2> QED
    BY <2>4, <2>5
<1> QED
  BY <1>4, <1>5

\* What the bench finds in a test that goes on.
LEMMA Passes ==
  ASSUME PInv, Compared, is_test_success'
  PROVE  /\ Asked /\ exu_state = "EXECUTE" /\ ~ebreak
         /\ UNCHANGED coreVars /\ gcpu' = evaluated /\ pc = gcpu'.pc
<1>1. /\ phase = "eval" /\ gcpu' = evaluated /\ UNCHANGED coreVars
      /\ is_test_success' = (is_test_success /\ CountsAgree /\ compare_vsoc_gold)
  BY Zenon DEF Compared
<1>2. ebreak = evaluated.ebreak /\ pc = evaluated.pc
  BY <1>1, Zenon DEF compare_vsoc_gold
<1>3. ASSUME Doomed PROVE FALSE
  <2> DEFINE i == code[gcpu.pc]
  <2>1. i \in Inst /\ gcpu \in GoldState /\ gcpu.pc \in Data
    BY BenchAssumption DEF PInv, TypeOK, GoldState
  <2>2. dec_ebreak(i)
    BY <1>2, <1>3, Zenon DEF evaluated, cpu_eval, Doomed
  <2>3. inst_type(i) = "NONE"
    BY <2>1, <2>2, TypeOf DEF dec_ebreak
  <2>4. evaluated.pc = Plus4(gcpu.pc)
    BY <2>3 DEF evaluated, cpu_eval, pc_jump
  <2> QED
    BY <1>2, <1>3, <2>1, <2>4, ArithmeticAssumption DEF Doomed
<1> QED
  BY <1>1, <1>2, <1>3 DEF PInv, PEval

LEMMA PInvStep == (is_random => IInv) /\ PInv /\ [Next]_vars => PInv'
<1> SUFFICES ASSUME is_random => IInv, PInv, [Next]_vars PROVE PInv'
  OBVIOUS
<1>0. TypeOK'
  BY TypeStep DEF PInv
<1>1. CASE NewTest
  <2>1. /\ phase = "over" /\ phase' = "exec" /\ is_test_success
        /\ gcpu' = g_reset(gcpu, INITIAL_PC) /\ minstret_start' = 0 /\ Reset
    BY <1>1, Zenon DEF NewTest
  <2>2. Quiet
    BY <2>1 DEF PInv, POver
  <2>3. AtReset' /\ ~lsu_busy' /\ pc' = gcpu'.pc /\ ~ebreak' /\ minstret' = minstret_start'
    BY <2>1, <2>2 DEF Reset, g_reset, AtReset, Quiet
  <2> QED
    BY <1>0, <2>1, <2>3 DEF PInv, PExec, PEval, POver, AtLsu
<1>2. ASSUME NEW i \in BOOLEAN, NEW l \in BOOLEAN, Cycle(i, l)
      PROVE  PInv'
  BY <1>0, <1>2, CyclePlaces DEF PInv
<1>3. CASE Abandon
  <2>1. phase = "eval" /\ phase' = "over" /\ is_random /\ UNCHANGED coreVars
    BY <1>3, Zenon DEF Abandon
  <2>2. Quiet
    BY <2>1 DEF PInv, PEval, Doomed, Asked
  <2> QED
    BY <1>0, <2>1, <2>2 DEF PInv, PExec, PEval, POver, Quiet, coreVars
<1>4. CASE Finish
  <2>1. phase = "eval" /\ phase' = "over" /\ Compared /\ UNCHANGED coreVars
    BY <1>4, Zenon DEF Finish, Compared
  <2>2. Quiet \/ (~is_test_success' /\ (Fetching \/ Decoded))
    BY <2>1, Passes DEF PInv, PEval, Doomed, Asked
  <2> QED
    BY <1>0, <2>1, <2>2 DEF PInv, PExec, PEval, POver, Quiet, Fetching, Decoded, coreVars
<1>5. CASE Continue
  <2>1. phase' = "exec" /\ Compared /\ is_test_success' /\ minstret_start' = minstret
    BY <1>5, Zenon DEF Continue, Ends
  <2>2. Asked /\ ~ebreak /\ UNCHANGED coreVars /\ pc = gcpu'.pc
    BY <2>1, Passes
  <2>3. Asked' /\ ~AtLsu' /\ pc' = gcpu'.pc /\ ~ebreak' /\ minstret' = minstret_start'
    BY <2>1, <2>2 DEF Asked, Quiet, AtLsu, coreVars
  <2> QED
    BY <1>0, <2>1, <2>3 DEF PInv, PExec, PEval, POver
<1>6. CASE UNCHANGED vars
  BY <1>0, <1>6 DEF PInv, PExec, PEval, POver, Doomed, AtReset, Asked, Quiet, Fetching, Decoded,
                    AtLsu, d_type, vars, coreVars, benchVars
<1> QED
  BY <1>1, <1>2, <1>3, <1>4, <1>5, <1>6 DEF Next

LEMMA PInvInit == Init => PInv
BY TypeInit DEF Init, PInv, PExec, PEval, POver, Quiet

\* In random tests the two sides agree, in others only the places are known.
LEMMA Places == Spec => [](PInv /\ (is_random => IInv))
<1>1. CASE is_random
  BY <1>1, PInvInit, PInvStep, Invariance, IInvInit, IInvStep, PTL DEF Spec
<1>2. CASE ~is_random
  BY <1>2, PInvInit, PInvStep, PTL DEF Spec
<1> QED
  BY <1>1, <1>2

(***************************************************************************)
(* The CPU (cpu.sv) has one instruction, in one place, so no unit is asked *)
(* while it is busy and no register is overwritten while it is read.       *)
(***************************************************************************)
THEOREM OnePlace == Spec => []OneInstruction
<1>1. PInv => OneInstruction
  BY DEF PInv, TypeOK, PExec, PEval, POver, Doomed, OneInstruction, AtReset, Asked, Quiet,
         Fetching, Decoded, AtLsu
<1> QED
  BY <1>1, Places, PTL

(***************************************************************************)
(* No reset finds an instruction in the decoder, whose registers the reset *)
(* leaves as they are (idu.sv:28-30).                                      *)
(***************************************************************************)
THEOREM ResetIsClean == Spec => []ResetFindsNothing
<1>1. PInv => ResetFindsNothing
  BY DEF PInv, TypeOK, PExec, PEval, POver, Doomed, ResetFindsNothing, AtReset, Asked, Quiet,
         Fetching, Decoded, AtLsu
<1> QED
  BY <1>1, Places, PTL

-----------------------------------------------------------------------------
(* How far vsoc_fetch_exec is from its return: the instruction has to pass *)
(* the reset, the request, the wait for the fetch, the decoder and the LSU *)
(* and may skip some of them.                                              *)

StagesLeft ==
  CASE is_start      -> 5
    [] ifu_reqValid  -> 4
    [] ifu_busy      -> 3
    [] idu_respValid -> 2
    [] OTHER         -> 1

Advances ==
  \A i, l \in BOOLEAN : Cycle(i, l) =>
    \/ phase' = "eval"
    \/ StagesLeft' < StagesLeft
    \/ ifu_busy /\ ~i /\ StagesLeft' = StagesLeft
    \/ lsu_busy /\ ~l /\ StagesLeft' = StagesLeft

\* The stages are the places.
LEMMA StageOf ==
  ASSUME TypeOK
  PROVE  /\ AtReset => StagesLeft = 5
         /\ Asked => StagesLeft = 4
         /\ Fetching => StagesLeft = 3
         /\ Decoded => StagesLeft = 2
         /\ AtLsu => StagesLeft = 1
BY DEF TypeOK, StagesLeft, AtReset, Asked, Quiet, Fetching, Decoded, AtLsu

(***************************************************************************)
(* In vsoc_fetch_exec (soc_main.cpp) no turn of the loop is lost: at every *)
(* edge the instruction is a stage nearer to its retirement, unless it is  *)
(* at the IFU or at the LSU and the SoC has not answered.  So nothing but  *)
(* the SoC can keep the loop from returning, in any test.                  *)
(***************************************************************************)
THEOREM EveryEdgeAdvances == Spec => [][Advances]_vars
<1>1. ASSUME is_random => IInv, PInv, TypeOK', NEW i \in BOOLEAN, NEW l \in BOOLEAN, Cycle(i, l)
      PROVE  \/ phase' = "eval"
             \/ StagesLeft' < StagesLeft
             \/ ifu_busy /\ ~i /\ StagesLeft' = StagesLeft
             \/ lsu_busy /\ ~l /\ StagesLeft' = StagesLeft
  <2>1. /\ TypeOK /\ Edge(i, l)
        /\ AtReset \/ Asked \/ Fetching \/ Decoded \/ AtLsu
        /\ AtLsu => is_lsu_inst(d_type)
    BY <1>1, Zenon DEF PInv, PExec, Cycle
  <2>2. phase' = "eval" \/ exu_state' # "EXECUTE"
    BY <1>1, CyclePlaces
  <2>3. /\ Asked' => StagesLeft' = 4
        /\ Fetching' => StagesLeft' = 3
        /\ Decoded' => StagesLeft' = 2
        /\ AtLsu' => StagesLeft' = 1
    BY <1>1 DEF TypeOK, StagesLeft, Asked, Quiet, Fetching, Decoded, AtLsu
  <2>4. CASE AtReset
    BY <1>1, <2>1, <2>4, EdgeMoves, StageOf, <2>3
  <2>5. CASE Asked
    BY <1>1, <2>1, <2>5, EdgeMoves, StageOf, <2>3
  <2>6. CASE Fetching
    <3>1. ifu_busy /\ (Fetching' => ~i)
      BY <2>1, <2>6 DEF Edge, Fetching
    <3> QED
      BY <1>1, <2>1, <2>6, <3>1, EdgeMoves, StageOf, <2>3
  <2>7. CASE Decoded
    BY <1>1, <2>1, <2>2, <2>7, EdgeMoves, StageOf, <2>3
  <2>8. CASE AtLsu
    <3>1. lsu_busy
      BY <2>8 DEF AtLsu
    <3> QED
      BY <1>1, <2>1, <2>2, <2>8, <3>1, EdgeMoves, StageOf, <2>3
  <2> QED
    BY <2>1, <2>4, <2>5, <2>6, <2>7, <2>8
<1>2. (is_random => IInv) /\ PInv /\ [Next]_vars => TypeOK'
  BY TypeStep DEF PInv
<1>3. (is_random => IInv) /\ PInv /\ [Next]_vars => [Advances]_vars
  BY <1>1, <1>2, Zenon DEF Advances
<1> QED
  BY <1>3, Places, PTL DEF Spec

-----------------------------------------------------------------------------
(* The arithmetic of 32-bit words.                                         *)

A32 == INSTANCE Alu WITH W <- 32

\* The first positions of a word, which are numbered from 0.
LEMMA LowPowers ==
  /\ 2^0 = 1 /\ 2^1 = 2 /\ 2^2 = 4 /\ 2^3 = 8 /\ 2^4 = 16
  /\ \A k \in 5 .. 31 : 2^k \in Nat /\ 2^k > 31
<1> DEFINE P(k) == 2^k \in Nat /\ 2^k > 31
<1>1. 2^0 = 1 /\ 2^1 = 2 /\ 2^2 = 4 /\ 2^3 = 8 /\ 2^4 = 16
  OBVIOUS
<1>2. /\ P(5) /\ P(6) /\ P(7) /\ P(8) /\ P(9) /\ P(10) /\ P(11) /\ P(12) /\ P(13)
      /\ P(14) /\ P(15) /\ P(16) /\ P(17) /\ P(18) /\ P(19) /\ P(20) /\ P(21) /\ P(22)
      /\ P(23) /\ P(24) /\ P(25) /\ P(26) /\ P(27) /\ P(28) /\ P(29) /\ P(30) /\ P(31)
  OBVIOUS
<1>3. ASSUME NEW k \in 5 .. 31 PROVE P(k)
  <2> HIDE DEF P
  <2>1. k \in {5, 6, 7, 8, 9, 10, 11, 12, 13, 14, 15, 16, 17, 18, 19, 20, 21, 22, 23, 24,
               25, 26, 27, 28, 29, 30, 31}
    OBVIOUS
  <2> QED
    BY <1>2, <2>1, Zenon
<1> QED
  BY <1>1, <1>3

\* The shift amount, rhs[4:0], is the number of the five low bits.
LEMMA ShiftAmount ==
  ASSUME NEW rhs \in A32!Words
  PROVE  A32!shamt(rhs) \in A32!Bit
<1> DEFINE b(k) == IF k \in rhs THEN 1 ELSE 0
           n == b(0) + 2 * b(1) + 4 * b(2) + 8 * b(3) + 16 * b(4)
<1>1. PICK b0 \in {0, 1}, b1 \in {0, 1}, b2 \in {0, 1}, b3 \in {0, 1}, b4 \in {0, 1} :
        /\ b0 = b(0) /\ b1 = b(1) /\ b2 = b(2) /\ b3 = b(3) /\ b4 = b(4)
  OBVIOUS
<1>2. n \in 0 .. 31 /\ n = b0 + 2 * b1 + 4 * b2 + 8 * b3 + 16 * b4
  BY <1>1
<1> HIDE DEF n
<1>3. ASSUME NEW k \in 0 .. 31
      PROVE  ((n \div 2^k) % 2 = 1) <=> (k \in rhs /\ (31 \div 2^k) % 2 = 1)
  <2>1. CASE k = 0
    BY <1>1, <1>2, <2>1, LowPowers
  <2>2. CASE k = 1
    BY <1>1, <1>2, <2>2, LowPowers
  <2>3. CASE k = 2
    BY <1>1, <1>2, <2>3, LowPowers
  <2>4. CASE k = 3
    BY <1>1, <1>2, <2>4, LowPowers
  <2>5. CASE k = 4
    BY <1>1, <1>2, <2>5, LowPowers
  <2>6. CASE k \in 5 .. 31
    <3>1. PICK p \in Nat : p = 2^k /\ p > 31
      BY <2>6, LowPowers
    <3>2. n \div p = 0 /\ 31 \div p = 0
      BY <1>2, <3>1
    <3> QED
      BY <3>1, <3>2
  <2> QED
    BY <2>1, <2>2, <2>3, <2>4, <2>5, <2>6
<1>4. A32!Word(n) = rhs \cap A32!Word(32 - 1)
  <2>1. 32 - 1 = 31
    OBVIOUS
  <2>2. A32!Bit = 0 .. 31
    BY <2>1 DEF A32!Bit
  <2>3. A32!Word(n) = {k \in 0 .. 31 : (n \div 2^k) % 2 = 1}
    BY <2>2 DEF A32!Word
  <2>4. A32!Word(32 - 1) = {k \in 0 .. 31 : (31 \div 2^k) % 2 = 1}
    BY <2>1, <2>2 DEF A32!Word
  <2>5. rhs \subseteq 0 .. 31
    BY <2>2 DEF A32!Words
  <2> QED
    BY <1>3, <2>3, <2>4, <2>5, Zenon
<1> QED
  BY <1>2, <1>4 DEF A32!shamt, A32!Bit

\* Two different words differ at a highest bit.
LEMMA HighestBit ==
  ASSUME NEW S \in SUBSET A32!Bit, S # {}
  PROVE  \E k \in S : \A j \in A32!Bit : j > k => j \notin S
<1> DEFINE R == OpToRel(<, Nat)
           T == {31 - k : k \in S}
<1>0. A32!Bit = 0 .. 31
  <2>1. 32 - 1 = 31
    OBVIOUS
  <2> QED
    BY <2>1 DEF A32!Bit
<1>1. T \in SUBSET Nat /\ T # {}
  <2>1. \A k \in S : k \in 0 .. 31
    BY <1>0
  <2>2. \A k \in 0 .. 31 : 31 - k \in Nat
    OBVIOUS
  <2>3. PICK k : k \in S
    OBVIOUS
  <2>4. 31 - k \in T
    BY <2>3
  <2> QED
    BY <2>1, <2>2, <2>4
<1>w. IsWellFoundedOn(R, Nat)
  BY NatLessThanWellFounded
<1>2. \A x, y \in Nat : <<x, y>> \in R <=> x < y
  BY DEF OpToRel
<1> HIDE DEF R
<1>3. PICK t \in T : \A y \in T : ~(<<y, t>> \in R)
  BY <1>1, <1>w, WFMin
<1>4. PICK k \in S : t = 31 - k
  OBVIOUS
<1>5. ASSUME NEW j \in 0 .. 31, j > k PROVE j \notin S
  <2> SUFFICES ASSUME j \in S PROVE FALSE
    OBVIOUS
  <2>1. 31 - j \in T /\ 31 - j \in Nat /\ t \in Nat
    BY <1>1
  <2>2. ~(31 - j < t)
    BY <1>2, <1>3, <2>1
  <2>3. k \in 0 .. 31
    BY <1>0
  <2> QED
    BY <1>4, <1>5, <2>2, <2>3
<1> QED
  BY <1>0, <1>5

\* The order of words is total and strict.
LEMMA LessIsTotal ==
  ASSUME NEW x \in A32!Words, NEW y \in A32!Words
  PROVE  A32!Less(x, y) <=> ~(x = y \/ A32!Less(y, x))
<1>0. x \subseteq A32!Bit /\ y \subseteq A32!Bit /\ A32!Bit \subseteq Int
  BY DEF A32!Words, A32!Bit
<1>1. ~(A32!Less(x, y) /\ A32!Less(y, x))
  <2> SUFFICES ASSUME A32!Less(x, y), A32!Less(y, x) PROVE FALSE
    OBVIOUS
  <2>1. PICK k \in y \ x : \A j \in A32!Bit : j > k => (j \in x <=> j \in y)
    BY DEF A32!Less
  <2>2. PICK i \in x \ y : \A j \in A32!Bit : j > i => (j \in y <=> j \in x)
    BY DEF A32!Less
  <2>3. k \in A32!Bit /\ i \in A32!Bit /\ k \in Int /\ i \in Int /\ k # i
    BY <1>0
  <2> QED
    BY <2>1, <2>2, <2>3
<1>2. ~A32!Less(x, x)
  BY DEF A32!Less
<1>3. ASSUME x # y PROVE A32!Less(x, y) \/ A32!Less(y, x)
  <2> DEFINE S == A32!Xor(x, y)
  <2>1. S \in SUBSET A32!Bit /\ S # {}
    BY <1>0, <1>3 DEF A32!Xor
  <2>2. PICK k \in S : \A j \in A32!Bit : j > k => j \notin S
    BY <2>1, HighestBit
  <2>3. \A j \in A32!Bit : j > k => (j \in x <=> j \in y)
    BY <2>2 DEF A32!Xor
  <2>4. k \in y \ x \/ k \in x \ y
    BY DEF A32!Xor
  <2> QED
    BY <2>3, <2>4 DEF A32!Less
<1> QED
  BY <1>1, <1>2, <1>3

\* Turning the sign over keeps words apart, and words.
LEMMA SignedLessIsTotal ==
  ASSUME NEW x \in A32!Words, NEW y \in A32!Words
  PROVE  A32!SignedLess(x, y) <=> ~(x = y \/ A32!SignedLess(y, x))
<1> DEFINE f(z) == A32!Xor(z, {32 - 1})
<1>1. f(x) \in A32!Words /\ f(y) \in A32!Words
  BY DEF A32!Words, A32!Bit, A32!Xor
<1>2. f(x) = f(y) => x = y
  <2> SUFFICES ASSUME f(x) = f(y), NEW k PROVE k \in x <=> k \in y
    BY DEF A32!Words
  <2>1. k \in f(x) <=> k \in f(y)
    OBVIOUS
  <2> QED
    BY <2>1 DEF A32!Xor
<1> HIDE DEF f
<1>3. A32!Less(f(x), f(y)) <=> ~(f(x) = f(y) \/ A32!Less(f(y), f(x)))
  BY <1>1, LessIsTotal
<1> QED
  BY <1>2, <1>3 DEF A32!SignedLess, f

\* The bits that sra32 sets are those that the sign is shifted into.
LEMMA ShiftsAgree ==
  ASSUME NEW u \in A32!Words, NEW s \in A32!Bit
  PROVE  /\ A32!Sra(u, s) = A32!sra32(u, s)
         /\ A32!Sra(u, s) \in A32!Words
<1>1. u \subseteq A32!Bit /\ A32!Bit = 0 .. 32 - 1
  BY DEF A32!Words, A32!Bit
<1>2. CASE s = 0
  <2>1. \A k \in A32!Bit : k + s = k /\ ~(k + s >= 32)
    BY <1>1, <1>2
  <2>2. A32!Sra(u, s) = {k \in A32!Bit : k \in u}
    BY <2>1 DEF A32!Sra
  <2>3. A32!Sra(u, s) = u
    BY <1>1, <2>2
  <2> QED
    BY <1>2, <2>3 DEF A32!sra32
<1>3. CASE s # 0 /\ 32 - 1 \notin u
  BY <1>1, <1>3 DEF A32!Sra, A32!sra32, A32!Shr, A32!Words
<1>4. CASE s # 0 /\ 32 - 1 \in u
  <2>1. A32!Sra(u, s) = {k \in 0 .. 31 : k + s \in u \/ k + s >= 32}
    BY <1>1, <1>4 DEF A32!Sra
  <2>2. A32!sra32(u, s) = {k \in 0 .. 31 : k + s \in u}
                            \cup {k \in 0 .. 31 : k - (32 - s) \in 0 .. 31}
    BY <1>1, <1>4 DEF A32!sra32, A32!Shr, A32!Shl
  <2>3. \A k \in 0 .. 31 : k - (32 - s) \in 0 .. 31 <=> k + s >= 32
    BY <1>1
  <2> QED
    BY <1>1, <2>1, <2>2, <2>3 DEF A32!Words
<1> QED
  BY <1>2, <1>3, <1>4

(***************************************************************************)
(* ArithmeticAssumption is so of the code: on 32-bit words the arithmetic  *)
(* of the CPU (alu.sv, com.sv) and that of the golden model (alu_eval and  *)
(* compare of gcpu.cpp, sra32 of riscv.cpp) give the same words and the    *)
(* same comparisons for every operation that the golden model has.         *)
(***************************************************************************)
THEOREM ArithmeticOf32Bits == A32!Agree
<1> SUFFICES ASSUME NEW l \in A32!Words, NEW r \in A32!Words
             PROVE  /\ A32!alu(11, l, r) = r
                    /\ \A op \in {0, 8, 1, 2, 3, 4, 5, 13, 6, 7} :
                         /\ A32!alu(op, l, r) = A32!alu_eval(op, l, r)
                         /\ A32!alu(op, l, r) \in A32!Words
                    /\ \A op \in 0 .. 7 \ {2} :
                         /\ A32!com(op, l, r) \in BOOLEAN
                         /\ A32!com(op, l, r) = A32!compare(op, l, r)
  BY DEF A32!Agree
<1>1. A32!alu(11, l, r) = r
  BY DEF A32!alu
<1>2. ASSUME NEW op \in {0, 8, 1, 2, 3, 4, 5, 13, 6, 7}
      PROVE  A32!alu(op, l, r) = A32!alu_eval(op, l, r)
  <2>1. A32!Sra(l, A32!shamt(r)) = A32!sra32(l, A32!shamt(r))
    BY ShiftAmount, ShiftsAgree
  <2> QED
    BY <2>1 DEF A32!alu, A32!alu_eval
<1>3. ASSUME NEW op \in {0, 8, 1, 2, 3, 4, 5, 13, 6, 7}
      PROVE  A32!alu(op, l, r) \in A32!Words
  <2>1. A32!Sra(l, A32!shamt(r)) \in A32!Words
    BY ShiftAmount, ShiftsAgree
  <2>2. \A n : A32!Word(n) \in A32!Words
    BY DEF A32!Word, A32!Words
  <2>3. A32!Add(l, r) \in A32!Words /\ A32!Sub(l, r) \in A32!Words
    BY <2>2 DEF A32!Add, A32!Sub
  <2>4. \A n : A32!Shl(l, n) \in A32!Words /\ A32!Shr(l, n) \in A32!Words
    BY DEF A32!Shl, A32!Shr, A32!Words
  <2>5. A32!Xor(l, r) \in A32!Words /\ l \cap r \in A32!Words /\ l \cup r \in A32!Words
    BY DEF A32!Xor, A32!Words
  <2>6. \A c : A32!Flag(c) \in A32!Words
    BY DEF A32!Flag, A32!Words, A32!Bit
  <2> QED
    BY <2>1, <2>3, <2>4, <2>5, <2>6 DEF A32!alu
<1>4. ASSUME NEW op \in 0 .. 7 \ {2}
      PROVE  A32!com(op, l, r) \in BOOLEAN /\ A32!com(op, l, r) = A32!compare(op, l, r)
  <2>1. (l = r \/ A32!SignedLess(r, l)) <=> ~A32!SignedLess(l, r)
    BY SignedLessIsTotal
  <2>2. A32!SignedLess(l, r) \in BOOLEAN /\ A32!Less(l, r) \in BOOLEAN
    BY DEF A32!SignedLess, A32!Less
  <2>3. CASE op = 5
    <3>1. A32!com(op, l, r) = (l = r \/ A32!SignedLess(r, l))
      BY <2>3 DEF A32!com
    <3>2. A32!compare(op, l, r) = ~A32!SignedLess(l, r)
      BY <2>3 DEF A32!compare
    <3> QED
      BY <2>1, <3>1, <3>2
  <2>4. op = 5 \/ op = 0 \/ op = 1 \/ op = 4 \/ op = 6 \/ op = 7 \/ op = 3
    OBVIOUS
  <2>5. CASE op = 0
    BY <2>5 DEF A32!com, A32!compare
  <2>6. CASE op = 1
    BY <2>6 DEF A32!com, A32!compare
  <2>7. CASE op = 4
    BY <2>2, <2>7 DEF A32!com, A32!compare
  <2>8. CASE op = 6
    BY <2>2, <2>8 DEF A32!com, A32!compare
  <2>9. CASE op = 7
    BY <2>2, <2>9 DEF A32!com, A32!compare
  <2>10. CASE op = 3
    BY <2>10 DEF A32!com, A32!compare
  <2> QED
    BY <2>3, <2>4, <2>5, <2>6, <2>7, <2>8, <2>9, <2>10
<1> QED
  BY <1>1, <1>2, <1>3, <1>4
=============================================================================
