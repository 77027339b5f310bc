-------------------------------- MODULE Core ---------------------------------
(***************************************************************************)
(* The CPU, soc/cpu.sv, by its clock cycles: the instruction decoder       *)
(* (idu.sv), the execution unit with its state machine (exu.sv), the pc    *)
(* and the register file.  Of the fetch unit and the load/store unit the   *)
(* module keeps what their neighbours see: each answers a request in the   *)
(* same cycle or in a later one (Ifu and Lsu have the units themselves).   *)
(***************************************************************************)
EXTENDS Isa

CONSTANTS
  INITIAL_PC,
  Programs      \* the contents the flash may have

VARIABLES
  code,                       \* the flash
  mem,                        \* the memory behind the LSU
  is_start, ifu_reqValid,     \* cpu.sv
  ifu_busy, lsu_busy,         \* the unit has a request it has not answered
  idu_respValid, idu_inst,    \* idu.sv
  exu_state,                  \* exu.sv
  pc, regs,
  minstret, ebreak            \* event counts the EXU reports, exu_perf_measure

coreVars == <<code, mem, is_start, ifu_reqValid, ifu_busy, lsu_busy, idu_respValid,
              idu_inst, exu_state, pc, regs, minstret, ebreak>>

ExuState == {"RESET", "START", "STALL_IDU", "STALL_LSU", "EXECUTE"}

-----------------------------------------------------------------------------
(* The decoder.  An instruction type has six bits, of which the upper      *)
(* three are flags: bit 3 writes a register, bit 4 is for the LSU.         *)

Type(hi, lo) == [hi |-> hi, lo |-> lo]

INST_EBREAK == Type(5, 0)
INST_BRANCH == Type(0, 5)
INST_JUMPR  == Type(1, 1)
INST_JUMP   == Type(1, 5)
INST_REG    == Type(1, 0)
INST_IMM    == Type(1, 2)
INST_AUIPC  == Type(1, 4)
INST_UPP    == Type(1, 6)

INST_STORE == 2
INST_LOAD  == 3

Bit(b, n) == IF b THEN n ELSE 0

idu_type(i) ==
  CASE i.opcode = "CALC_IMM" -> INST_IMM
    [] i.opcode = "CALC_REG" -> INST_REG
    [] i.opcode = "LOAD"     -> Type(INST_LOAD, i.funct3)
    [] i.opcode = "STORE"    -> Type(INST_STORE, i.funct3)
    [] i.opcode = "LUI"      -> INST_UPP
    [] i.opcode = "AUIPC"    -> INST_AUIPC
    [] i.opcode = "JAL"      -> INST_JUMP
    [] i.opcode = "JALR"     -> INST_JUMPR
    [] i.opcode = "BRANCH"   -> INST_BRANCH
    [] i.opcode = "SYSTEM"   ->
         Type(5, Bit(i.funct3 >= 4, 4) + Bit(i.funct3 \in {1, 2, 3, 5, 6, 7}, 1))
    [] OTHER                 -> Type(0, 0)

idu_imm(i) ==
  CASE i.opcode \in {"CALC_IMM", "LOAD", "JALR", "SYSTEM"} -> i.imm["i"]
    [] i.opcode \in {"LUI", "AUIPC"} -> i.imm["u"]
    [] i.opcode = "STORE"  -> i.imm["s"]
    [] i.opcode = "JAL"    -> i.imm["j"]
    [] i.opcode = "BRANCH" -> i.imm["b"]
    [] OTHER               -> Zero

\* Slip: bit 30 is taken for sub in every operation with an immediate.
idu_alu_op_SubImm(i) ==
  CASE i.opcode \in {"CALC_IMM", "CALC_REG"} ->
         Bit(i.sub /\ i.funct3 \in {0, 5}, 8) + i.funct3
    [] i.opcode = "LUI" -> ALU_OP_RHS
    [] OTHER            -> 0

idu_alu_op(i) ==
  CASE i.opcode = "CALC_IMM" -> Bit(i.sub /\ i.funct3 = 5, 8) + i.funct3
    [] i.opcode = "CALC_REG" -> Bit(i.sub /\ i.funct3 \in {0, 5}, 8) + i.funct3
    [] i.opcode = "LUI"      -> ALU_OP_RHS
    [] i.opcode = "SYSTEM"   ->
         Bit(i.funct3 % 2 = 1, 8) + Bit(i.funct3 \in {2, 3, 6, 7}, 4) + 2
    [] OTHER                 -> 0

idu_com_op(i) == IF i.opcode = "BRANCH" THEN i.funct3 ELSE 2

is_lsu_inst(t) == t.hi \in {2, 3, 6, 7}
writes_rd(t)   == t.hi \in {1, 3, 5, 7}

-----------------------------------------------------------------------------
(* What the execution unit makes of instruction i.                         *)

rf_rdata(rf, r) == IF r = 0 \/ r >= REG_NUM THEN Zero ELSE rf[r]

\* Slip: x0 is written like any other register.
rf_write_X0(rf, wen, rd, d) == IF wen /\ rd < REG_NUM THEN [rf EXCEPT ![rd] = d] ELSE rf

rf_write(rf, wen, rd, d) == IF wen /\ rd # 0 /\ rd < REG_NUM THEN [rf EXCEPT ![rd] = d] ELSE rf

alu_res(i, p, rf) ==
  LET t == idu_type(i) IN
  u_alu(idu_alu_op(i),
        IF t \in {INST_JUMP, INST_AUIPC, INST_BRANCH} THEN p ELSE rf_rdata(rf, i.rs1),
        IF t = INST_REG THEN rf_rdata(rf, i.rs2) ELSE idu_imm(i))

is_pc_jump(i, rf) ==
  \/ idu_type(i) \in {INST_JUMP, INST_JUMPR}
  \/ idu_type(i) = INST_BRANCH /\ u_com(idu_com_op(i), rf_rdata(rf, i.rs1), rf_rdata(rf, i.rs2))

pc_next(i, p, rf) == IF is_pc_jump(i, rf) THEN alu_res(i, p, rf) ELSE Plus4(p)

\* lsu.data_size and lsu.is_mem_sign are bits 1:0 and 2 of the type.
lsu_rdata(i, p, rf, m) ==
  lsu_load(m, alu_res(i, p, rf), idu_type(i).lo % 4, idu_type(i).lo < 4)

rf_wdata(i, p, rf, m, csr_rdata) ==
  LET t == idu_type(i) IN
  CASE t \in {INST_JUMP, INST_JUMPR} -> Plus4(p)
    [] t \in {INST_UPP, INST_AUIPC, INST_REG, INST_IMM} -> alu_res(i, p, rf)
    [] t \in {Type(5, 1), Type(5, 5)} -> csr_rdata
    [] t.hi = INST_LOAD /\ t.lo \in {0, 1, 2, 4, 5} -> lsu_rdata(i, p, rf, m)
    [] OTHER -> Zero

mem_after(i, p, rf, m) ==
  IF idu_type(i).hi = INST_STORE
  THEN lsu_store(m, alu_res(i, p, rf), idu_type(i).lo % 4, rf_rdata(rf, i.rs2))
  ELSE m

-----------------------------------------------------------------------------
(* A cycle.                                                                *)

d_type == idu_type(idu_inst)

lsu_reqValid == idu_respValid /\ is_lsu_inst(d_type)

\* The IDU has just handed the EXU an instruction.
Handed == idu_respValid /\ exu_state \in {"START", "STALL_IDU", "EXECUTE"}

ExuStart == exu_state = "RESET" /\ exu_state' = "START"

ExuNoInst ==
  /\ ~idu_respValid /\ exu_state \in {"START", "STALL_IDU", "EXECUTE"}
  /\ exu_state' = "STALL_IDU"

ExuStall(lsu_respValid) ==
  /\ ~lsu_respValid
  /\ (Handed /\ is_lsu_inst(d_type)) \/ exu_state = "STALL_LSU"
  /\ exu_state' = "STALL_LSU"

\* Slip: an instruction retires when it is handed over, the LSU's too.
Retires_Handed(lsu_respValid) == Handed

Retires(lsu_respValid) ==
  \/ Handed /\ (is_lsu_inst(d_type) => lsu_respValid)
  \/ exu_state = "STALL_LSU" /\ lsu_respValid

\* The next fetch, ifu_reqValid of cpu.sv; the slip forgets the first one.
Fetches_NoStart(lsu_respValid) == Retires(lsu_respValid)

Fetches(lsu_respValid) == is_start \/ Retires(lsu_respValid)

\* exu_respValid: the pc and the register file are written at the edge.
ExuExecute(lsu_respValid) ==
  /\ Retires(lsu_respValid)
  /\ exu_state' = "EXECUTE"
  /\ pc' = pc_next(idu_inst, pc, regs)
  /\ \E csr_rdata \in Data :
       regs' = rf_write(regs, writes_rd(d_type), idu_inst.rd,
                        rf_wdata(idu_inst, pc, regs, mem, csr_rdata))
  /\ minstret' = minstret + 1

Exu(lsu_respValid) ==
  \/ /\ ExuStart \/ ExuNoInst \/ ExuStall(lsu_respValid)
     /\ UNCHANGED <<pc, regs, minstret>>
  \/ ExuExecute(lsu_respValid)

\* Slip: the IDU's respValid is not cleared in the next cycle.
Idu_KeepsValid(ifu_respValid) ==
  /\ idu_respValid' = (ifu_respValid \/ idu_respValid)
  /\ idu_inst' = IF ifu_respValid THEN code[pc] ELSE idu_inst

\* The IFU's answer is latched by the IDU.
Idu(ifu_respValid) ==
  /\ idu_respValid' = ifu_respValid
  /\ idu_inst' = IF ifu_respValid THEN code[pc] ELSE idu_inst

Edge(ifu_respValid, lsu_respValid) ==
  /\ ifu_respValid => ifu_reqValid \/ ifu_busy
  /\ lsu_respValid => lsu_reqValid \/ lsu_busy
  /\ ifu_busy' = ((ifu_reqValid \/ ifu_busy) /\ ~ifu_respValid)
  /\ lsu_busy' = ((lsu_reqValid \/ lsu_busy) /\ ~lsu_respValid)
  /\ Exu(lsu_respValid)
  /\ Idu(ifu_respValid)
  /\ mem' = IF lsu_respValid THEN mem_after(idu_inst, pc, regs, mem) ELSE mem
  /\ is_start' = FALSE
  /\ ifu_reqValid' = Fetches(lsu_respValid)
  /\ ebreak' = (ebreak \/ (d_type = INST_EBREAK /\ exu_state = "EXECUTE"))
  /\ UNCHANGED code

\* The reset, with a new program in the flash.  It leaves the memory and the
\* decoder's registers as they are.
Reset ==
  /\ code' \in Programs
  /\ is_start' = TRUE /\ ifu_reqValid' = FALSE
  /\ ifu_busy' = FALSE /\ lsu_busy' = FALSE
  /\ exu_state' = "RESET"
  /\ pc' = INITIAL_PC
  /\ regs' = [r \in Reg |-> Zero]
  /\ minstret' = 0 /\ ebreak' = FALSE
  /\ UNCHANGED <<mem, idu_respValid, idu_inst>>
=============================================================================
