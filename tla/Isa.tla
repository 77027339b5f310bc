--------------------------------- MODULE Isa ---------------------------------
(***************************************************************************)
(* What the CPU (cpu.sv and the modules in it) and the golden model        *)
(* (gcpu.cpp) have in common: instructions by their fields, registers, and *)
(* the arithmetic and the memory, which are operators without a meaning    *)
(* here.  Those of the two sides are different operators; the assumptions  *)
(* say where they agree.                                                   *)
(***************************************************************************)
EXTENDS Integers

CONSTANTS
  Data, Zero,           \* 32-bit words
  Mem,                  \* contents of the memory
  REG_NUM,              \* registers; 16 in the code (RV32E)
  Inst,                 \* the instructions of the programs
  u_alu(_, _, _),       \* alu.sv
  u_com(_, _, _),       \* com.sv
  g_alu(_, _, _),       \* gcpu.cpp
  g_compare(_, _, _),   \* gcpu.cpp
  Plus4(_),
  lsu_load(_, _, _, _),   \* what a load returns: memory, address, size, sign
  lsu_store(_, _, _, _),  \* what a store leaves: memory, address, size, data
  g_load(_, _, _, _),
  g_store(_, _, _, _),
  IsMapped(_, _)          \* address, is_write: the golden model knows it

Opcode == {"LUI", "AUIPC", "JAL", "JALR", "BRANCH", "LOAD", "STORE",
           "CALC_IMM", "CALC_REG", "SYSTEM", "OTHER"}

\* imm holds the immediate of each of the five formats.
Instruction ==
  [opcode : Opcode, funct3 : 0 .. 7, sub : BOOLEAN, rd : 0 .. 31, rs1 : 0 .. 31,
   rs2 : 0 .. 31, imm : [{"i", "u", "s", "j", "b"} -> Data]]

\* The encodings the golden model takes for something else than the CPU does
\* without a word: it drops a store of an unknown size and does not take a
\* branch whose comparison is COM_OP_ONE.  random_instruction makes neither.
Comparable(i) ==
  /\ i.opcode = "STORE" => i.funct3 \in 0 .. 2
  /\ i.opcode = "BRANCH" => i.funct3 # 2

ALU_OP_RHS == 11
GoldAluOps == {0, 8, 1, 2, 3, 4, 5, 13, 6, 7}

\* A register file whose x0 reads as zero from the array itself, which is
\* how the golden model reads it.
Reg  == 0 .. REG_NUM - 1
Regs == {rf \in [Reg -> Data] : rf[0] = Zero}

ASSUME IsaAssumption ==
  /\ Zero \in Data
  /\ REG_NUM \in Nat \ {0}
  /\ \A i \in Inst : i \in Instruction /\ Comparable(i)

\* The two arithmetic units agree, but for the operation the golden model has
\* no need of: VsocGoldProofs!ArithmeticOf32Bits says so of those in Alu.
ASSUME ArithmeticAssumption ==
  /\ \A l, r \in Data : u_alu(ALU_OP_RHS, l, r) = r
  /\ \A op \in GoldAluOps, l, r \in Data :
       u_alu(op, l, r) \in Data /\ g_alu(op, l, r) = u_alu(op, l, r)
  /\ \A op \in 0 .. 7 \ {2}, l, r \in Data :
       u_com(op, l, r) \in BOOLEAN /\ g_compare(op, l, r) = u_com(op, l, r)
  /\ \A d \in Data : Plus4(d) \in Data /\ Plus4(d) # d

\* Where the golden model has memory the two sides' loads and stores agree,
\* which is what VcpuLsu shows of the LSU; elsewhere a load of either side may
\* return anything, and a store changes nothing.  (The one store that
\* does lies across the end of the RAM and is not among the programs here.)
ASSUME MemoryAssumption ==
  /\ \A m \in Mem, a \in Data, size \in 0 .. 3, sign \in BOOLEAN :
       lsu_load(m, a, size, sign) \in Data /\ g_load(m, a, size, sign) \in Data
  /\ \A m \in Mem, a \in Data, size \in 0 .. 2, sign \in BOOLEAN :
       IsMapped(a, FALSE) => g_load(m, a, size, sign) = lsu_load(m, a, size, sign)
  /\ \A m \in Mem, a \in Data, size \in 0 .. 2, d \in Data :
       lsu_store(m, a, size, d) \in Mem /\ g_store(m, a, size, d) = lsu_store(m, a, size, d)
=============================================================================
