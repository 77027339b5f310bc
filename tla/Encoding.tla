------------------------------ MODULE Encoding -------------------------------
(***************************************************************************)
(* Instructions as 32-bit words: the encoders of riscv.cpp and the three   *)
(* places that take a word apart again (inst_info of riscv.cpp, decode of  *)
(* gcpu.cpp, the wires of idu.sv).  A word is the set of the positions of  *)
(* its 1 bits, so `|' is union, `&' intersection, and a shift moves the    *)
(* members; what is shifted out of the 32 bits is lost, as in uint32_t.    *)
(***************************************************************************)
EXTENDS Integers

Bit  == 0 .. 31
Word == SUBSET Bit

Shl(w, n) == {k \in Bit : k - n \in w}
Shr(w, n) == {k \in Bit : k + n \in w}
Ones(n)   == {k \in Bit : k >= n}        \* ~0u << n

take_bit(w, pos) == {k \in Bit : k = 0 /\ pos \in w}
take_bits_range(w, from, to) == {k \in Bit : k + from \in w /\ k + from <= to}

OPCODE_LUI      == {0, 1, 2, 4, 5}
OPCODE_AUIPC    == {0, 1, 2, 4}
OPCODE_JAL      == {0, 1, 2, 3, 5, 6}
OPCODE_JALR     == {0, 1, 2, 5, 6}
OPCODE_BRANCH   == {0, 1, 5, 6}
OPCODE_LOAD     == {0, 1}
OPCODE_STORE    == {0, 1, 5}
OPCODE_CALC_IMM == {0, 1, 4}
OPCODE_CALC_REG == {0, 1, 4, 5}
OPCODE_SYSTEM   == {0, 1, 4, 5, 6}

\* The function codes by their bits: three of them are named below.
FUNCT3_ADD == {}
FUNCT3_SR  == {0, 2}
FUNCT3_AND == {0, 1, 2}

Funct3       == SUBSET (0 .. 2)
branch_types == <<{}, {0}, {2}, {0, 2}, {1, 2}, {0, 1, 2}>>   \* beq bne blt bge bltu bgeu
load_types   == <<{}, {0}, {1}, {2}, {0, 2}>>                 \* lb lh lw lbu lhu
store_types  == <<{}, {0}, {1}>>                              \* sb sh sw

-----------------------------------------------------------------------------
(* The encoders.                                                           *)

\* Slip: funct7 is put where its field begins, though its caller has already
\* moved it up by one.
r_type_At25(funct7, rs2, rs1, funct3, rd, opcode) ==
  Shl(funct7, 25) \cup Shl(rs2, 20) \cup Shl(rs1, 15) \cup Shl(funct3, 12) \cup Shl(rd, 7) \cup opcode

r_type(funct7, rs2, rs1, funct3, rd, opcode) ==
  Shl(funct7, 24) \cup Shl(rs2, 20) \cup Shl(rs1, 15) \cup Shl(funct3, 12) \cup Shl(rd, 7) \cup opcode

i_type(imm, rs1, funct3, rd, opcode) ==
  Shl(imm, 20) \cup Shl(rs1, 15) \cup Shl(funct3, 12) \cup Shl(rd, 7) \cup opcode

\* Also b_type and branch_store: the immediate of a branch is laid out as
\* that of a store.
s_type(imm, rs2, rs1, funct3, opcode) ==
  Shl(Shr(imm, 5), 25) \cup Shl(rs2, 20) \cup Shl(rs1, 15) \cup Shl(funct3, 12)
    \cup Shl(imm \cap (0 .. 4), 7) \cup opcode

u_type(imm, rd, opcode) == Shl(imm, 12) \cup Shl(rd, 7) \cup opcode

lui(imm, rd)   == u_type(imm, rd, OPCODE_LUI)
auipc(imm, rd) == u_type(imm, rd, OPCODE_AUIPC)
jal(imm, rd)   == u_type(imm, rd, OPCODE_JAL)
jalr(imm, rs1, rd) == i_type(imm, rs1, {}, rd, OPCODE_JALR)
ebreak == {20} \cup OPCODE_SYSTEM

\* beq .. bgeu, lb .. lhu, sb .. sw, and addi .. slli, srli, by function code.
branch(f3, imm, rs2, rs1) == s_type(imm, rs2, rs1, f3, OPCODE_BRANCH)
load(f3, imm, rs1, rd)    == i_type(imm, rs1, f3, rd, OPCODE_LOAD)
store(f3, imm, rs2, rs1)  == s_type(imm, rs2, rs1, f3, OPCODE_STORE)
calc_imm(f3, imm, rs1, rd) == i_type(imm, rs1, f3, rd, OPCODE_CALC_IMM)
addi(imm, rs1, rd) == calc_imm(FUNCT3_ADD, imm, rs1, rd)

\* Slip: funct7 is put where r_type puts it.
srai_At24(imm, rs1, rd) == Shl({5}, 24) \cup calc_imm(FUNCT3_SR, imm, rs1, rd)

srai(imm, rs1, rd) == Shl({5}, 25) \cup calc_imm(FUNCT3_SR, imm, rs1, rd)

\* add .. vor, and those with the funct7 0b0100000: sub, sra, vand.
calc_reg(is_alt, f3, rs2, rs1, rd) ==
  Shl(IF is_alt THEN {5} ELSE {}, 25) \cup i_type(rs2, rs1, f3, rd, OPCODE_CALC_REG)

-----------------------------------------------------------------------------
(* A word taken apart: the fields of Isa, and the immediate each format    *)
(* would have.                                                             *)

\* Slip: bit 7 of a branch is taken for bit 0 of its offset.
b_imm_Raw(w) ==
  (IF 31 \in w THEN Ones(12) ELSE {}) \cup take_bit(w, 7)
    \cup Shl(take_bits_range(w, 25, 30), 5) \cup Shl(take_bits_range(w, 8, 11), 1)

b_imm(w) ==
  (IF 31 \in w THEN Ones(12) ELSE {}) \cup Shl(take_bit(w, 7), 11)
    \cup Shl(take_bits_range(w, 25, 30), 5) \cup Shl(take_bits_range(w, 8, 11), 1)

\* By masks and shifts; gcpu.cpp and riscv.cpp have the same expressions.
decode(w) ==
  LET sign == 31 \in w IN
  [opcode |-> take_bits_range(w, 0, 6), funct3 |-> take_bits_range(w, 12, 14),
   sub |-> 30 \in w, rd |-> take_bits_range(w, 7, 11),
   rs1 |-> take_bits_range(w, 15, 19), rs2 |-> take_bits_range(w, 20, 24),
   i |-> (IF sign THEN Ones(12) ELSE {}) \cup take_bits_range(w, 20, 31),
   u |-> Shl(take_bits_range(w, 12, 31), 12),
   s |-> (IF sign THEN Ones(12) ELSE {}) \cup Shl(take_bits_range(w, 25, 31), 5)
           \cup take_bits_range(w, 7, 11),
   j |-> (IF sign THEN Ones(20) ELSE {}) \cup Shl(take_bits_range(w, 12, 19), 12)
           \cup Shl(take_bit(w, 20), 11) \cup Shl(take_bits_range(w, 21, 30), 1),
   b |-> b_imm(w)]

\* By wires: which bit of the instruction each bit of a field is, from bit 0;
\* a wire tied to zero is -1.
Wired(w, wire(_)) == {k \in Bit : wire(k) \in w}

Slice(w, from, to) == Wired(w, LAMBDA k : IF k <= to - from THEN k + from ELSE -1)

idu(w) ==
  [opcode |-> Slice(w, 0, 6), funct3 |-> Slice(w, 12, 14), sub |-> 30 \in w,
   rd |-> Slice(w, 7, 11), rs1 |-> Slice(w, 15, 19), rs2 |-> Slice(w, 20, 24),
   i |-> Wired(w, LAMBDA k : IF k <= 11 THEN k + 20 ELSE 31),
   u |-> Wired(w, LAMBDA k : IF k <= 11 THEN -1 ELSE k),
   s |-> Wired(w, LAMBDA k : IF k <= 4 THEN k + 7 ELSE IF k <= 11 THEN k + 20 ELSE 31),
   j |-> Wired(w, LAMBDA k : IF k = 0 THEN -1 ELSE IF k <= 10 THEN k + 20
                             ELSE IF k = 11 THEN 20 ELSE IF k <= 19 THEN k ELSE 31),
   b |-> Wired(w, LAMBDA k : IF k = 0 THEN -1 ELSE IF k <= 4 THEN k + 7
                             ELSE IF k <= 10 THEN k + 20 ELSE IF k = 11 THEN 7 ELSE 31)]

-----------------------------------------------------------------------------
(* Which instruction of the ISA: opcode, function code, and whether it is  *)
(* the other one of a pair (sub of add and sub, sra of srl and sra).       *)

Kind(opcode, funct3, is_alt) == [opcode |-> opcode, funct3 |-> funct3, is_alt |-> is_alt]

HasFunct3 == {OPCODE_BRANCH, OPCODE_LOAD, OPCODE_STORE, OPCODE_CALC_IMM, OPCODE_CALC_REG}

\* The pairs.
HasAlternative(opcode, funct3) ==
  \/ opcode \in {OPCODE_CALC_IMM, OPCODE_CALC_REG} /\ funct3 = FUNCT3_SR
  \/ opcode = OPCODE_CALC_REG /\ funct3 = FUNCT3_ADD

\* Which one the decoders take a word for: bit 30 tells the pairs apart.
Executed(w) ==
  LET opcode == Slice(w, 0, 6)
      funct3 == IF opcode \in HasFunct3 THEN Slice(w, 12, 14) ELSE {}
  IN Kind(opcode, funct3, 30 \in w /\ HasAlternative(opcode, funct3))

\* Slip: only the upper bits of funct7 are looked at.
Printed_Upper(w) ==
  LET opcode == take_bits_range(w, 0, 6)
      funct3 == IF opcode \in HasFunct3 THEN take_bits_range(w, 12, 14) ELSE {}
  IN Kind(opcode, funct3, take_bits_range(w, 31, 31) # {} /\ HasAlternative(opcode, funct3))

\* Which one print_instruction names: the whole of funct7 does.
Printed(w) ==
  LET opcode == take_bits_range(w, 0, 6)
      funct3 == IF opcode \in HasFunct3 THEN take_bits_range(w, 12, 14) ELSE {}
  IN Kind(opcode, funct3, take_bits_range(w, 25, 31) # {} /\ HasAlternative(opcode, funct3))

\* The word the named encoder of riscv.cpp makes of the parts of a word; jal
\* and the branches take the bits of their immediate in the order of the word.
Assembled(w) ==
  LET i == decode(w) IN
  CASE i.opcode = OPCODE_LUI      -> lui(Shr(i.u, 12), i.rd)
    [] i.opcode = OPCODE_AUIPC    -> auipc(Shr(i.u, 12), i.rd)
    [] i.opcode = OPCODE_JAL      -> jal(Shr(i.u, 12), i.rd)
    [] i.opcode = OPCODE_JALR     -> jalr(i.i, i.rs1, i.rd)
    [] i.opcode = OPCODE_BRANCH   -> branch(i.funct3, i.s, i.rs2, i.rs1)
    [] i.opcode = OPCODE_LOAD     -> load(i.funct3, i.i, i.rs1, i.rd)
    [] i.opcode = OPCODE_STORE    -> store(i.funct3, i.s, i.rs2, i.rs1)
    [] i.opcode = OPCODE_CALC_IMM ->
         IF i.funct3 = FUNCT3_SR /\ i.sub THEN srai(i.i \ {10}, i.rs1, i.rd)
         ELSE calc_imm(i.funct3, i.i, i.rs1, i.rd)
    [] i.opcode = OPCODE_CALC_REG -> calc_reg(i.sub, i.funct3, i.rs2, i.rs1, i.rd)
    [] i.opcode = OPCODE_SYSTEM   -> ebreak
    [] OTHER                      -> {}

\* The funct7 of the encoders: vand's is that of an alternative.
HasEncoder(w) ==
  LET i == decode(w) IN
  i.opcode = OPCODE_CALC_REG =>
    \/ HasAlternative(i.opcode, i.funct3)
    \/ i.sub = (i.funct3 = FUNCT3_AND)

HasRd == {OPCODE_LUI, OPCODE_AUIPC, OPCODE_JAL, OPCODE_JALR, OPCODE_LOAD, OPCODE_CALC_IMM,
          OPCODE_CALC_REG}

\* The register print_instruction names after "rd="; jal's arguments are one
\* too many for its format, and rs1 is printed.
PrintedRd(w) == IF decode(w).opcode = OPCODE_JAL THEN decode(w).rs1 ELSE decode(w).rd

\* What the golden model and the CPU take for different things (Isa).
Comparable(i) ==
  /\ i.opcode = OPCODE_STORE => i.funct3 \in {{}, {0}, {1}}
  /\ i.opcode = OPCODE_BRANCH => i.funct3 # {1}
=============================================================================
