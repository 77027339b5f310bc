----------------------------- MODULE RandomInst ------------------------------
(***************************************************************************)
(* The programs of the random tests: the loop of test_random that fills    *)
(* insts (soc_main.cpp) and random_instruction (riscv.cpp).  A call of     *)
(* random_instruction leaves the word it returns in inst, and what it drew *)
(* on the way in drawn; the loop then stores the word.                     *)
(***************************************************************************)
EXTENDS Encoding

CONSTANTS
  Patterns,   \* what the random generator's bits are cut from
  Flags,      \* the inst_flags of the tests
  n_insts     \* words in a program, the 30 that set the registers included

N_REGS == 16
NPrologue == 2 * (N_REGS - 1)

\* A program shorter than its prologue has no room for it, see the README.
ASSUME RandomInstAssumption ==
  /\ Patterns \subseteq Word
  /\ n_insts \in Nat /\ n_insts >= NPrologue

VARIABLES
  inst_flags, inst_count,
  base,     \* the page drawn for the register that is being set
  inst,     \* the word that is about to be stored
  drawn     \* the operands it was made from

vars == <<inst_flags, inst_count, base, inst, drawn>>

NoInst == {-1}

\* Slip: the upper end can be drawn.
random_range_Incl(ge, lt) == IF ge >= lt THEN {0} ELSE ge .. lt

\* Slip: the upper end is taken off twice.
random_range_Short(ge, lt) == IF ge >= lt THEN {0} ELSE ge .. lt - 2

random_range(ge, lt) == IF ge >= lt THEN {0} ELSE ge .. lt - 1

random_bits(n) == {b \cap (0 .. n - 1) : b \in Patterns}

\* random_range(gen, 1, N_REGS)
random_reg == random_bits(4) \ {{}}

Operands(imm, rs2, rs1, f3, bit, rd) ==
  [imm |-> imm, rs2 |-> rs2, rs1 |-> rs1, f3 |-> f3, bit |-> bit, rd |-> rd]

NoOperands == Operands({}, {}, {}, {}, {}, {})

-----------------------------------------------------------------------------
(* test_random: every register is set to an address in the middle of the   *)
(* flash or of the memory, give or take what addi can add.                 *)

\* FLASH, MEM, UART: first page, number of pages
mem_start_choice == <<196608, 524288, 65536>>
mem_size_choice  == <<4096, 8192, 0>>

BasePage(choice) == mem_start_choice[choice] + mem_size_choice[choice] \div 2

Bits(n) == {k \in 0 .. 19 : (n \div 2^k) % 2 = 1}

ThisRegister == Bits(inst_count \div 2 + 1)

SetUpper ==
  /\ inst = NoInst /\ inst_count < NPrologue /\ inst_count % 2 = 0
  /\ \E mem_rand \in random_range(0, 2) : base' = BasePage(mem_rand + 1)
  /\ inst' = lui(Bits(base'), ThisRegister)
  /\ drawn' = NoOperands
  /\ UNCHANGED <<inst_flags, inst_count>>

SetLower ==
  /\ inst = NoInst /\ inst_count < NPrologue /\ inst_count % 2 = 1
  /\ \E imm \in random_bits(12) : inst' = addi(imm, ThisRegister, ThisRegister)
  /\ drawn' = NoOperands
  /\ UNCHANGED <<inst_flags, inst_count, base>>

\* tb->insts[inst_count++] = ...
Store ==
  /\ inst # NoInst
  /\ inst_count' = inst_count + 1
  /\ inst' = NoInst /\ drawn' = NoOperands
  /\ base' = IF inst_count % 2 = 1 THEN 0 ELSE base   \* the end of its scope
  /\ UNCHANGED inst_flags

\* Slip: one word more than there is room for.
Filling_Past == inst_count <= n_insts

Filling == inst_count < n_insts

Drawing == inst = NoInst /\ inst_count >= NPrologue /\ Filling

\* The program runs, and the next one is drawn.
NextTest ==
  /\ inst = NoInst /\ inst_count >= NPrologue /\ ~Filling
  /\ inst_count' = 0
  /\ UNCHANGED <<inst_flags, base, inst, drawn>>

-----------------------------------------------------------------------------
(* random_instruction.  The flags list each opcode as many times as it has *)
(* instructions; only which ones are listed matters here.                  *)

opcodes ==
     (IF "Store" \in inst_flags THEN {OPCODE_STORE} ELSE {})
  \cup (IF "Load" \in inst_flags THEN {OPCODE_LOAD} ELSE {})
  \cup (IF "Calc" \in inst_flags
       THEN {OPCODE_LUI, OPCODE_AUIPC, OPCODE_CALC_IMM, OPCODE_CALC_REG} ELSE {})
  \cup (IF "Jump" \in inst_flags THEN {OPCODE_JAL, OPCODE_JALR} ELSE {})
  \cup (IF "Branch" \in inst_flags THEN {OPCODE_BRANCH} ELSE {})
  \cup (IF "System" \in inst_flags THEN {OPCODE_SYSTEM} ELSE {})

Returns(word, operands) ==
  /\ inst' = word /\ drawn' = operands
  /\ UNCHANGED <<inst_flags, inst_count, base>>

\* lui, auipc, jal
DrawUpper ==
  \E op \in {OPCODE_LUI, OPCODE_AUIPC, OPCODE_JAL} \cap opcodes,
     imm \in random_bits(20), rd \in random_bits(4) :
    Returns(u_type(imm, rd, op), Operands(imm, {}, {}, {}, {}, rd))

DrawJalr ==
  /\ OPCODE_JALR \in opcodes
  /\ \E imm \in random_bits(12), rs1, rd \in random_bits(4) :
       Returns(jalr(imm, rs1, rd), Operands(imm, {}, rs1, {}, {}, rd))

DrawBranch ==
  /\ OPCODE_BRANCH \in opcodes
  /\ \E imm \in random_bits(12), rs2, rs1 \in random_bits(4), k \in random_range(0, 5) :
       LET f3 == branch_types[k + 1] IN
       Returns(s_type(imm, rs2, rs1, f3, OPCODE_BRANCH), Operands(imm, rs2, rs1, f3, {}, {}))

DrawLoad ==
  /\ OPCODE_LOAD \in opcodes
  /\ \E imm \in random_bits(12), rs1 \in random_reg, rd \in random_bits(4), k \in random_range(0, 5) :
       LET f3 == load_types[k + 1] IN
       Returns(i_type(imm, rs1, f3, rd, OPCODE_LOAD), Operands(imm, {}, rs1, f3, {}, rd))

DrawStore ==
  /\ OPCODE_STORE \in opcodes
  /\ \E imm \in random_bits(12), rs2 \in random_bits(4), rs1 \in random_reg, k \in random_range(0, 3) :
       LET f3 == store_types[k + 1] IN
       Returns(s_type(imm, rs2, rs1, f3, OPCODE_STORE), Operands(imm, rs2, rs1, f3, {}, {}))

DrawCalcImm ==
  /\ OPCODE_CALC_IMM \in opcodes
  /\ \E imm \in random_bits(12), rs1, rd \in random_bits(4), f3 \in random_bits(3) :
       Returns(i_type(imm, rs1, f3, rd, OPCODE_CALC_IMM), Operands(imm, {}, rs1, f3, {}, rd))

DrawCalcReg ==
  /\ OPCODE_CALC_REG \in opcodes
  /\ \E rs2, rs1, rd \in random_bits(4), bit \in random_bits(1), f3 \in random_bits(3) :
       Returns(r_type(Shl(bit, 6), rs2, rs1, f3, rd, OPCODE_CALC_REG),
               Operands({}, rs2, rs1, f3, bit, rd))

DrawSystem == OPCODE_SYSTEM \in opcodes /\ Returns(ebreak, NoOperands)

\* Of an empty list opcodes[0] is drawn, which is 0.
DrawNothing == opcodes = {} /\ Returns({}, NoOperands)

random_instruction ==
  Drawing /\ ( \/ DrawUpper \/ DrawJalr \/ DrawBranch \/ DrawLoad \/ DrawStore
               \/ DrawCalcImm \/ DrawCalcReg \/ DrawSystem \/ DrawNothing )

-----------------------------------------------------------------------------
Init ==
  /\ inst_flags \in Flags
  /\ inst_count = 0 /\ base = 0
  /\ inst = NoInst /\ drawn = NoOperands

Next == SetUpper \/ SetLower \/ random_instruction \/ Store \/ NextTest

Spec == Init /\ [][Next]_vars

-----------------------------------------------------------------------------
(* Properties.                                                             *)

TypeOK ==
  /\ inst_flags \in Flags
  /\ inst_count \in 0 .. n_insts
  /\ base \in {0} \cup {BasePage(c) : c \in 1 .. 3}
  /\ inst \in Word \cup {NoInst}
  /\ drawn \in [imm : Word, rs2 : Word, rs1 : Word, f3 : Word, bit : Word, rd : Word]

\* The CPU and the golden model take every word of a random program apart in
\* the same way, and it is none of those they execute differently (decode of
\* gcpu.cpp, idu.sv; the assumption that VsocGold makes of its programs).
SameInstruction ==
  inst # NoInst => decode(inst) = idu(inst) /\ Comparable(decode(inst))

Sext12(imm) == {k \in Bit : k \in imm \/ (k >= 12 /\ 11 \in imm)}

\* Bit k of a jump's offset is which of the 20 bits drawn for it; -1 is 0.
JalBit(k) == IF k = 0 THEN -1 ELSE IF k <= 10 THEN k + 8
             ELSE IF k = 11 THEN 8 ELSE IF k <= 19 THEN k - 12 ELSE 19

\* And of a branch's, of the 12 drawn.
BranchBit(k) == IF k = 0 THEN -1 ELSE IF k <= 10 THEN k ELSE IF k = 11 THEN 0 ELSE 11

\* What was drawn is what is executed: the fields land where the decoder looks
\* for them, none reaches into its neighbour, a register-register operation
\* has its alternative exactly when the bit drawn for it is 1, and the bits
\* drawn for a jump or a branch are all bits of its offset (the encoders and
\* their callers' shifts, riscv.cpp).
DecodedAsDrawn ==
  LET i == idu(inst) IN
  inst \notin {NoInst, {}, ebreak} /\ inst_count >= NPrologue =>
    /\ i.opcode \in HasRd => i.rd = drawn.rd
    /\ i.opcode \in HasFunct3 =>
         i.funct3 = drawn.f3 /\ i.rs1 = drawn.rs1
    /\ i.opcode \in {OPCODE_BRANCH, OPCODE_STORE, OPCODE_CALC_REG} => i.rs2 = drawn.rs2
    /\ i.opcode = OPCODE_CALC_REG => (i.sub <=> drawn.bit = {0})
    /\ i.opcode \in {OPCODE_LOAD, OPCODE_CALC_IMM, OPCODE_JALR} => i.i = Sext12(drawn.imm)
    /\ i.opcode = OPCODE_STORE => i.s = Sext12(drawn.imm)
    /\ i.opcode \in {OPCODE_LUI, OPCODE_AUIPC} => i.u = Shl(drawn.imm, 12)
    /\ i.opcode = OPCODE_JAL => i.j = {k \in Bit : JalBit(k) \in drawn.imm}
    /\ i.opcode = OPCODE_BRANCH => i.b = {k \in Bit : BranchBit(k) \in drawn.imm}

\* Taken apart by inst_info and put together by the encoder of its name
\* (lui .. ebreak, riscv.cpp), a word is what it was.
Reassembled == inst # NoInst /\ HasEncoder(inst) => Assembled(inst) = inst

Alternatives(op, f3) == IF HasAlternative(op, f3) THEN BOOLEAN ELSE {FALSE}

KindsOf(flag) ==
  CASE flag = "Jump"   -> {Kind(op, {}, FALSE) : op \in {OPCODE_JAL, OPCODE_JALR}}
    [] flag = "Branch" -> {Kind(OPCODE_BRANCH, branch_types[k], FALSE) : k \in 1 .. 6}
    [] flag = "Load"   -> {Kind(OPCODE_LOAD, load_types[k], FALSE) : k \in 1 .. 5}
    [] flag = "Store"  -> {Kind(OPCODE_STORE, store_types[k], FALSE) : k \in 1 .. 3}
    [] flag = "System" -> {Kind(OPCODE_SYSTEM, {}, FALSE)}
    [] flag = "Calc"   ->
         {Kind(op, {}, FALSE) : op \in {OPCODE_LUI, OPCODE_AUIPC}}
           \cup UNION {{Kind(op, f3, alt) : alt \in Alternatives(op, f3)} :
                         op \in {OPCODE_CALC_IMM, OPCODE_CALC_REG}, f3 \in Funct3}

bgeu == Kind(OPCODE_BRANCH, branch_types[6], FALSE)

Drawable(kind) == ENABLED (random_instruction /\ Executed(inst') = kind)

\* Every instruction of the kinds asked for can be drawn, bgeu excepted: no
\* range ends one too early.
AllButBgeuDrawable ==
  Drawing => \A flag \in inst_flags : \A kind \in KindsOf(flag) \ {bgeu} : Drawable(kind)

\* Wherever in a program a register still has the value the first 30 words
\* give it, a load or store of any size and offset is to flash or memory: what
\* addi and the offset take away or add stays inside the region, which is
\* never the UART's, whose registers the golden model has not.
BasesAreMemory ==
  inst # NoInst /\ inst_count < NPrologue =>
    /\ \E c \in 1 .. 2 :
         /\ mem_start_choice[c] < base
         /\ base < mem_start_choice[c] + mem_size_choice[c] - 1
    /\ idu(inst).opcode = OPCODE_LUI => idu(inst).u = Shl(Bits(base), 12)
    /\ idu(inst).opcode # OPCODE_LUI => idu(inst).rs1 = idu(inst).rd
    /\ idu(inst).rd = ThisRegister

\* print_instruction names the instruction that is executed, as the golden
\* model's own table does, and the register it writes (bit 30 and the whole of
\* funct7 say the same), but for a shift by an immediate, whose upper bits are
\* drawn at random, and for the register of a jal.
PrintedAsExecuted ==
  LET i == idu(inst)
      strays == {25, 26, 27, 28, 29, 31} IN
  inst # NoInst =>
    /\ \/ Printed(inst) = Executed(inst)
       \/ i.opcode = OPCODE_CALC_IMM /\ inst \cap strays # {}
    /\ i.opcode \in HasRd \ {OPCODE_JAL} => PrintedRd(inst) = i.rd
=============================================================================
