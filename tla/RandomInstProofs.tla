-------------------------- MODULE RandomInstProofs ---------------------------
(***************************************************************************)
(* Theorems about RandomInst: every word of a random program is one that   *)
(* the CPU and the golden model take apart in the same way, the decoders   *)
(* find in it what was drawn, the printer names what is executed and the   *)
(* encoders make it again, whatever bits are drawn and however long the    *)
(* program; and exactly the kinds the flags ask for are drawn, but bgeu.   *)
(***************************************************************************)
EXTENDS RandomInst, TLAPS

-----------------------------------------------------------------------------
(* The decoders.  Masks and shifts and wires are the same selection of     *)
(* bits, for every word.                                                   *)

LEMMA SlicesAlike ==
  ASSUME NEW w, NEW from \in Bit, NEW to \in Bit
  PROVE  take_bits_range(w, from, to) = Slice(w, from, to) \/ -1 \in w
BY DEF take_bits_range, Slice, Wired, Bit

LEMMA WordsAlike ==
  ASSUME NEW w \in Word
  PROVE  decode(w) = idu(w)
<1> DEFINE d == decode(w)
           i == idu(w)
<1>1. \A k \in w : k \in Bit
  BY DEF Word
<1>2. -1 \notin w
  BY <1>1 DEF Bit
<1>3. \A from, to \in Bit : take_bits_range(w, from, to) = Slice(w, from, to)
  BY <1>2, SlicesAlike
<1>4. /\ d.opcode = i.opcode /\ d.funct3 = i.funct3 /\ d.sub = i.sub
      /\ d.rd = i.rd /\ d.rs1 = i.rs1 /\ d.rs2 = i.rs2
  <2>1. /\ take_bits_range(w, 0, 6) = Slice(w, 0, 6)
        /\ take_bits_range(w, 12, 14) = Slice(w, 12, 14)
        /\ take_bits_range(w, 7, 11) = Slice(w, 7, 11)
        /\ take_bits_range(w, 15, 19) = Slice(w, 15, 19)
        /\ take_bits_range(w, 20, 24) = Slice(w, 20, 24)
    BY <1>3 DEF Bit
  <2> QED
    BY <2>1, Zenon DEF decode, idu
<1> USE DEF take_bits_range, take_bit, Shl, Ones, Wired, Bit
<1>5. d.i = i.i
  BY <1>1 DEF decode, idu
<1>6. d.u = i.u
  BY <1>1 DEF decode, idu
<1>7. d.s = i.s
  BY <1>1 DEF decode, idu
<1>8. d.j = i.j
  BY <1>1 DEF decode, idu
<1>9. d.b = i.b
  BY <1>1 DEF decode, idu, b_imm
<1> QED
  BY <1>4, <1>5, <1>6, <1>7, <1>8, <1>9, Zenon DEF decode, idu

-----------------------------------------------------------------------------
(* The encoders: a word again, with the opcode and the function code they  *)
(* are given, whatever the operands.                                       *)

Opcodes == {OPCODE_LUI, OPCODE_AUIPC, OPCODE_JAL, OPCODE_JALR, OPCODE_BRANCH, OPCODE_LOAD,
            OPCODE_STORE, OPCODE_CALC_IMM, OPCODE_CALC_REG, OPCODE_SYSTEM}

LEMMA OpcodeBits == \A op \in Opcodes : \A k \in op : k \in 0 .. 6
BY DEF Opcodes, OPCODE_LUI, OPCODE_AUIPC, OPCODE_JAL, OPCODE_JALR, OPCODE_BRANCH, OPCODE_LOAD,
       OPCODE_STORE, OPCODE_CALC_IMM, OPCODE_CALC_REG, OPCODE_SYSTEM

LEMMA DrawnBits ==
  ASSUME NEW n \in Nat, NEW b \in random_bits(n)
  PROVE  b \in Word /\ \A k \in b : k \in 0 .. n - 1
BY RandomInstAssumption DEF random_bits, Word

LEMMA ShlWord == \A w, n : Shl(w, n) \in Word
BY DEF Shl, Word

\* Bit by bit, which is how the words are compared below.
LEMMA ShlBits == \A w, n, k : k \in Shl(w, n) <=> k \in Bit /\ k - n \in w
BY DEF Shl

\* A word that leaves the opcode alone.
High(w) == w \in Word /\ \A k \in w : k > 6

LEMMA OpcodeField ==
  ASSUME NEW fields, High(fields), NEW op \in Opcodes
  PROVE  fields \cup op \in Word /\ take_bits_range(fields \cup op, 0, 6) = op
<1>1. \A k \in op : k \in 0 .. 6
  BY OpcodeBits
<1>2. fields \cup op \in Word
  <2>1. \A k \in op : k \in Bit
    BY <1>1 DEF Bit
  <2> QED
    BY <2>1 DEF Word, High
<1>3. ASSUME NEW k \in Bit, k + 0 \in fields \cup op, k + 0 <= 6 PROVE k \in op
  <2>1. k + 0 = k
    BY DEF Bit
  <2> QED
    BY <1>3, <2>1 DEF High, Bit
<1>4. ASSUME NEW k \in op PROVE k \in Bit /\ k + 0 \in fields \cup op /\ k + 0 <= 6
  <2>1. k \in 0 .. 6 /\ k + 0 = k
    BY <1>1
  <2> QED
    BY <2>1 DEF Bit
<1> QED
  BY <1>2, <1>3, <1>4 DEF take_bits_range

LEMMA HighShl == ASSUME NEW w \in Word, NEW n \in 7 .. 31 PROVE High(Shl(w, n))
<1>1. Shl(w, n) \in Word
  BY ShlWord
<1>2. ASSUME NEW k \in Shl(w, n) PROVE k > 6
  <2>1. k \in Bit /\ k - n \in w
    BY ShlBits
  <2>2. k - n \in Bit
    BY <2>1 DEF Word
  <2> QED
    BY <2>1, <2>2 DEF Bit
<1> QED
  BY <1>1, <1>2 DEF High

LEMMA HighUnion == ASSUME NEW v, NEW w, High(v), High(w) PROVE High(v \cup w)
BY DEF High, Word

LEMMA u_typeWord ==
  ASSUME NEW imm \in Word, NEW rd \in Word, NEW op \in Opcodes
  PROVE  u_type(imm, rd, op) \in Word /\ take_bits_range(u_type(imm, rd, op), 0, 6) = op
<1>1. High(Shl(imm, 12)) /\ High(Shl(rd, 7))
  BY HighShl
<1>2. High(Shl(imm, 12) \cup Shl(rd, 7))
  BY <1>1, HighUnion
<1> QED
  BY <1>2, OpcodeField DEF u_type

LEMMA i_typeWord ==
  ASSUME NEW imm \in Word, NEW rs1 \in Word, NEW f3 \in Word, NEW rd \in Word, NEW op \in Opcodes
  PROVE  /\ i_type(imm, rs1, f3, rd, op) \in Word
         /\ take_bits_range(i_type(imm, rs1, f3, rd, op), 0, 6) = op
<1>1. High(Shl(imm, 20)) /\ High(Shl(rs1, 15)) /\ High(Shl(f3, 12)) /\ High(Shl(rd, 7))
  BY HighShl
<1>2. High(Shl(imm, 20) \cup Shl(rs1, 15) \cup Shl(f3, 12) \cup Shl(rd, 7))
  BY <1>1, HighUnion
<1> QED
  BY <1>2, OpcodeField DEF i_type

LEMMA r_typeWord ==
  ASSUME NEW f7 \in Word, NEW rs2 \in Word, NEW rs1 \in Word, NEW f3 \in Word,
         NEW rd \in Word, NEW op \in Opcodes
  PROVE  /\ r_type(f7, rs2, rs1, f3, rd, op) \in Word
         /\ take_bits_range(r_type(f7, rs2, rs1, f3, rd, op), 0, 6) = op
<1>1. High(Shl(f7, 24)) /\ High(Shl(rs2, 20)) /\ High(Shl(rs1, 15)) /\ High(Shl(f3, 12))
      /\ High(Shl(rd, 7))
  BY HighShl
<1>2. High(Shl(f7, 24) \cup Shl(rs2, 20) \cup Shl(rs1, 15) \cup Shl(f3, 12) \cup Shl(rd, 7))
  BY <1>1, HighUnion
<1> QED
  BY <1>2, OpcodeField DEF r_type

\* In a store or a branch the function code is what it was, too.
LEMMA s_typeWord ==
  ASSUME NEW imm \in Word, NEW rs2 \in Word, NEW rs1 \in Word, NEW f3 \in SUBSET (0 .. 2),
         NEW op \in Opcodes
  PROVE  /\ s_type(imm, rs2, rs1, f3, op) \in Word
         /\ take_bits_range(s_type(imm, rs2, rs1, f3, op), 0, 6) = op
         /\ take_bits_range(s_type(imm, rs2, rs1, f3, op), 12, 14) = f3
<1> DEFINE lo == imm \cap (0 .. 4)
           up == Shl(Shr(imm, 5), 25) \cup Shl(rs2, 20) \cup Shl(rs1, 15)
           w  == s_type(imm, rs2, rs1, f3, op)
<1>1. w = up \cup Shl(f3, 12) \cup Shl(lo, 7) \cup op
  BY DEF s_type
<1>2. Shr(imm, 5) \in Word /\ f3 \in Word /\ lo \in Word
  BY DEF Shr, Word, Bit
<1>3. w \in Word /\ take_bits_range(w, 0, 6) = op
  <2>1. /\ High(Shl(Shr(imm, 5), 25)) /\ High(Shl(rs2, 20)) /\ High(Shl(rs1, 15))
        /\ High(Shl(f3, 12)) /\ High(Shl(lo, 7))
    BY <1>2, HighShl
  <2>2. PICK fields : fields = up \cup Shl(f3, 12) \cup Shl(lo, 7)
    OBVIOUS
  <2>3. High(fields)
    BY <2>1, <2>2, HighUnion
  <2>4. w = fields \cup op
    BY <1>1, <2>2, Zenon
  <2>5. fields \cup op \in Word /\ take_bits_range(fields \cup op, 0, 6) = op
    BY <2>3, OpcodeField
  <2> QED
    BY <2>4, <2>5, Zenon
<1>4. ASSUME NEW v \in Word, NEW n \in 15 .. 31, NEW k \in 12 .. 14 PROVE k \notin Shl(v, n)
  <2>1. k - n \notin Bit
    BY DEF Bit
  <2> QED
    BY <2>1, ShlBits DEF Word
<1>5. ASSUME NEW k \in 12 .. 14 PROVE k \notin Shl(lo, 7)
  BY ShlBits
<1>6. ASSUME NEW k \in 12 .. 14 PROVE k \in w <=> k - 12 \in f3
  <2>1. /\ k \notin Shl(Shr(imm, 5), 25) /\ k \notin Shl(rs2, 20) /\ k \notin Shl(rs1, 15)
    BY <1>2, <1>4
  <2>2. k \in Shl(f3, 12) <=> k - 12 \in f3
    BY ShlBits DEF Bit
  <2>3. k \notin op
    BY OpcodeBits
  <2> QED
    BY <1>1, <1>5, <2>1, <2>2, <2>3, Zenon
<1>7. ASSUME NEW k \in Bit, k + 12 <= 14 PROVE k + 12 \in w <=> k \in f3
  <2>1. k + 12 \in 12 .. 14 /\ (k + 12) - 12 = k
    BY <1>7 DEF Bit
  <2> QED
    BY <1>6, <2>1
<1>8. ASSUME NEW k \in f3 PROVE k \in Bit /\ k + 12 <= 14
  BY DEF Bit
<1>9. take_bits_range(w, 12, 14) = f3
  BY <1>7, <1>8 DEF take_bits_range
<1> QED
  BY <1>3, <1>9

-----------------------------------------------------------------------------
(* The inductive invariant: the word about to be stored is one that both   *)
(* sides execute alike, and there is room for it.                          *)

Sound(w) == w \in Word /\ Comparable(decode(w))

Room == inst # NoInst => inst_count < n_insts /\ Sound(inst)

IInv == TypeOK /\ Room

OperandSet == [imm : Word, rs2 : Word, rs1 : Word, f3 : Word, bit : Word, rd : Word]

LEMMA OperandsType ==
  /\ \A imm, rs2, rs1, f3, bit, rd \in Word : Operands(imm, rs2, rs1, f3, bit, rd) \in OperandSet
  /\ NoOperands \in OperandSet
  /\ {} \in Word
<1>1. {} \in Word
  BY DEF Word
<1>2. \A imm, rs2, rs1, f3, bit, rd \in Word : Operands(imm, rs2, rs1, f3, bit, rd) \in OperandSet
  BY DEF Operands, OperandSet
<1> QED
  BY <1>1, <1>2 DEF NoOperands

\* The function codes are told apart only in stores and branches.
LEMMA SoundOpcode ==
  ASSUME NEW w \in Word, NEW op, take_bits_range(w, 0, 6) = op,
         op # OPCODE_STORE, op # OPCODE_BRANCH
  PROVE  Sound(w)
<1>1. decode(w).opcode = op
  BY DEF decode
<1> QED
  BY <1>1 DEF Sound, Comparable

LEMMA OtherOpcodes ==
  ASSUME NEW op \in {OPCODE_LUI, OPCODE_AUIPC, OPCODE_JAL, OPCODE_JALR, OPCODE_LOAD,
                     OPCODE_CALC_IMM, OPCODE_CALC_REG, OPCODE_SYSTEM}
  PROVE  op \in Opcodes /\ op # OPCODE_STORE /\ op # OPCODE_BRANCH
<1>1. op \in Opcodes
  BY DEF Opcodes
<1>2. 0 \in op /\ 1 \in op
  BY DEF OPCODE_LUI, OPCODE_AUIPC, OPCODE_JAL, OPCODE_JALR, OPCODE_LOAD,
         OPCODE_CALC_IMM, OPCODE_CALC_REG, OPCODE_SYSTEM
<1>3. op # OPCODE_STORE
  <2>1. 5 \in OPCODE_STORE /\ 2 \notin OPCODE_STORE /\ 4 \notin OPCODE_STORE /\ 6 \notin OPCODE_STORE
    BY DEF OPCODE_STORE
  <2>2. 5 \notin op \/ 2 \in op \/ 4 \in op \/ 6 \in op
    BY DEF OPCODE_LUI, OPCODE_AUIPC, OPCODE_JAL, OPCODE_JALR, OPCODE_LOAD,
           OPCODE_CALC_IMM, OPCODE_CALC_REG, OPCODE_SYSTEM
  <2> QED
    BY <2>1, <2>2
<1>4. op # OPCODE_BRANCH
  <2>1. /\ 5 \in OPCODE_BRANCH /\ 6 \in OPCODE_BRANCH
        /\ 2 \notin OPCODE_BRANCH /\ 4 \notin OPCODE_BRANCH
    BY DEF OPCODE_BRANCH
  <2>2. 5 \notin op \/ 6 \notin op \/ 2 \in op \/ 4 \in op
    BY DEF OPCODE_LUI, OPCODE_AUIPC, OPCODE_JAL, OPCODE_JALR, OPCODE_LOAD,
           OPCODE_CALC_IMM, OPCODE_CALC_REG, OPCODE_SYSTEM
  <2> QED
    BY <2>1, <2>2
<1> QED
  BY <1>1, <1>3, <1>4

LEMMA u_typeSound ==
  ASSUME NEW imm \in Word, NEW rd \in Word, NEW op \in {OPCODE_LUI, OPCODE_AUIPC, OPCODE_JAL}
  PROVE  Sound(u_type(imm, rd, op))
<1>1. op \in Opcodes /\ op # OPCODE_STORE /\ op # OPCODE_BRANCH
  BY OtherOpcodes
<1>2. /\ u_type(imm, rd, op) \in Word
      /\ take_bits_range(u_type(imm, rd, op), 0, 6) = op
  BY <1>1, u_typeWord
<1> QED
  BY <1>1, <1>2, SoundOpcode

LEMMA i_typeSound ==
  ASSUME NEW imm \in Word, NEW rs1 \in Word, NEW f3 \in Word, NEW rd \in Word,
         NEW op \in {OPCODE_JALR, OPCODE_LOAD, OPCODE_CALC_IMM}
  PROVE  Sound(i_type(imm, rs1, f3, rd, op))
<1>1. op \in Opcodes /\ op # OPCODE_STORE /\ op # OPCODE_BRANCH
  BY OtherOpcodes
<1>2. /\ i_type(imm, rs1, f3, rd, op) \in Word
      /\ take_bits_range(i_type(imm, rs1, f3, rd, op), 0, 6) = op
  BY <1>1, i_typeWord
<1> QED
  BY <1>1, <1>2, SoundOpcode

LEMMA r_typeSound ==
  ASSUME NEW f7 \in Word, NEW rs2 \in Word, NEW rs1 \in Word, NEW f3 \in Word, NEW rd \in Word
  PROVE  Sound(r_type(f7, rs2, rs1, f3, rd, OPCODE_CALC_REG))
<1>1. OPCODE_CALC_REG \in Opcodes /\ OPCODE_CALC_REG # OPCODE_STORE /\ OPCODE_CALC_REG # OPCODE_BRANCH
  BY OtherOpcodes
<1>2. /\ r_type(f7, rs2, rs1, f3, rd, OPCODE_CALC_REG) \in Word
      /\ take_bits_range(r_type(f7, rs2, rs1, f3, rd, OPCODE_CALC_REG), 0, 6) = OPCODE_CALC_REG
  BY <1>1, r_typeWord
<1> QED
  BY <1>1, <1>2, SoundOpcode

\* Neither side's table of function codes is left.
LEMMA s_typeSound ==
  ASSUME NEW imm \in Word, NEW rs2 \in Word, NEW rs1 \in Word, NEW f3 \in SUBSET (0 .. 2),
         NEW op \in {OPCODE_STORE, OPCODE_BRANCH},
         op = OPCODE_STORE => f3 \in {{}, {0}, {1}},
         op = OPCODE_BRANCH => f3 # {1}
  PROVE  Sound(s_type(imm, rs2, rs1, f3, op))
<1> DEFINE w == s_type(imm, rs2, rs1, f3, op)
<1>1. op \in Opcodes
  BY DEF Opcodes
<1>2. w \in Word /\ take_bits_range(w, 0, 6) = op /\ take_bits_range(w, 12, 14) = f3
  BY <1>1, s_typeWord
<1>3. decode(w).opcode = op /\ decode(w).funct3 = f3
  BY <1>2 DEF decode
<1> QED
  BY <1>2, <1>3 DEF Sound, Comparable

\* What a call of random_instruction returns.
LEMMA DrawnSound ==
  ASSUME random_instruction
  PROVE  /\ Sound(inst') /\ drawn' \in OperandSet
         /\ inst_count < n_insts
         /\ UNCHANGED <<inst_flags, inst_count, base>>
<1>1. \A n \in {1, 3, 4, 12, 20} : \A b \in random_bits(n) : b \in Word
  BY DrawnBits
<1>2. random_reg \subseteq random_bits(4)
  BY DEF random_reg
<1>3. \A k \in random_range(0, 5) : k \in 0 .. 4
  BY DEF random_range
<1>4. \A k \in random_range(0, 3) : k \in 0 .. 2
  BY DEF random_range
<1>5. inst_count < n_insts
  BY Zenon DEF random_instruction, Drawing, Filling
<1>6. SUFFICES \E word, operands : Returns(word, operands) /\ Sound(word) /\ operands \in OperandSet
  BY <1>5, Zenon DEF Returns
<1>7. CASE DrawUpper
  <2>1. PICK op \in {OPCODE_LUI, OPCODE_AUIPC, OPCODE_JAL} \cap opcodes,
             imm \in random_bits(20), rd \in random_bits(4) :
          Returns(u_type(imm, rd, op), Operands(imm, {}, {}, {}, {}, rd))
    BY <1>7 DEF DrawUpper
  <2>2. imm \in Word /\ rd \in Word
    BY <1>1
  <2> QED
    BY <2>1, <2>2, u_typeSound, OperandsType
<1>8. CASE DrawJalr
  <2>1. PICK imm \in random_bits(12), rs1 \in random_bits(4), rd \in random_bits(4) :
          Returns(jalr(imm, rs1, rd), Operands(imm, {}, rs1, {}, {}, rd))
    BY <1>8 DEF DrawJalr
  <2>2. imm \in Word /\ rs1 \in Word /\ rd \in Word
    BY <1>1
  <2>3. Sound(jalr(imm, rs1, rd))
    BY <2>2, i_typeSound, OperandsType DEF jalr
  <2> QED
    BY <2>1, <2>2, <2>3, OperandsType
<1>9. CASE DrawBranch
  <2>1. PICK imm \in random_bits(12), rs2 \in random_bits(4), rs1 \in random_bits(4),
             k \in random_range(0, 5) :
          Returns(s_type(imm, rs2, rs1, branch_types[k + 1], OPCODE_BRANCH),
                  Operands(imm, rs2, rs1, branch_types[k + 1], {}, {}))
    BY <1>9 DEF DrawBranch
  <2>2. imm \in Word /\ rs2 \in Word /\ rs1 \in Word
    BY <1>1
  <2>3. PICK f3 : f3 = branch_types[k + 1]
    OBVIOUS
  <2>4. f3 \in SUBSET (0 .. 2) /\ f3 # {1}
    BY <1>3, <2>3 DEF branch_types
  <2>5. f3 \in Word
    BY <2>4 DEF Word, Bit
  <2>6. Sound(s_type(imm, rs2, rs1, f3, OPCODE_BRANCH))
    <3>1. OPCODE_BRANCH # OPCODE_STORE
      BY DEF OPCODE_BRANCH, OPCODE_STORE
    <3> QED
      BY <2>2, <2>4, <3>1, s_typeSound
  <2> QED
    BY <2>1, <2>2, <2>3, <2>5, <2>6, OperandsType
<1>10. CASE DrawLoad
  <2>1. PICK imm \in random_bits(12), rs1 \in random_reg, rd \in random_bits(4),
             k \in random_range(0, 5) :
          Returns(i_type(imm, rs1, load_types[k + 1], rd, OPCODE_LOAD),
                  Operands(imm, {}, rs1, load_types[k + 1], {}, rd))
    BY <1>10 DEF DrawLoad
  <2>2. imm \in Word /\ rs1 \in Word /\ rd \in Word
    BY <1>1, <1>2
  <2>3. PICK f3 : f3 = load_types[k + 1]
    OBVIOUS
  <2>4. f3 \in Word
    BY <1>3, <2>3 DEF load_types, Word, Bit
  <2>5. Sound(i_type(imm, rs1, f3, rd, OPCODE_LOAD))
    BY <2>2, <2>4, i_typeSound
  <2> QED
    BY <2>1, <2>2, <2>3, <2>4, <2>5, OperandsType
<1>11. CASE DrawStore
  <2>1. PICK imm \in random_bits(12), rs2 \in random_bits(4), rs1 \in random_reg,
             k \in random_range(0, 3) :
          Returns(s_type(imm, rs2, rs1, store_types[k + 1], OPCODE_STORE),
                  Operands(imm, rs2, rs1, store_types[k + 1], {}, {}))
    BY <1>11 DEF DrawStore
  <2>2. imm \in Word /\ rs2 \in Word /\ rs1 \in Word
    BY <1>1, <1>2
  <2>3. PICK f3 : f3 = store_types[k + 1]
    OBVIOUS
  <2>4. f3 \in {{}, {0}, {1}}
    BY <1>4, <2>3 DEF store_types
  <2>5. f3 \in SUBSET (0 .. 2) /\ f3 \in Word
    BY <2>4 DEF Word, Bit
  <2>6. Sound(s_type(imm, rs2, rs1, f3, OPCODE_STORE))
    <3>1. OPCODE_BRANCH # OPCODE_STORE
      BY DEF OPCODE_BRANCH, OPCODE_STORE
    <3> QED
      BY <2>2, <2>4, <2>5, <3>1, s_typeSound
  <2> QED
    BY <2>1, <2>2, <2>3, <2>5, <2>6, OperandsType
<1>12. CASE DrawCalcImm
  <2>1. PICK imm \in random_bits(12), rs1 \in random_bits(4), rd \in random_bits(4),
             f3 \in random_bits(3) :
          Returns(i_type(imm, rs1, f3, rd, OPCODE_CALC_IMM), Operands(imm, {}, rs1, f3, {}, rd))
    BY <1>12 DEF DrawCalcImm
  <2>2. imm \in Word /\ rs1 \in Word /\ rd \in Word /\ f3 \in Word
    BY <1>1
  <2>3. Sound(i_type(imm, rs1, f3, rd, OPCODE_CALC_IMM))
    BY <2>2, i_typeSound
  <2> QED
    BY <2>1, <2>2, <2>3, OperandsType
<1>13. CASE DrawCalcReg
  <2>1. PICK rs2 \in random_bits(4), rs1 \in random_bits(4), rd \in random_bits(4),
             bit \in random_bits(1), f3 \in random_bits(3) :
          Returns(r_type(Shl(bit, 6), rs2, rs1, f3, rd, OPCODE_CALC_REG),
                  Operands({}, rs2, rs1, f3, bit, rd))
    BY <1>13 DEF DrawCalcReg
  <2>2. /\ rs2 \in Word /\ rs1 \in Word /\ rd \in Word /\ bit \in Word /\ f3 \in Word
        /\ Shl(bit, 6) \in Word
    BY <1>1, ShlWord
  <2>3. Sound(r_type(Shl(bit, 6), rs2, rs1, f3, rd, OPCODE_CALC_REG))
    BY <2>2, r_typeSound
  <2> QED
    BY <2>1, <2>2, <2>3, OperandsType
<1>14. CASE DrawSystem
  <2>1. Returns(ebreak, NoOperands)
    BY <1>14 DEF DrawSystem
  <2>2. ebreak \in Word /\ take_bits_range(ebreak, 0, 6) = OPCODE_SYSTEM
    BY DEF ebreak, OPCODE_SYSTEM, take_bits_range, Word, Bit
  <2>3. OPCODE_SYSTEM # OPCODE_STORE /\ OPCODE_SYSTEM # OPCODE_BRANCH
    BY OtherOpcodes
  <2> QED
    BY <2>1, <2>2, <2>3, SoundOpcode, OperandsType
<1>15. CASE DrawNothing
  <2>1. Returns({}, NoOperands)
    BY <1>15 DEF DrawNothing
  <2>2. {} \in Word /\ take_bits_range({}, 0, 6) = {}
    BY DEF take_bits_range, Word
  <2>3. {} # OPCODE_STORE /\ {} # OPCODE_BRANCH
    BY DEF OPCODE_STORE, OPCODE_BRANCH
  <2> QED
    BY <2>1, <2>2, <2>3, SoundOpcode, OperandsType
<1> QED
  BY <1>7, <1>8, <1>9, <1>10, <1>11, <1>12, <1>13, <1>14, <1>15, Zenon DEF random_instruction

LEMMA BitsWord == \A n : Bits(n) \in Word
BY DEF Bits, Word, Bit

LEMMA IInvInit == Init => IInv
<1>1. \A w \in Word : w # NoInst
  BY DEF Word, Bit, NoInst
<1> QED
  BY OperandsType, RandomInstAssumption DEF Init, IInv, TypeOK, Room, OperandSet, NPrologue, N_REGS

LEMMA IInvStep == IInv /\ [Next]_vars => IInv'
<1> SUFFICES ASSUME IInv, [Next]_vars PROVE IInv'
  OBVIOUS
<1>1. /\ TypeOK /\ Room /\ n_insts \in Nat /\ n_insts >= 30 /\ inst_count \in 0 .. n_insts
  BY RandomInstAssumption DEF IInv, TypeOK, NPrologue, N_REGS
\* It is enough to know what is written.
<1>2. ASSUME /\ UNCHANGED inst_flags
             /\ inst_count' \in 0 .. n_insts
             /\ base' \in {0} \cup {BasePage(c) : c \in 1 .. 3}
             /\ drawn' \in OperandSet
             /\ \/ inst' = NoInst
                \/ Sound(inst') /\ inst_count' < n_insts
      PROVE  IInv'
  BY <1>1, <1>2 DEF IInv, TypeOK, Room, Sound, OperandSet
<1>3. CASE SetUpper
  <2>1. PICK mem_rand \in random_range(0, 2) : base' = BasePage(mem_rand + 1)
    BY <1>3 DEF SetUpper
  <2>2. mem_rand + 1 \in 1 .. 3
    BY DEF random_range
  <2>3. /\ inst' = lui(Bits(base'), ThisRegister) /\ drawn' = NoOperands
        /\ UNCHANGED <<inst_flags, inst_count>> /\ inst_count < NPrologue
    BY <1>3 DEF SetUpper
  <2>4. Sound(inst')
    BY <2>3, u_typeSound, BitsWord DEF lui, ThisRegister
  <2> QED
    BY <1>1, <1>2, <2>1, <2>2, <2>3, <2>4, OperandsType DEF NPrologue, N_REGS
<1>4. CASE SetLower
  <2>1. PICK imm \in random_bits(12) : inst' = addi(imm, ThisRegister, ThisRegister)
    BY <1>4 DEF SetLower
  <2>2. drawn' = NoOperands /\ UNCHANGED <<inst_flags, inst_count, base>> /\ inst_count < NPrologue
    BY <1>4 DEF SetLower
  <2>3. imm \in Word /\ ThisRegister \in Word /\ FUNCT3_ADD \in Word
    BY DrawnBits, BitsWord, OperandsType DEF ThisRegister, FUNCT3_ADD
  <2>4. Sound(inst')
    BY <2>1, <2>3, i_typeSound DEF addi, calc_imm
  <2> QED
    BY <1>1, <1>2, <2>2, <2>4, OperandsType DEF TypeOK, NPrologue, N_REGS
<1>5. CASE random_instruction
  <2>1. /\ Sound(inst') /\ drawn' \in OperandSet /\ inst_count < n_insts
        /\ UNCHANGED <<inst_flags, inst_count, base>>
    BY <1>5, DrawnSound
  <2> QED
    BY <1>1, <1>2, <2>1 DEF TypeOK
<1>6. CASE Store
  <2>1. /\ inst # NoInst /\ inst_count' = inst_count + 1
        /\ inst' = NoInst /\ drawn' = NoOperands /\ UNCHANGED inst_flags
        /\ base' = 0 \/ base' = base
    BY <1>6 DEF Store
  <2>2. inst_count < n_insts
    BY <1>1, <2>1 DEF Room
  <2> QED
    BY <1>1, <1>2, <2>1, <2>2, OperandsType DEF TypeOK
<1>7. CASE NextTest
  <2>1. inst = NoInst /\ inst_count' = 0 /\ UNCHANGED <<inst_flags, base, inst, drawn>>
    BY <1>7 DEF NextTest
  <2> QED
    BY <1>1, <1>2, <2>1 DEF TypeOK, OperandSet
<1>8. CASE UNCHANGED vars
  BY <1>1, <1>8 DEF vars, IInv, TypeOK, Room
<1> QED
  BY <1>3, <1>4, <1>5, <1>6, <1>7, <1>8, Zenon DEF Next

LEMMA Invariance == Spec => []IInv
BY IInvInit, IInvStep, PTL DEF Spec

(***************************************************************************)
(* No program is longer than was asked for, and each word is one of 32     *)
(* bits (soc_main.cpp:1161-1175), whatever is drawn.                       *)
(***************************************************************************)
THEOREM TypeCorrect == Spec => []TypeOK
<1>1. IInv => TypeOK
  BY DEF IInv
<1> QED
  BY <1>1, Invariance, PTL

(***************************************************************************)
(* Every word of every random program (riscv.cpp:456-552) is taken apart   *)
(* in the same way by the CPU (idu.sv) and by the golden model (gcpu.cpp), *)
(* and is none of those they execute differently: what VsocGold assumes of *)
(* its programs, for every generator and every length.                     *)
(***************************************************************************)
THEOREM RandomProgramsComparable == Spec => []SameInstruction
<1>1. IInv => SameInstruction
  <2> SUFFICES ASSUME IInv, inst # NoInst PROVE decode(inst) = idu(inst) /\ Comparable(decode(inst))
    BY DEF SameInstruction
  <2>1. inst \in Word /\ Comparable(decode(inst))
    BY Zenon DEF IInv, Room, Sound
  <2> QED
    BY <2>1, WordsAlike
<1> QED
  BY <1>1, Invariance, PTL

-----------------------------------------------------------------------------
(* Every bit of every word.  Below, a word of each format is known by its  *)
(* bits, then by the fields the decoders find, then by what the encoders   *)
(* make of them again.                                                     *)

Imm20 == SUBSET (0 .. 19)
Imm12 == SUBSET (0 .. 11)
Reg4  == SUBSET (0 .. 3)

\* A field is known by its bits.
Field(w, from, to, f) ==
  /\ from \in Bit /\ to \in Bit
  /\ \A k \in f : k \in 0 .. to - from
  /\ \A k \in Bit : from <= k /\ k <= to => (k \in w <=> k - from \in f)

LEMMA FieldSlice ==
  ASSUME NEW w \in Word, NEW from, NEW to, NEW f, Field(w, from, to, f)
  PROVE  Slice(w, from, to) = f
<1> USE DEF Field
<1>1. ASSUME NEW k \in 0 .. to - from PROVE k + from \in w <=> k \in f
  <2>1. k + from \in Bit /\ from <= k + from /\ k + from <= to /\ (k + from) - from = k
    BY DEF Bit
  <2> QED  BY <2>1
<1>2. -1 \notin w
  BY DEF Word, Bit
<1>3. \A k \in 0 .. to - from : k \in Bit
  BY DEF Bit
<1> QED  BY <1>1, <1>2, <1>3 DEF Slice, Wired, Bit

LEMMA UBits ==
  ASSUME NEW imm \in Imm20, NEW rd \in Reg4, NEW op \in Opcodes, NEW k \in Bit
  PROVE  k \in u_type(imm, rd, op) <=>
           IF k <= 6 THEN k \in op ELSE IF k <= 11 THEN k - 7 \in rd ELSE k - 12 \in imm
<1>1. k \in op => k <= 6
  BY OpcodeBits
<1> QED
  BY <1>1, ShlBits DEF u_type, Imm20, Reg4, Bit

LEMMA IBits ==
  ASSUME NEW imm \in Imm12, NEW rs1 \in Reg4, NEW f3 \in Funct3, NEW rd \in Reg4,
         NEW op \in Opcodes, NEW k \in Bit
  PROVE  k \in i_type(imm, rs1, f3, rd, op) <=>
           IF k <= 6 THEN k \in op ELSE IF k <= 11 THEN k - 7 \in rd
           ELSE IF k <= 14 THEN k - 12 \in f3 ELSE IF k <= 19 THEN k - 15 \in rs1
           ELSE k - 20 \in imm
<1>1. k \in op => k <= 6
  BY OpcodeBits
<1> QED
  BY <1>1, ShlBits DEF i_type, Imm12, Reg4, Funct3, Bit

LEMMA SBits ==
  ASSUME NEW imm \in Imm12, NEW rs2 \in Reg4, NEW rs1 \in Reg4, NEW f3 \in Funct3,
         NEW op \in Opcodes, NEW k \in Bit
  PROVE  k \in s_type(imm, rs2, rs1, f3, op) <=>
           IF k <= 6 THEN k \in op ELSE IF k <= 11 THEN k - 7 \in imm
           ELSE IF k <= 14 THEN k - 12 \in f3 ELSE IF k <= 19 THEN k - 15 \in rs1
           ELSE IF k <= 24 THEN k - 20 \in rs2 ELSE k - 20 \in imm
<1>1. k \in op => k <= 6
  BY OpcodeBits
<1>2. k \in Shl(Shr(imm, 5), 25) <=> k >= 25 /\ k - 20 \in imm
  BY ShlBits DEF Shr, Imm12, Bit
<1>3. k \in Shl(imm \cap (0 .. 4), 7) <=> k >= 7 /\ k <= 11 /\ k - 7 \in imm
  BY ShlBits DEF Imm12, Bit
<1> QED
  BY <1>1, <1>2, <1>3, ShlBits DEF s_type, Reg4, Funct3, Bit

LEMMA RBits ==
  ASSUME NEW bit \in SUBSET (0 .. 0), NEW rs2 \in Reg4, NEW rs1 \in Reg4, NEW f3 \in Funct3,
         NEW rd \in Reg4, NEW op \in Opcodes, NEW k \in Bit
  PROVE  k \in r_type(Shl(bit, 6), rs2, rs1, f3, rd, op) <=>
           IF k <= 6 THEN k \in op ELSE IF k <= 11 THEN k - 7 \in rd
           ELSE IF k <= 14 THEN k - 12 \in f3 ELSE IF k <= 19 THEN k - 15 \in rs1
           ELSE IF k <= 24 THEN k - 20 \in rs2 ELSE k = 30 /\ bit = {0}
<1>1. k \in op => k <= 6
  BY OpcodeBits
<1>2. k \in Shl(Shl(bit, 6), 24) <=> k = 30 /\ bit = {0}
  <2>1. k \in Shl(Shl(bit, 6), 24) <=> k - 24 \in Bit /\ (k - 24) - 6 \in bit
    BY ShlBits
  <2>2. bit = {0} <=> 0 \in bit
    <3>1. \A j \in bit : j = 0
      OBVIOUS
    <3> QED  BY <3>1
  <2> QED  BY <2>1, <2>2 DEF Bit
<1> QED
  BY <1>1, <1>2, ShlBits DEF r_type, Reg4, Funct3, Bit

\* A union of fields is a word, and each field is found again.
LEMMA UFields ==
  ASSUME NEW imm \in Imm20, NEW rd \in Reg4, NEW op \in Opcodes,
         NEW w, w = u_type(imm, rd, op)
  PROVE  /\ w \in Word
         /\ idu(w).opcode = op /\ idu(w).rd = rd
         /\ idu(w).u = Shl(imm, 12)
         /\ idu(w).j = {k \in Bit : JalBit(k) \in imm}
<1>1. w \in Word
  <2>1. imm \in Word /\ rd \in Word
    BY DEF Imm20, Reg4, Word, Bit
  <2> QED  BY <2>1, u_typeWord
<1>2. ASSUME NEW k \in Bit
      PROVE  k \in w <=> IF k <= 6 THEN k \in op ELSE IF k <= 11 THEN k - 7 \in rd ELSE k - 12 \in imm
  BY UBits
<1>3. \A k \in w : k \in Bit
  BY <1>1 DEF Word
<1>4. \A k \in imm : k \in 0 .. 19
  BY DEF Imm20
<1>5. /\ Field(w, 0, 6, op)
      /\ Field(w, 7, 11, rd)
  BY <1>2, OpcodeBits DEF Field, Reg4, Funct3, Bit
<1>6. /\ Slice(w, 0, 6) = op
      /\ Slice(w, 7, 11) = rd
  BY <1>1, <1>5, FieldSlice
<1>7. idu(w).u = Shl(imm, 12)
  BY <1>2, <1>3, <1>4 DEF idu, Wired, Shl, Bit
<1>8. idu(w).j = {k \in Bit : JalBit(k) \in imm}
  BY <1>2, <1>3, <1>4 DEF idu, Wired, JalBit, Bit
<1> QED
  BY <1>1, <1>6, <1>7, <1>8, Zenon DEF idu

LEMMA IFields ==
  ASSUME NEW imm \in Imm12, NEW rs1 \in Reg4, NEW f3 \in Funct3, NEW rd \in Reg4,
         NEW op \in Opcodes, NEW w, w = i_type(imm, rs1, f3, rd, op)
  PROVE  /\ w \in Word
         /\ idu(w).opcode = op /\ idu(w).rd = rd /\ idu(w).funct3 = f3 /\ idu(w).rs1 = rs1
         /\ idu(w).sub <=> 10 \in imm
         /\ idu(w).i = Sext12(imm)
<1>1. w \in Word
  <2>1. imm \in Word /\ rs1 \in Word /\ f3 \in Word /\ rd \in Word
    BY DEF Imm12, Reg4, Funct3, Word, Bit
  <2> QED  BY <2>1, i_typeWord
<1>2. ASSUME NEW k \in Bit
      PROVE  k \in w <=>
               IF k <= 6 THEN k \in op ELSE IF k <= 11 THEN k - 7 \in rd
               ELSE IF k <= 14 THEN k - 12 \in f3 ELSE IF k <= 19 THEN k - 15 \in rs1
               ELSE k - 20 \in imm
  BY IBits
<1>3. \A k \in w : k \in Bit
  BY <1>1 DEF Word
<1>4. \A k \in imm : k \in 0 .. 11
  BY DEF Imm12
<1>5. /\ Field(w, 0, 6, op)
      /\ Field(w, 7, 11, rd)
      /\ Field(w, 12, 14, f3)
      /\ Field(w, 15, 19, rs1)
  BY <1>2, OpcodeBits DEF Field, Reg4, Funct3, Bit
<1>6. /\ Slice(w, 0, 6) = op
      /\ Slice(w, 7, 11) = rd
      /\ Slice(w, 12, 14) = f3
      /\ Slice(w, 15, 19) = rs1
  BY <1>1, <1>5, FieldSlice
<1>9. 30 \in w <=> 10 \in imm
  BY <1>2 DEF Bit
<1>10. idu(w).i = Sext12(imm)
  BY <1>2, <1>3, <1>4 DEF idu, Wired, Sext12, Bit
<1> QED
  BY <1>1, <1>6, <1>9, <1>10, Zenon DEF idu

LEMMA SFields ==
  ASSUME NEW imm \in Imm12, NEW rs2 \in Reg4, NEW rs1 \in Reg4, NEW f3 \in Funct3,
         NEW op \in Opcodes, NEW w, w = s_type(imm, rs2, rs1, f3, op)
  PROVE  /\ w \in Word
         /\ idu(w).opcode = op /\ idu(w).funct3 = f3 /\ idu(w).rs1 = rs1 /\ idu(w).rs2 = rs2
         /\ idu(w).s = Sext12(imm)
         /\ idu(w).b = {k \in Bit : BranchBit(k) \in imm}
<1>1. w \in Word
  <2>1. imm \in Word /\ rs1 \in Word /\ rs2 \in Word
    BY DEF Imm12, Reg4, Word, Bit
  <2> QED  BY <2>1, s_typeWord DEF Funct3
<1>2. ASSUME NEW k \in Bit
      PROVE  k \in w <=>
               IF k <= 6 THEN k \in op ELSE IF k <= 11 THEN k - 7 \in imm
               ELSE IF k <= 14 THEN k - 12 \in f3 ELSE IF k <= 19 THEN k - 15 \in rs1
               ELSE IF k <= 24 THEN k - 20 \in rs2 ELSE k - 20 \in imm
  BY SBits
<1>3. \A k \in w : k \in Bit
  BY <1>1 DEF Word
<1>4. \A k \in imm : k \in 0 .. 11
  BY DEF Imm12
<1>5. /\ Field(w, 0, 6, op)
      /\ Field(w, 12, 14, f3)
      /\ Field(w, 15, 19, rs1)
      /\ Field(w, 20, 24, rs2)
  BY <1>2, OpcodeBits DEF Field, Reg4, Funct3, Bit
<1>6. /\ Slice(w, 0, 6) = op
      /\ Slice(w, 12, 14) = f3
      /\ Slice(w, 15, 19) = rs1
      /\ Slice(w, 20, 24) = rs2
  BY <1>1, <1>5, FieldSlice
<1>9. idu(w).s = Sext12(imm)
  BY <1>2, <1>3, <1>4 DEF idu, Wired, Sext12, Bit
<1>10. idu(w).b = {k \in Bit : BranchBit(k) \in imm}
  BY <1>2, <1>3, <1>4 DEF idu, Wired, BranchBit, Bit
<1> QED
  BY <1>1, <1>6, <1>9, <1>10, Zenon DEF idu

LEMMA RFields ==
  ASSUME NEW bit \in SUBSET (0 .. 0), NEW rs2 \in Reg4, NEW rs1 \in Reg4, NEW f3 \in Funct3,
         NEW rd \in Reg4, NEW op \in Opcodes,
         NEW w, w = r_type(Shl(bit, 6), rs2, rs1, f3, rd, op)
  PROVE  /\ w \in Word
         /\ idu(w).opcode = op /\ idu(w).rd = rd /\ idu(w).funct3 = f3
         /\ idu(w).rs1 = rs1 /\ idu(w).rs2 = rs2
         /\ idu(w).sub <=> bit = {0}
         /\ w \cap {25, 26, 27, 28, 29, 31} = {}
<1>1. w \in Word
  <2>1. Shl(bit, 6) \in Word /\ rs2 \in Word /\ rs1 \in Word /\ f3 \in Word /\ rd \in Word
    BY ShlWord DEF Reg4, Funct3, Word, Bit
  <2> QED  BY <2>1, r_typeWord
<1>2. ASSUME NEW k \in Bit
      PROVE  k \in w <=>
               IF k <= 6 THEN k \in op ELSE IF k <= 11 THEN k - 7 \in rd
               ELSE IF k <= 14 THEN k - 12 \in f3 ELSE IF k <= 19 THEN k - 15 \in rs1
               ELSE IF k <= 24 THEN k - 20 \in rs2 ELSE k = 30 /\ bit = {0}
  BY RBits
<1>3. \A k \in w : k \in Bit
  BY <1>1 DEF Word
<1>5. /\ Field(w, 0, 6, op)
      /\ Field(w, 7, 11, rd)
      /\ Field(w, 12, 14, f3)
      /\ Field(w, 15, 19, rs1)
      /\ Field(w, 20, 24, rs2)
  BY <1>2, OpcodeBits DEF Field, Reg4, Funct3, Bit
<1>6. /\ Slice(w, 0, 6) = op
      /\ Slice(w, 7, 11) = rd
      /\ Slice(w, 12, 14) = f3
      /\ Slice(w, 15, 19) = rs1
      /\ Slice(w, 20, 24) = rs2
  BY <1>1, <1>5, FieldSlice
<1>10. 30 \in w <=> bit = {0}
  BY <1>2 DEF Bit
<1>11. w \cap {25, 26, 27, 28, 29, 31} = {}
  BY <1>2, <1>3 DEF Bit
<1> QED
  BY <1>1, <1>6, <1>10, <1>11, Zenon DEF idu

\* The opcodes by their bits: no two are the same.
Told(op) ==
  /\ op = OPCODE_JAL      <=> 3 \in op
  /\ op = OPCODE_LUI      <=> 3 \notin op /\ 2 \in op /\ 4 \in op /\ 5 \in op
  /\ op = OPCODE_AUIPC    <=> 3 \notin op /\ 2 \in op /\ 4 \in op /\ 5 \notin op
  /\ op = OPCODE_JALR     <=> 3 \notin op /\ 2 \in op /\ 4 \notin op
  /\ op = OPCODE_BRANCH   <=> 3 \notin op /\ 2 \notin op /\ 4 \notin op /\ 6 \in op
  /\ op = OPCODE_STORE    <=> 3 \notin op /\ 2 \notin op /\ 4 \notin op /\ 6 \notin op /\ 5 \in op
  /\ op = OPCODE_LOAD     <=> 3 \notin op /\ 2 \notin op /\ 4 \notin op /\ 6 \notin op /\ 5 \notin op
  /\ op = OPCODE_CALC_IMM <=> 3 \notin op /\ 2 \notin op /\ 4 \in op /\ 5 \notin op
  /\ op = OPCODE_CALC_REG <=> 3 \notin op /\ 2 \notin op /\ 4 \in op /\ 5 \in op /\ 6 \notin op
  /\ op = OPCODE_SYSTEM   <=> 3 \notin op /\ 2 \notin op /\ 4 \in op /\ 5 \in op /\ 6 \in op

LEMMA OpcodesTold == \A op \in Opcodes : Told(op)
BY DEF Told, Opcodes, OPCODE_LUI, OPCODE_AUIPC, OPCODE_JAL, OPCODE_JALR, OPCODE_BRANCH, OPCODE_LOAD,
       OPCODE_STORE, OPCODE_CALC_IMM, OPCODE_CALC_REG, OPCODE_SYSTEM

Decoded(w, d) ==
  LET i == idu(w) IN
    /\ i.opcode \in HasRd => i.rd = d.rd
    /\ i.opcode \in HasFunct3 =>
         i.funct3 = d.f3 /\ i.rs1 = d.rs1
    /\ i.opcode \in {OPCODE_BRANCH, OPCODE_STORE, OPCODE_CALC_REG} => i.rs2 = d.rs2
    /\ i.opcode = OPCODE_CALC_REG => (i.sub <=> d.bit = {0})
    /\ i.opcode \in {OPCODE_LOAD, OPCODE_CALC_IMM, OPCODE_JALR} => i.i = Sext12(d.imm)
    /\ i.opcode = OPCODE_STORE => i.s = Sext12(d.imm)
    /\ i.opcode \in {OPCODE_LUI, OPCODE_AUIPC} => i.u = Shl(d.imm, 12)
    /\ i.opcode = OPCODE_JAL => i.j = {k \in Bit : JalBit(k) \in d.imm}
    /\ i.opcode = OPCODE_BRANCH => i.b = {k \in Bit : BranchBit(k) \in d.imm}

LEMMA UWord ==
  ASSUME NEW d, NEW op \in {OPCODE_LUI, OPCODE_AUIPC, OPCODE_JAL},
         d.imm \in Imm20, d.rd \in Reg4, NEW w, w = u_type(d.imm, d.rd, op)
  PROVE  w \in Word /\ Decoded(w, d) /\ Assembled(w) = w
<1>1. op \in Opcodes /\ Told(op)
  BY OpcodesTold DEF Opcodes
<1>2. /\ w \in Word
      /\ idu(w).opcode = op /\ idu(w).rd = d.rd
      /\ idu(w).u = Shl(d.imm, 12)
      /\ idu(w).j = {k \in Bit : JalBit(k) \in d.imm}
  BY <1>1, UFields
<1>3. /\ op \in {OPCODE_LUI, OPCODE_AUIPC, OPCODE_JAL}
      /\ op \notin HasFunct3
      /\ op \notin {OPCODE_BRANCH, OPCODE_STORE, OPCODE_CALC_REG}
      /\ op \notin {OPCODE_LOAD, OPCODE_CALC_IMM, OPCODE_JALR}
      /\ op # OPCODE_CALC_REG /\ op # OPCODE_STORE /\ op # OPCODE_BRANCH
  BY <1>1 DEF Told, HasFunct3
<1>4. Decoded(w, d)
  BY <1>2, <1>3, Zenon DEF Decoded
<1>5. Shr(Shl(d.imm, 12), 12) = d.imm
  BY DEF Shl, Shr, Imm20, Bit
<1>6. decode(w) = idu(w)
  BY <1>2, WordsAlike
<1>7. Assembled(w) = u_type(Shr(idu(w).u, 12), idu(w).rd, op)
  BY <1>1, <1>2, <1>6 DEF Told, Assembled, lui, auipc, jal
<1> QED
  BY <1>2, <1>4, <1>5, <1>7

LEMMA IWord ==
  ASSUME NEW d, NEW op \in {OPCODE_JALR, OPCODE_LOAD, OPCODE_CALC_IMM},
         d.imm \in Imm12, d.rs1 \in Reg4, d.f3 \in Funct3, d.rd \in Reg4,
         op = OPCODE_JALR => d.f3 = {},
         NEW w, w = i_type(d.imm, d.rs1, d.f3, d.rd, op)
  PROVE  w \in Word /\ Decoded(w, d) /\ Assembled(w) = w
<1>1. op \in Opcodes /\ Told(op)
  BY OpcodesTold DEF Opcodes
<1>2. /\ w \in Word
      /\ idu(w).opcode = op /\ idu(w).rd = d.rd /\ idu(w).funct3 = d.f3 /\ idu(w).rs1 = d.rs1
      /\ idu(w).sub <=> 10 \in d.imm
      /\ idu(w).i = Sext12(d.imm)
  BY <1>1, IFields
<1>3. /\ op \notin {OPCODE_LUI, OPCODE_AUIPC}
      /\ op \notin {OPCODE_BRANCH, OPCODE_STORE, OPCODE_CALC_REG}
      /\ op # OPCODE_CALC_REG /\ op # OPCODE_STORE /\ op # OPCODE_BRANCH /\ op # OPCODE_JAL
  BY <1>1 DEF Told
<1>4. Decoded(w, d)
  BY <1>2, <1>3, Zenon DEF Decoded
<1> SUFFICES Assembled(w) = w
  BY <1>2, <1>4
<1>5. Shl(Sext12(d.imm), 20) = Shl(d.imm, 20)
  BY DEF Shl, Sext12, Imm12, Bit
<1>6. ASSUME 10 \in d.imm
      PROVE  Shl({5}, 25) \cup Shl(Sext12(d.imm) \ {10}, 20) = Shl(d.imm, 20)
  BY <1>6 DEF Shl, Sext12, Imm12, Bit
<1>7. decode(w) = idu(w)
  BY <1>2, WordsAlike
<1>8. i_type(Sext12(d.imm), d.rs1, d.f3, d.rd, op) = i_type(d.imm, d.rs1, d.f3, d.rd, op)
  BY <1>5, Zenon DEF i_type
<1>9. CASE op = OPCODE_CALC_IMM
  <2>1. Assembled(w) = IF d.f3 = FUNCT3_SR /\ idu(w).sub
                       THEN srai(Sext12(d.imm) \ {10}, d.rs1, d.rd)
                       ELSE calc_imm(d.f3, Sext12(d.imm), d.rs1, d.rd)
    BY <1>1, <1>2, <1>7, <1>9 DEF Told, Assembled
  <2>2. CASE d.f3 = FUNCT3_SR /\ idu(w).sub
    <3>1. Assembled(w) = srai(Sext12(d.imm) \ {10}, d.rs1, d.rd)
      BY <2>1, <2>2, Zenon
    <3>2. Shl({5}, 25) \cup Shl(Sext12(d.imm) \ {10}, 20) = Shl(d.imm, 20)
      BY <1>2, <1>6, <2>2
    <3>3. \A a, b, r1, r2, r3, r4 :
            a \cup (b \cup r1 \cup r2 \cup r3 \cup r4) = (a \cup b) \cup r1 \cup r2 \cup r3 \cup r4
      OBVIOUS
    <3>4. srai(Sext12(d.imm) \ {10}, d.rs1, d.rd) = i_type(d.imm, d.rs1, FUNCT3_SR, d.rd, OPCODE_CALC_IMM)
      BY <3>2, <3>3, Zenon DEF srai, calc_imm, i_type
    <3> QED  BY <1>9, <2>2, <3>1, <3>4
  <2>3. CASE ~(d.f3 = FUNCT3_SR /\ idu(w).sub)
    <3>1. Assembled(w) = calc_imm(d.f3, Sext12(d.imm), d.rs1, d.rd)
      BY <2>1, <2>3, Zenon
    <3> QED  BY <1>8, <1>9, <3>1 DEF calc_imm
  <2> QED  BY <2>2, <2>3
<1>10. CASE op # OPCODE_CALC_IMM
  <2>1. CASE op = OPCODE_JALR
    BY <1>1, <1>2, <1>7, <1>8, <2>1 DEF Told, Assembled, jalr
  <2>2. CASE op = OPCODE_LOAD
    BY <1>1, <1>2, <1>7, <1>8, <2>2 DEF Told, Assembled, load
  <2> QED  BY <1>10, <2>1, <2>2
<1> QED
  BY <1>9, <1>10

LEMMA SWord ==
  ASSUME NEW d, NEW op \in {OPCODE_BRANCH, OPCODE_STORE},
         d.imm \in Imm12, d.rs2 \in Reg4, d.rs1 \in Reg4, d.f3 \in Funct3,
         NEW w, w = s_type(d.imm, d.rs2, d.rs1, d.f3, op)
  PROVE  w \in Word /\ Decoded(w, d) /\ Assembled(w) = w
<1>1. op \in Opcodes /\ Told(op)
  BY OpcodesTold DEF Opcodes
<1>2. /\ w \in Word
      /\ idu(w).opcode = op /\ idu(w).funct3 = d.f3 /\ idu(w).rs1 = d.rs1 /\ idu(w).rs2 = d.rs2
      /\ idu(w).s = Sext12(d.imm)
      /\ idu(w).b = {k \in Bit : BranchBit(k) \in d.imm}
  BY <1>1, SFields
<1>3. /\ op \notin {OPCODE_LUI, OPCODE_AUIPC} /\ op \notin HasRd
      /\ op \notin {OPCODE_LOAD, OPCODE_CALC_IMM, OPCODE_JALR}
      /\ op # OPCODE_CALC_REG /\ op # OPCODE_JAL
  BY <1>1 DEF Told, HasRd
<1>4. Decoded(w, d)
  BY <1>2, <1>3, Zenon DEF Decoded
<1>5. Shl(Shr(Sext12(d.imm), 5), 25) = Shl(Shr(d.imm, 5), 25)
  BY DEF Shl, Shr, Sext12, Imm12, Bit
<1>6. Sext12(d.imm) \cap (0 .. 4) = d.imm \cap (0 .. 4)
  BY DEF Sext12, Imm12, Bit
<1>7. decode(w) = idu(w)
  BY <1>2, WordsAlike
<1>8. Assembled(w) = s_type(Sext12(d.imm), d.rs2, d.rs1, d.f3, op)
  BY <1>1, <1>2, <1>7 DEF Told, Assembled, branch, store
<1>9. s_type(Sext12(d.imm), d.rs2, d.rs1, d.f3, op) = s_type(d.imm, d.rs2, d.rs1, d.f3, op)
  BY <1>5, <1>6, Zenon DEF s_type
<1> QED
  BY <1>2, <1>4, <1>8, <1>9

\* The printer looks at all of funct7, of which only one bit is ever 1.
LEMMA RWord ==
  ASSUME NEW d, d.bit \in SUBSET (0 .. 0), d.rs2 \in Reg4, d.rs1 \in Reg4, d.f3 \in Funct3,
         d.rd \in Reg4,
         NEW w, w = r_type(Shl(d.bit, 6), d.rs2, d.rs1, d.f3, d.rd, OPCODE_CALC_REG)
  PROVE  /\ w \in Word /\ Decoded(w, d) /\ Assembled(w) = w
         /\ w \cap {25, 26, 27, 28, 29, 31} = {}
<1> DEFINE op == OPCODE_CALC_REG
<1>1. op \in Opcodes /\ Told(op)
  BY OpcodesTold DEF Opcodes
<1>2. /\ w \in Word
      /\ idu(w).opcode = op /\ idu(w).rd = d.rd /\ idu(w).funct3 = d.f3
      /\ idu(w).rs1 = d.rs1 /\ idu(w).rs2 = d.rs2
      /\ idu(w).sub <=> d.bit = {0}
      /\ w \cap {25, 26, 27, 28, 29, 31} = {}
  BY <1>1, RFields
<1>3. /\ op \notin {OPCODE_LUI, OPCODE_AUIPC}
      /\ op \notin {OPCODE_LOAD, OPCODE_CALC_IMM, OPCODE_JALR}
      /\ op # OPCODE_STORE /\ op # OPCODE_BRANCH /\ op # OPCODE_JAL
  BY <1>1 DEF Told
<1>4. Decoded(w, d)
  BY <1>2, <1>3, Zenon DEF Decoded
<1>5. Shl(IF d.bit = {0} THEN {5} ELSE {}, 25) = Shl(Shl(d.bit, 6), 24)
  <2>1. CASE d.bit = {0}
    BY <2>1 DEF Shl, Bit
  <2>2. CASE d.bit # {0}
    <3>1. d.bit = {}
      BY <2>2
    <3> QED  BY <2>2, <3>1 DEF Shl, Bit
  <2> QED  BY <2>1, <2>2
<1>6. decode(w) = idu(w)
  BY <1>2, WordsAlike
<1>7. Assembled(w) = calc_reg(idu(w).sub, d.f3, d.rs2, d.rs1, d.rd)
  BY <1>1, <1>2, <1>6 DEF Told, Assembled
<1>8. calc_reg(idu(w).sub, d.f3, d.rs2, d.rs1, d.rd) = w
  <2>1. (IF idu(w).sub THEN {5} ELSE {}) = (IF d.bit = {0} THEN {5} ELSE {})
    BY <1>2
  <2>2. calc_reg(idu(w).sub, d.f3, d.rs2, d.rs1, d.rd)
          = Shl(Shl(d.bit, 6), 24) \cup i_type(d.rs2, d.rs1, d.f3, d.rd, op)
    BY <1>5, <2>1, Zenon DEF calc_reg
  <2> QED  BY <2>2 DEF i_type, r_type
<1> QED
  BY <1>2, <1>4, <1>7, <1>8

-----------------------------------------------------------------------------
(* The words that are drawn, and a second inductive invariant: each word   *)
(* of a program is one that is drawn, of the operands that drawn has, or   *)
(* one of the prologue, and between the two words of a register its page   *)
(* is kept.                                                                *)

\* The words that are drawn, of the operands d.
IsU(w, d) ==
  /\ d.imm \in Imm20 /\ d.rd \in Reg4
  /\ \E op \in {OPCODE_LUI, OPCODE_AUIPC, OPCODE_JAL} : w = u_type(d.imm, d.rd, op)

IsI(w, d) ==
  /\ d.imm \in Imm12 /\ d.rs1 \in Reg4 /\ d.f3 \in Funct3 /\ d.rd \in Reg4
  /\ \E op \in {OPCODE_JALR, OPCODE_LOAD, OPCODE_CALC_IMM} :
       /\ op = OPCODE_JALR => d.f3 = {}
       /\ w = i_type(d.imm, d.rs1, d.f3, d.rd, op)

IsS(w, d) ==
  /\ d.imm \in Imm12 /\ d.rs2 \in Reg4 /\ d.rs1 \in Reg4 /\ d.f3 \in Funct3
  /\ \E op \in {OPCODE_BRANCH, OPCODE_STORE} : w = s_type(d.imm, d.rs2, d.rs1, d.f3, op)

IsR(w, d) ==
  /\ d.bit \in SUBSET (0 .. 0) /\ d.rs2 \in Reg4 /\ d.rs1 \in Reg4 /\ d.f3 \in Funct3 /\ d.rd \in Reg4
  /\ w = r_type(Shl(d.bit, 6), d.rs2, d.rs1, d.f3, d.rd, OPCODE_CALC_REG)

Drawn(w, d) == IsU(w, d) \/ IsI(w, d) \/ IsS(w, d) \/ IsR(w, d) \/ w \in {ebreak, {}}

\* Of a register-register operation the printer sees what the decoders see.
Clean(w) == idu(w).opcode = OPCODE_CALC_REG => w \cap {25, 26, 27, 28, 29, 31} = {}

LEMMA DrawnWord ==
  ASSUME NEW w, NEW d, Drawn(w, d)
  PROVE  /\ w \in Word /\ Assembled(w) = w /\ Clean(w)
         /\ w \notin {ebreak, {}} => Decoded(w, d)
<1>1. CASE IsU(w, d)
  <2>1. PICK op \in {OPCODE_LUI, OPCODE_AUIPC, OPCODE_JAL} : w = u_type(d.imm, d.rd, op)
    BY <1>1 DEF IsU
  <2>2. w \in Word /\ Decoded(w, d) /\ Assembled(w) = w
    BY <1>1, <2>1, UWord DEF IsU
  <2>3. op \in Opcodes /\ Told(op)
    BY OpcodesTold DEF Opcodes
  <2>4. idu(w).opcode = op
    BY <1>1, <2>1, <2>3, UFields DEF IsU
  <2> QED  BY <2>2, <2>3, <2>4 DEF Told, Clean
<1>2. CASE IsI(w, d)
  <2>1. PICK op \in {OPCODE_JALR, OPCODE_LOAD, OPCODE_CALC_IMM} :
          /\ op = OPCODE_JALR => d.f3 = {}
          /\ w = i_type(d.imm, d.rs1, d.f3, d.rd, op)
    BY <1>2 DEF IsI
  <2>2. w \in Word /\ Decoded(w, d) /\ Assembled(w) = w
    BY <1>2, <2>1, IWord DEF IsI
  <2>3. op \in Opcodes /\ Told(op)
    BY OpcodesTold DEF Opcodes
  <2>4. idu(w).opcode = op
    BY <1>2, <2>1, <2>3, IFields DEF IsI
  <2> QED  BY <2>2, <2>3, <2>4 DEF Told, Clean
<1>3. CASE IsS(w, d)
  <2>1. PICK op \in {OPCODE_BRANCH, OPCODE_STORE} : w = s_type(d.imm, d.rs2, d.rs1, d.f3, op)
    BY <1>3 DEF IsS
  <2>2. w \in Word /\ Decoded(w, d) /\ Assembled(w) = w
    BY <1>3, <2>1, SWord DEF IsS
  <2>3. op \in Opcodes /\ Told(op)
    BY OpcodesTold DEF Opcodes
  <2>4. idu(w).opcode = op
    BY <1>3, <2>1, <2>3, SFields DEF IsS
  <2> QED  BY <2>2, <2>3, <2>4 DEF Told, Clean
<1>4. CASE IsR(w, d)
  BY <1>4, RWord DEF IsR, Clean
<1>5. CASE w = ebreak
  <2>1. w \in Word /\ Slice(w, 0, 6) = OPCODE_SYSTEM
    BY <1>5 DEF ebreak, OPCODE_SYSTEM, Slice, Wired, Word, Bit
  <2>2. idu(w).opcode = OPCODE_SYSTEM /\ decode(w) = idu(w)
    BY <2>1, WordsAlike, Zenon DEF idu
  <2>3. Told(OPCODE_SYSTEM)
    BY OpcodesTold DEF Opcodes
  <2> QED  BY <1>5, <2>1, <2>2, <2>3 DEF Told, Clean, Assembled
<1>6. CASE w = {}
  <2>1. w \in Word /\ Slice(w, 0, 6) = {}
    BY <1>6 DEF Slice, Wired, Word, Bit
  <2>2. idu(w).opcode = {} /\ decode(w) = idu(w)
    BY <2>1, WordsAlike, Zenon DEF idu
  <2>3. \A op \in Opcodes : 0 \in op
    BY DEF Opcodes, OPCODE_LUI, OPCODE_AUIPC, OPCODE_JAL, OPCODE_JALR, OPCODE_BRANCH, OPCODE_LOAD,
           OPCODE_STORE, OPCODE_CALC_IMM, OPCODE_CALC_REG, OPCODE_SYSTEM
  <2>4. \A op \in Opcodes : op # {}
    BY <2>3
  <2> QED  BY <1>6, <2>1, <2>2, <2>4 DEF Opcodes, Clean, Assembled
<1> QED
  BY <1>1, <1>2, <1>3, <1>4, <1>5, <1>6 DEF Drawn

\* What a call of random_instruction returns, and from what.
LEMMA ReturnsDrawn == ASSUME random_instruction PROVE Drawn(inst', drawn')
<1>1. /\ random_bits(20) \subseteq Imm20 /\ random_bits(12) \subseteq Imm12
      /\ random_bits(4) \subseteq Reg4 /\ random_reg \subseteq Reg4
      /\ random_bits(3) \subseteq Funct3 /\ random_bits(1) \subseteq SUBSET (0 .. 0)
  BY DEF random_bits, random_reg, Imm20, Imm12, Reg4, Funct3
<1>2. /\ \A k \in random_range(0, 5) : branch_types[k + 1] \in Funct3 /\ load_types[k + 1] \in Funct3
      /\ \A k \in random_range(0, 3) : store_types[k + 1] \in Funct3
  <2>1. random_range(0, 5) = 0 .. 4 /\ random_range(0, 3) = 0 .. 2
    BY DEF random_range
  <2>2. /\ \A k \in 1 .. 5 : branch_types[k] \in Funct3 /\ load_types[k] \in Funct3
        /\ \A k \in 1 .. 3 : store_types[k] \in Funct3
    BY DEF branch_types, load_types, store_types, Funct3
  <2> QED  BY <2>1, <2>2
<1>3. \A imm, rs2, rs1, f3, bit, rd :
        LET d == Operands(imm, rs2, rs1, f3, bit, rd) IN
        /\ d.imm = imm /\ d.rs2 = rs2 /\ d.rs1 = rs1 /\ d.f3 = f3 /\ d.bit = bit /\ d.rd = rd
  BY DEF Operands
<1>4. {} \in Funct3
  BY DEF Funct3
<1>5. CASE DrawUpper
  <2>1. PICK op \in {OPCODE_LUI, OPCODE_AUIPC, OPCODE_JAL} \cap opcodes,
             imm \in random_bits(20), rd \in random_bits(4) :
          inst' = u_type(imm, rd, op) /\ drawn' = Operands(imm, {}, {}, {}, {}, rd)
    BY <1>5 DEF DrawUpper, Returns
  <2>2. IsU(inst', drawn')
    BY <1>1, <1>3, <2>1 DEF IsU
  <2> QED  BY <2>2 DEF Drawn
<1>6. CASE DrawJalr
  <2>1. PICK imm \in random_bits(12), rs1 \in random_bits(4), rd \in random_bits(4) :
          inst' = jalr(imm, rs1, rd) /\ drawn' = Operands(imm, {}, rs1, {}, {}, rd)
    BY <1>6 DEF DrawJalr, Returns
  <2>2. IsI(inst', drawn')
    BY <1>1, <1>3, <1>4, <2>1 DEF IsI, jalr
  <2> QED  BY <2>2 DEF Drawn
<1>7. CASE DrawBranch
  <2>1. PICK imm \in random_bits(12), rs2 \in random_bits(4), rs1 \in random_bits(4),
             k \in random_range(0, 5) :
          /\ inst' = s_type(imm, rs2, rs1, branch_types[k + 1], OPCODE_BRANCH)
          /\ drawn' = Operands(imm, rs2, rs1, branch_types[k + 1], {}, {})
    BY <1>7 DEF DrawBranch, Returns
  <2>2. PICK f3 \in Funct3 : f3 = branch_types[k + 1]
    BY <1>2
  <2>3. IsS(inst', drawn')
    BY <1>1, <1>3, <2>1, <2>2 DEF IsS
  <2> QED  BY <2>3 DEF Drawn
<1>8. CASE DrawLoad
  <2>1. PICK imm \in random_bits(12), rs1 \in random_reg, rd \in random_bits(4),
             k \in random_range(0, 5) :
          /\ inst' = i_type(imm, rs1, load_types[k + 1], rd, OPCODE_LOAD)
          /\ drawn' = Operands(imm, {}, rs1, load_types[k + 1], {}, rd)
    BY <1>8 DEF DrawLoad, Returns
  <2>2. PICK f3 \in Funct3 : f3 = load_types[k + 1]
    BY <1>2
  <2>3. OPCODE_LOAD # OPCODE_JALR
    BY DEF OPCODE_LOAD, OPCODE_JALR
  <2>4. IsI(inst', drawn')
    BY <1>1, <1>3, <2>1, <2>2, <2>3 DEF IsI
  <2> QED  BY <2>4 DEF Drawn
<1>9. CASE DrawStore
  <2>1. PICK imm \in random_bits(12), rs2 \in random_bits(4), rs1 \in random_reg,
             k \in random_range(0, 3) :
          /\ inst' = s_type(imm, rs2, rs1, store_types[k + 1], OPCODE_STORE)
          /\ drawn' = Operands(imm, rs2, rs1, store_types[k + 1], {}, {})
    BY <1>9 DEF DrawStore, Returns
  <2>2. PICK f3 \in Funct3 : f3 = store_types[k + 1]
    BY <1>2
  <2>3. IsS(inst', drawn')
    BY <1>1, <1>3, <2>1, <2>2 DEF IsS
  <2> QED  BY <2>3 DEF Drawn
<1>10. CASE DrawCalcImm
  <2>1. PICK imm \in random_bits(12), rs1 \in random_bits(4), rd \in random_bits(4),
             f3 \in random_bits(3) :
          /\ inst' = i_type(imm, rs1, f3, rd, OPCODE_CALC_IMM)
          /\ drawn' = Operands(imm, {}, rs1, f3, {}, rd)
    BY <1>10 DEF DrawCalcImm, Returns
  <2>2. OPCODE_CALC_IMM # OPCODE_JALR
    BY DEF OPCODE_CALC_IMM, OPCODE_JALR
  <2>3. IsI(inst', drawn')
    BY <1>1, <1>3, <2>1, <2>2 DEF IsI
  <2> QED  BY <2>3 DEF Drawn
<1>11. CASE DrawCalcReg
  <2>1. PICK rs2 \in random_bits(4), rs1 \in random_bits(4), rd \in random_bits(4),
             bit \in random_bits(1), f3 \in random_bits(3) :
          /\ inst' = r_type(Shl(bit, 6), rs2, rs1, f3, rd, OPCODE_CALC_REG)
          /\ drawn' = Operands({}, rs2, rs1, f3, bit, rd)
    BY <1>11 DEF DrawCalcReg, Returns
  <2>2. IsR(inst', drawn')
    BY <1>1, <1>3, <2>1 DEF IsR
  <2> QED  BY <2>2 DEF Drawn
<1>12. CASE DrawSystem \/ DrawNothing
  BY <1>12 DEF DrawSystem, DrawNothing, Returns, Drawn
<1> QED
  BY <1>5, <1>6, <1>7, <1>8, <1>9, <1>10, <1>11, <1>12, Zenon DEF random_instruction

\* The words of the prologue.
Sets(w) ==
  \/ w = lui(Bits(base), ThisRegister)
  \/ \E imm \in Imm12 : w = addi(imm, ThisRegister, ThisRegister)

Made ==
  inst # NoInst => IF inst_count < NPrologue THEN Sets(inst) ELSE Drawn(inst, drawn)

\* The page drawn by SetUpper is still known at SetLower.
PageKept ==
  inst_count < NPrologue /\ (inst # NoInst \/ inst_count % 2 = 1) =>
    base \in {BasePage(1), BasePage(2)}

MadeInv == IInv /\ Made /\ PageKept

LEMMA MadeInit == Init => MadeInv
BY IInvInit DEF Init, MadeInv, Made, PageKept

LEMMA MadeStep == MadeInv /\ [Next]_vars => MadeInv'
<1> SUFFICES ASSUME MadeInv, [Next]_vars PROVE Made' /\ PageKept'
  BY IInvStep DEF MadeInv
<1>1. TypeOK /\ inst_count \in Nat
  BY DEF MadeInv, IInv, TypeOK
<1>2. CASE SetUpper
  <2>1. PICK mem_rand \in random_range(0, 2) : base' = BasePage(mem_rand + 1)
    BY <1>2 DEF SetUpper
  <2>2. mem_rand + 1 \in 1 .. 2
    BY DEF random_range
  <2>3. /\ inst' = lui(Bits(base'), ThisRegister) /\ inst_count' = inst_count /\ inst_count < NPrologue
        /\ ThisRegister' = ThisRegister
    BY <1>2 DEF SetUpper, ThisRegister
  <2> QED  BY <2>1, <2>2, <2>3 DEF Made, PageKept, Sets
<1>3. CASE SetLower
  <2>1. PICK imm \in random_bits(12) : inst' = addi(imm, ThisRegister, ThisRegister)
    BY <1>3 DEF SetLower
  <2>2. imm \in Imm12
    BY DEF random_bits, Imm12
  <2>3. /\ inst_count' = inst_count /\ base' = base /\ inst_count < NPrologue /\ inst_count % 2 = 1
        /\ ThisRegister' = ThisRegister
    BY <1>3 DEF SetLower, ThisRegister
  <2>4. PageKept'
    BY <2>3 DEF MadeInv, PageKept
  <2> QED  BY <2>1, <2>2, <2>3, <2>4 DEF Made, Sets
<1>4. CASE random_instruction
  <2>1. Drawn(inst', drawn')
    BY <1>4, ReturnsDrawn
  <2>2. inst_count' = inst_count /\ inst_count >= NPrologue
    BY <1>4, DrawnSound, Zenon DEF random_instruction, Drawing
  <2> QED  BY <1>1, <2>1, <2>2 DEF Made, PageKept, NPrologue, N_REGS
<1>5. CASE Store
  <2>1. /\ inst # NoInst /\ inst' = NoInst /\ inst_count' = inst_count + 1
        /\ inst_count % 2 # 1 => base' = base
    BY <1>5 DEF Store
  <2>2. inst_count' % 2 = 1 => inst_count % 2 # 1
    BY <1>1, <2>1
  <2>3. inst_count' < NPrologue => inst_count < NPrologue
    BY <1>1, <2>1 DEF NPrologue, N_REGS
  <2> QED  BY <2>1, <2>2, <2>3 DEF Made, PageKept, MadeInv
<1>6. CASE NextTest
  BY <1>6 DEF NextTest, Made, PageKept
<1>7. CASE UNCHANGED vars
  <2>1. Made' = Made /\ PageKept' = PageKept
    BY <1>7 DEF vars, Made, PageKept, Sets, ThisRegister
  <2> QED  BY <2>1 DEF MadeInv
<1> QED
  BY <1>2, <1>3, <1>4, <1>5, <1>6, <1>7, Zenon DEF Next

LEMMA MadeInvariance == Spec => []MadeInv
BY MadeInit, MadeStep, PTL DEF Spec

\* The numbers of the registers that are set: 1 to 15.
LEMMA RegisterBits ==
  ASSUME MadeInv, inst_count < NPrologue
  PROVE  ThisRegister \in Reg4
<1>1. PICK n \in 1 .. 15 : n = inst_count \div 2 + 1
  BY DEF MadeInv, IInv, TypeOK, NPrologue, N_REGS
<1> DEFINE Large(p) == p \in Nat /\ p > 15
<1>2. ASSUME NEW k \in 4 .. 19 PROVE Large(2^k)
  <2>1. k \in {4, 5, 6, 7, 8, 9, 10, 11, 12, 13, 14, 15, 16, 17, 18, 19}
    OBVIOUS
  <2>2. /\ Large(2^4) /\ Large(2^5) /\ Large(2^6) /\ Large(2^7)
        /\ Large(2^8) /\ Large(2^9) /\ Large(2^10) /\ Large(2^11)
        /\ Large(2^12) /\ Large(2^13) /\ Large(2^14) /\ Large(2^15)
        /\ Large(2^16) /\ Large(2^17) /\ Large(2^18) /\ Large(2^19)
    OBVIOUS
  <2> QED  BY <2>1, <2>2, Zenon
<1>3. ASSUME NEW k \in 4 .. 19 PROVE (n \div 2^k) % 2 # 1
  <2>1. PICK p \in Nat : p = 2^k /\ p > 15
    BY <1>2
  <2>2. n \div p = 0
    BY <2>1
  <2> QED  BY <2>1, <2>2
<1>4. Bits(n) \in Reg4
  <2>1. \A k \in Bits(n) : k \in 0 .. 19 /\ (n \div 2^k) % 2 = 1
    BY DEF Bits
  <2>2. ASSUME NEW k \in Bits(n) PROVE k \in 0 .. 3
    <3>1. k \in 0 .. 19 /\ k \notin 4 .. 19
      BY <1>3, <2>1
    <3> QED  BY <3>1
  <2> QED  BY <2>2 DEF Reg4
<1> QED  BY <1>1, <1>4 DEF ThisRegister

LEMMA PageBits == \A n : Bits(n) \in Imm20
BY DEF Bits, Imm20

\* A word of the prologue is one that could be drawn as well.
LEMMA SetsDrawn ==
  ASSUME NEW w, Sets(w), ThisRegister \in Reg4
  PROVE  \E d : Drawn(w, d)
<1>1. CASE w = lui(Bits(base), ThisRegister)
  <2>1. PICK d : d = Operands(Bits(base), {}, {}, {}, {}, ThisRegister)
    OBVIOUS
  <2>2. d.imm = Bits(base) /\ d.rd = ThisRegister
    BY <2>1 DEF Operands
  <2>3. IsU(w, d)
    BY <1>1, <2>2, PageBits DEF IsU, lui
  <2> QED  BY <2>3 DEF Drawn
<1>2. ASSUME NEW imm \in Imm12, w = addi(imm, ThisRegister, ThisRegister)
      PROVE  \E d : Drawn(w, d)
  <2>1. PICK d : d = Operands(imm, {}, ThisRegister, {}, {}, ThisRegister)
    OBVIOUS
  <2>2. d.imm = imm /\ d.rs1 = ThisRegister /\ d.f3 = {} /\ d.rd = ThisRegister
    BY <2>1 DEF Operands
  <2>3. {} \in Funct3 /\ OPCODE_CALC_IMM # OPCODE_JALR
    BY DEF Funct3, OPCODE_CALC_IMM, OPCODE_JALR
  <2>4. IsI(w, d)
    BY <1>2, <2>2, <2>3 DEF IsI, addi, calc_imm, FUNCT3_ADD
  <2> QED  BY <2>4 DEF Drawn
<1> QED
  BY <1>1, <1>2 DEF Sets

LEMMA AlwaysDrawn == ASSUME MadeInv, inst # NoInst PROVE \E d : Drawn(inst, d)
<1>1. CASE inst_count < NPrologue
  BY <1>1, RegisterBits, SetsDrawn DEF MadeInv, Made
<1>2. CASE ~(inst_count < NPrologue)
  BY <1>2 DEF MadeInv, Made
<1> QED  BY <1>1, <1>2

-----------------------------------------------------------------------------
(***************************************************************************)
(* The encoders that riscv.cpp names (lui .. ebreak) make the word again   *)
(* out of the parts that inst_info finds in it, for every word of every    *)
(* program and whatever is drawn, an immediate's sign and the bit that     *)
(* tells srai from srli among it.                                          *)
(***************************************************************************)
THEOREM WordsReassemble == Spec => []Reassembled
<1>1. MadeInv => Reassembled
  BY AlwaysDrawn, DrawnWord DEF Reassembled
<1> QED  BY <1>1, MadeInvariance, PTL

(***************************************************************************)
(* The decoders find what random_instruction drew (riscv.cpp:456-552), for *)
(* every word it can return: no field reaches into another, whatever its   *)
(* bits, and every bit drawn for an immediate is a bit of it.              *)
(***************************************************************************)
THEOREM FieldsAsDrawn == Spec => []DecodedAsDrawn
<1>1. MadeInv => DecodedAsDrawn
  <2> SUFFICES ASSUME MadeInv, inst \notin {NoInst, {}, ebreak}, inst_count >= NPrologue
               PROVE  Decoded(inst, drawn)
    BY Zenon DEF DecodedAsDrawn, Decoded
  <2>1. ~(inst_count < NPrologue)
    BY DEF MadeInv, IInv, TypeOK, NPrologue, N_REGS
  <2>2. Drawn(inst, drawn)
    BY <2>1 DEF MadeInv, Made
  <2> QED  BY <2>2, DrawnWord
<1> QED  BY <1>1, MadeInvariance, PTL

(***************************************************************************)
(* The prologue leaves in every register an address well inside flash or   *)
(* memory (soc_main.cpp:1161-1172): the page drawn for lui is still that   *)
(* register's when addi is made, the number of the register fits its field *)
(* and is the same in both words.                                          *)
(***************************************************************************)
THEOREM BasesInMemory == Spec => []BasesAreMemory
<1>1. MadeInv => BasesAreMemory
  <2> SUFFICES ASSUME MadeInv, inst # NoInst, inst_count < NPrologue
               PROVE  /\ \E c \in 1 .. 2 :
                           /\ mem_start_choice[c] < base
                           /\ base < mem_start_choice[c] + mem_size_choice[c] - 1
                      /\ idu(inst).opcode = OPCODE_LUI => idu(inst).u = Shl(Bits(base), 12)
                      /\ idu(inst).opcode # OPCODE_LUI => idu(inst).rs1 = idu(inst).rd
                      /\ idu(inst).rd = ThisRegister
    BY Zenon DEF BasesAreMemory
  <2>1. \E c \in 1 .. 2 :
          /\ mem_start_choice[c] < base
          /\ base < mem_start_choice[c] + mem_size_choice[c] - 1
    <3>1. base \in {198656, 528384}
      BY DEF MadeInv, PageKept, BasePage, mem_start_choice, mem_size_choice
    <3> QED  BY <3>1 DEF mem_start_choice, mem_size_choice
  <2>2. ThisRegister \in Reg4 /\ Sets(inst)
    BY RegisterBits DEF MadeInv, Made
  <2>3. {OPCODE_LUI, OPCODE_CALC_IMM} \subseteq Opcodes /\ OPCODE_LUI # OPCODE_CALC_IMM /\ {} \in Funct3
    BY DEF Opcodes, OPCODE_LUI, OPCODE_CALC_IMM, Funct3
  <2>4. CASE inst = lui(Bits(base), ThisRegister)
    <3>1. /\ idu(inst).opcode = OPCODE_LUI /\ idu(inst).rd = ThisRegister
          /\ idu(inst).u = Shl(Bits(base), 12)
      BY <2>2, <2>3, <2>4, PageBits, UFields DEF lui
    <3> QED  BY <2>1, <3>1
  <2>5. ASSUME NEW imm \in Imm12, inst = addi(imm, ThisRegister, ThisRegister)
        PROVE  /\ idu(inst).opcode = OPCODE_CALC_IMM /\ idu(inst).rd = ThisRegister
               /\ idu(inst).rs1 = ThisRegister
    BY <2>2, <2>3, <2>5, IFields DEF addi, calc_imm, FUNCT3_ADD
  <2> QED  BY <2>1, <2>2, <2>3, <2>4, <2>5 DEF Sets
<1> QED  BY <1>1, MadeInvariance, PTL

(***************************************************************************)
(* print_instruction (riscv.cpp:351-442), which looks at all of funct7,    *)
(* names the operation that bit 30 selects, for every word of every        *)
(* program but a shift by an immediate with stray upper bits.              *)
(***************************************************************************)
THEOREM PrinterAgrees == Spec => []PrintedAsExecuted
<1>1. MadeInv => PrintedAsExecuted
  <2> SUFFICES ASSUME MadeInv, inst # NoInst
               PROVE  /\ \/ Printed(inst) = Executed(inst)
                         \/ idu(inst).opcode = OPCODE_CALC_IMM /\ inst \cap {25, 26, 27, 28, 29, 31} # {}
                      /\ idu(inst).opcode \in HasRd \ {OPCODE_JAL} => PrintedRd(inst) = idu(inst).rd
    BY Zenon DEF PrintedAsExecuted
  <2>1. inst \in Word /\ Clean(inst)
    BY AlwaysDrawn, DrawnWord
  <2>2. decode(inst) = idu(inst)
    BY <2>1, WordsAlike
  <2>3. idu(inst).opcode \in HasRd \ {OPCODE_JAL} => PrintedRd(inst) = idu(inst).rd
    BY <2>2 DEF PrintedRd
  <2>4. /\ take_bits_range(inst, 0, 6) = Slice(inst, 0, 6)
        /\ take_bits_range(inst, 12, 14) = Slice(inst, 12, 14)
    <3>1. -1 \notin inst /\ {0, 6, 12, 14} \subseteq Bit
      BY <2>1 DEF Word, Bit
    <3> QED  BY <3>1, SlicesAlike
  <2>5. PICK op, f3 : /\ op = Slice(inst, 0, 6)
                      /\ f3 = IF op \in HasFunct3 THEN Slice(inst, 12, 14) ELSE {}
    OBVIOUS
  <2>6. /\ Executed(inst) = Kind(op, f3, 30 \in inst /\ HasAlternative(op, f3))
        /\ Printed(inst) = Kind(op, f3, take_bits_range(inst, 25, 31) # {} /\ HasAlternative(op, f3))
    BY <2>4, <2>5, Zenon DEF Executed, Printed
  <2>7. idu(inst).opcode = op
    BY <2>5, Zenon DEF idu
  <2>8. HasAlternative(op, f3) => op \in {OPCODE_CALC_IMM, OPCODE_CALC_REG}
    BY DEF HasAlternative
  <2>9. ASSUME inst \cap {25, 26, 27, 28, 29, 31} = {}
        PROVE  take_bits_range(inst, 25, 31) # {} <=> 30 \in inst
    <3>1. take_bits_range(inst, 25, 31) # {} <=> \E k \in 25 .. 31 : k \in inst
      <4>1. \A k \in 25 .. 31 : k - 25 \in Bit /\ (k - 25) + 25 = k /\ k <= 31
        BY DEF Bit
      <4>2. \A k \in Bit : k + 25 <= 31 => k + 25 \in 25 .. 31
        BY DEF Bit
      <4> QED  BY <4>1, <4>2 DEF take_bits_range
    <3> QED  BY <2>9, <3>1
  <2>10. CASE ~HasAlternative(op, f3)
    <3>1. Printed(inst) = Executed(inst)
      BY <2>6, <2>10
    <3> QED  BY <2>3, <3>1
  <2>11. CASE inst \cap {25, 26, 27, 28, 29, 31} = {}
    <3>1. Printed(inst) = Executed(inst)
      BY <2>6, <2>9, <2>11
    <3> QED  BY <2>3, <3>1
  <2>12. CASE HasAlternative(op, f3) /\ inst \cap {25, 26, 27, 28, 29, 31} # {}
    <3>1. op = OPCODE_CALC_IMM
      BY <2>1, <2>7, <2>8, <2>12 DEF Clean
    <3> QED  BY <2>3, <2>7, <2>12, <3>1
  <2> QED  BY <2>10, <2>11, <2>12
<1> QED  BY <1>1, MadeInvariance, PTL

-----------------------------------------------------------------------------
(* Which instructions are drawn.                                           *)

FlagNames == {"Jump", "Branch", "Load", "Store", "Calc", "System"}

\* The words a call of random_instruction can return now, and what they are
\* made from.
Returnable(w, d) ==
  \/ \E op \in {OPCODE_LUI, OPCODE_AUIPC, OPCODE_JAL} \cap opcodes,
        imm \in random_bits(20), rd \in random_bits(4) :
       w = u_type(imm, rd, op) /\ d = Operands(imm, {}, {}, {}, {}, rd)
  \/ /\ OPCODE_JALR \in opcodes
     /\ \E imm \in random_bits(12), rs1, rd \in random_bits(4) :
          w = jalr(imm, rs1, rd) /\ d = Operands(imm, {}, rs1, {}, {}, rd)
  \/ /\ OPCODE_BRANCH \in opcodes
     /\ \E imm \in random_bits(12), rs2, rs1 \in random_bits(4), k \in 1 .. 5 :
          /\ w = s_type(imm, rs2, rs1, branch_types[k], OPCODE_BRANCH)
          /\ d = Operands(imm, rs2, rs1, branch_types[k], {}, {})
  \/ /\ OPCODE_LOAD \in opcodes
     /\ \E imm \in random_bits(12), rs1 \in random_reg, rd \in random_bits(4), k \in 1 .. 5 :
          /\ w = i_type(imm, rs1, load_types[k], rd, OPCODE_LOAD)
          /\ d = Operands(imm, {}, rs1, load_types[k], {}, rd)
  \/ /\ OPCODE_STORE \in opcodes
     /\ \E imm \in random_bits(12), rs2 \in random_bits(4), rs1 \in random_reg, k \in 1 .. 3 :
          /\ w = s_type(imm, rs2, rs1, store_types[k], OPCODE_STORE)
          /\ d = Operands(imm, rs2, rs1, store_types[k], {}, {})
  \/ /\ OPCODE_CALC_IMM \in opcodes
     /\ \E imm \in random_bits(12), rs1, rd \in random_bits(4), f3 \in random_bits(3) :
          w = i_type(imm, rs1, f3, rd, OPCODE_CALC_IMM) /\ d = Operands(imm, {}, rs1, f3, {}, rd)
  \/ /\ OPCODE_CALC_REG \in opcodes
     /\ \E rs2, rs1, rd \in random_bits(4), bit \in random_bits(1), f3 \in random_bits(3) :
          /\ w = r_type(Shl(bit, 6), rs2, rs1, f3, rd, OPCODE_CALC_REG)
          /\ d = Operands({}, rs2, rs1, f3, bit, rd)
  \/ OPCODE_SYSTEM \in opcodes /\ w = ebreak /\ d = NoOperands
  \/ opcodes = {} /\ w = {} /\ d = NoOperands

LEMMA ReturnsReturnable ==
  random_instruction <=> Drawing /\ \E w, d : Returnable(w, d) /\ Returns(w, d)
<1>1. /\ random_range(0, 5) = 0 .. 4 /\ random_range(0, 3) = 0 .. 2
      /\ \A k \in 0 .. 4 : k + 1 \in 1 .. 5
      /\ \A k \in 0 .. 2 : k + 1 \in 1 .. 3
      /\ \A k \in 1 .. 5 : k - 1 \in 0 .. 4 /\ (k - 1) + 1 = k
      /\ \A k \in 1 .. 3 : k - 1 \in 0 .. 2 /\ (k - 1) + 1 = k
  BY DEF random_range
<1>2. ASSUME random_instruction PROVE Drawing /\ \E w, d : Returnable(w, d) /\ Returns(w, d)
  <2>1. Drawing /\ Returns(inst', drawn')
    BY <1>2 DEF random_instruction, DrawUpper, DrawJalr, DrawBranch, DrawLoad, DrawStore,
                DrawCalcImm, DrawCalcReg, DrawSystem, DrawNothing, Returns
  <2>2. Returnable(inst', drawn')
    <3>1. CASE DrawUpper
      BY <3>1, Zenon DEF DrawUpper, Returns, Returnable
    <3>2. CASE DrawJalr
      BY <3>2, Zenon DEF DrawJalr, Returns, Returnable
    <3>3. CASE DrawBranch
      BY <1>1, <3>3, Zenon DEF DrawBranch, Returns, Returnable
    <3>4. CASE DrawLoad
      BY <1>1, <3>4, Zenon DEF DrawLoad, Returns, Returnable
    <3>5. CASE DrawStore
      BY <1>1, <3>5, Zenon DEF DrawStore, Returns, Returnable
    <3>6. CASE DrawCalcImm
      BY <3>6, Zenon DEF DrawCalcImm, Returns, Returnable
    <3>7. CASE DrawCalcReg
      BY <3>7, Zenon DEF DrawCalcReg, Returns, Returnable
    <3>8. CASE DrawSystem \/ DrawNothing
      BY <3>8, Zenon DEF DrawSystem, DrawNothing, Returns, Returnable
    <3> QED
      BY <1>2, <3>1, <3>2, <3>3, <3>4, <3>5, <3>6, <3>7, <3>8, Zenon DEF random_instruction
  <2> QED
    BY <2>1, <2>2, Zenon
<1>3. ASSUME Drawing, NEW w, NEW d, Returnable(w, d), Returns(w, d) PROVE random_instruction
  <2>1. CASE \E op \in {OPCODE_LUI, OPCODE_AUIPC, OPCODE_JAL} \cap opcodes,
                imm \in random_bits(20), rd \in random_bits(4) :
               w = u_type(imm, rd, op) /\ d = Operands(imm, {}, {}, {}, {}, rd)
    BY <1>3, <2>1, Zenon DEF random_instruction, DrawUpper
  <2>2. CASE /\ OPCODE_JALR \in opcodes
             /\ \E imm \in random_bits(12), rs1, rd \in random_bits(4) :
                  w = jalr(imm, rs1, rd) /\ d = Operands(imm, {}, rs1, {}, {}, rd)
    BY <1>3, <2>2, Zenon DEF random_instruction, DrawJalr
  <2>3. ASSUME OPCODE_BRANCH \in opcodes, NEW imm \in random_bits(12),
               NEW rs2 \in random_bits(4), NEW rs1 \in random_bits(4), NEW k \in 1 .. 5,
               w = s_type(imm, rs2, rs1, branch_types[k], OPCODE_BRANCH),
               d = Operands(imm, rs2, rs1, branch_types[k], {}, {})
        PROVE  random_instruction
    <3>1. PICK j \in random_range(0, 5) : j + 1 = k
      BY <1>1
    <3>2. DrawBranch
      BY <1>3, <2>3, <3>1, Zenon DEF DrawBranch
    <3> QED
      BY <1>3, <3>2, Zenon DEF random_instruction
  <2>4. ASSUME OPCODE_LOAD \in opcodes, NEW imm \in random_bits(12),
               NEW rs1 \in random_reg, NEW rd \in random_bits(4), NEW k \in 1 .. 5,
               w = i_type(imm, rs1, load_types[k], rd, OPCODE_LOAD),
               d = Operands(imm, {}, rs1, load_types[k], {}, rd)
        PROVE  random_instruction
    <3>1. PICK j \in random_range(0, 5) : j + 1 = k
      BY <1>1
    <3>2. DrawLoad
      BY <1>3, <2>4, <3>1, Zenon DEF DrawLoad
    <3> QED
      BY <1>3, <3>2, Zenon DEF random_instruction
  <2>5. ASSUME OPCODE_STORE \in opcodes, NEW imm \in random_bits(12),
               NEW rs2 \in random_bits(4), NEW rs1 \in random_reg, NEW k \in 1 .. 3,
               w = s_type(imm, rs2, rs1, store_types[k], OPCODE_STORE),
               d = Operands(imm, rs2, rs1, store_types[k], {}, {})
        PROVE  random_instruction
    <3>1. PICK j \in random_range(0, 3) : j + 1 = k
      BY <1>1
    <3>2. DrawStore
      BY <1>3, <2>5, <3>1, Zenon DEF DrawStore
    <3> QED
      BY <1>3, <3>2, Zenon DEF random_instruction
  <2>6. CASE /\ OPCODE_CALC_IMM \in opcodes
             /\ \E imm \in random_bits(12), rs1, rd \in random_bits(4), f3 \in random_bits(3) :
                  /\ w = i_type(imm, rs1, f3, rd, OPCODE_CALC_IMM)
                  /\ d = Operands(imm, {}, rs1, f3, {}, rd)
    BY <1>3, <2>6, Zenon DEF random_instruction, DrawCalcImm
  <2>7. CASE /\ OPCODE_CALC_REG \in opcodes
             /\ \E rs2, rs1, rd \in random_bits(4), bit \in random_bits(1), f3 \in random_bits(3) :
                  /\ w = r_type(Shl(bit, 6), rs2, rs1, f3, rd, OPCODE_CALC_REG)
                  /\ d = Operands({}, rs2, rs1, f3, bit, rd)
    BY <1>3, <2>7, Zenon DEF random_instruction, DrawCalcReg
  <2>8. CASE \/ OPCODE_SYSTEM \in opcodes /\ w = ebreak /\ d = NoOperands
             \/ opcodes = {} /\ w = {} /\ d = NoOperands
    BY <1>3, <2>8, Zenon DEF random_instruction, DrawSystem, DrawNothing
  <2> QED
    BY <1>3, <2>1, <2>2, <2>3, <2>4, <2>5, <2>6, <2>7, <2>8, Zenon DEF Returnable
<1> QED
  BY <1>2, <1>3

\* What the flags ask for.
LEMMA OpcodeFlags ==
  /\ OPCODE_LUI \in opcodes <=> "Calc" \in inst_flags
  /\ OPCODE_AUIPC \in opcodes <=> "Calc" \in inst_flags
  /\ OPCODE_CALC_IMM \in opcodes <=> "Calc" \in inst_flags
  /\ OPCODE_CALC_REG \in opcodes <=> "Calc" \in inst_flags
  /\ OPCODE_JAL \in opcodes <=> "Jump" \in inst_flags
  /\ OPCODE_JALR \in opcodes <=> "Jump" \in inst_flags
  /\ OPCODE_BRANCH \in opcodes <=> "Branch" \in inst_flags
  /\ OPCODE_LOAD \in opcodes <=> "Load" \in inst_flags
  /\ OPCODE_STORE \in opcodes <=> "Store" \in inst_flags
  /\ OPCODE_SYSTEM \in opcodes <=> "System" \in inst_flags
<1>1. ASSUME NEW op
      PROVE  op \in opcodes <=>
               \/ "Store" \in inst_flags /\ op = OPCODE_STORE
               \/ "Load" \in inst_flags /\ op = OPCODE_LOAD
               \/ "Calc" \in inst_flags /\ op \in {OPCODE_LUI, OPCODE_AUIPC, OPCODE_CALC_IMM,
                                                   OPCODE_CALC_REG}
               \/ "Jump" \in inst_flags /\ op \in {OPCODE_JAL, OPCODE_JALR}
               \/ "Branch" \in inst_flags /\ op = OPCODE_BRANCH
               \/ "System" \in inst_flags /\ op = OPCODE_SYSTEM
  BY DEF opcodes
<1>2. \A op \in Opcodes : Told(op)
  BY OpcodesTold
<1>3. \A op \in {OPCODE_LUI, OPCODE_AUIPC, OPCODE_CALC_IMM, OPCODE_CALC_REG} :
        op \in opcodes <=> "Calc" \in inst_flags
  BY <1>1, <1>2 DEF Opcodes, Told
<1>4. \A op \in {OPCODE_JAL, OPCODE_JALR} : op \in opcodes <=> "Jump" \in inst_flags
  BY <1>1, <1>2 DEF Opcodes, Told
<1>5. OPCODE_BRANCH \in opcodes <=> "Branch" \in inst_flags
  BY <1>1, <1>2 DEF Opcodes, Told
<1>6. OPCODE_LOAD \in opcodes <=> "Load" \in inst_flags
  BY <1>1, <1>2 DEF Opcodes, Told
<1>7. OPCODE_STORE \in opcodes <=> "Store" \in inst_flags
  BY <1>1, <1>2 DEF Opcodes, Told
<1>8. OPCODE_SYSTEM \in opcodes <=> "System" \in inst_flags
  BY <1>1, <1>2 DEF Opcodes, Told
<1> QED
  BY <1>3, <1>4, <1>5, <1>6, <1>7, <1>8

LEMMA FlagKinds ==
  /\ KindsOf("Jump") = {Kind(op, {}, FALSE) : op \in {OPCODE_JAL, OPCODE_JALR}}
  /\ KindsOf("Branch") = {Kind(OPCODE_BRANCH, branch_types[k], FALSE) : k \in 1 .. 6}
  /\ KindsOf("Load") = {Kind(OPCODE_LOAD, load_types[k], FALSE) : k \in 1 .. 5}
  /\ KindsOf("Store") = {Kind(OPCODE_STORE, store_types[k], FALSE) : k \in 1 .. 3}
  /\ KindsOf("System") = {Kind(OPCODE_SYSTEM, {}, FALSE)}
BY DEF KindsOf

LEMMA CalcKinds ==
  \A kind : kind \in KindsOf("Calc") <=>
    \/ \E op \in {OPCODE_LUI, OPCODE_AUIPC} : kind = Kind(op, {}, FALSE)
    \/ \E op \in {OPCODE_CALC_IMM, OPCODE_CALC_REG}, f3 \in Funct3 :
         \E alt \in Alternatives(op, f3) : kind = Kind(op, f3, alt)
<1> DEFINE A(op, f3) == {Kind(op, f3, alt) : alt \in Alternatives(op, f3)}
           U == {A(op, f3) : op \in {OPCODE_CALC_IMM, OPCODE_CALC_REG}, f3 \in Funct3}
           L == {Kind(op, {}, FALSE) : op \in {OPCODE_LUI, OPCODE_AUIPC}}
<1>1. KindsOf("Calc") = L \cup UNION U
  BY DEF KindsOf
<1>2. \A op, f3, kind : kind \in A(op, f3) <=> \E alt \in Alternatives(op, f3) : kind = Kind(op, f3, alt)
  OBVIOUS
<1>3. \A kind : kind \in L <=> \E op \in {OPCODE_LUI, OPCODE_AUIPC} : kind = Kind(op, {}, FALSE)
  OBVIOUS
<1> HIDE DEF A, L
<1>4. \A S : S \in U <=> \E op \in {OPCODE_CALC_IMM, OPCODE_CALC_REG}, f3 \in Funct3 : S = A(op, f3)
  OBVIOUS
<1>5. \A kind : kind \in UNION U <=>
        \E op \in {OPCODE_CALC_IMM, OPCODE_CALC_REG}, f3 \in Funct3 : kind \in A(op, f3)
  <2> HIDE DEF U
  <2> QED
    BY <1>4
<1>6. ASSUME NEW kind
      PROVE  kind \in UNION U <=>
               \E op \in {OPCODE_CALC_IMM, OPCODE_CALC_REG}, f3 \in Funct3 :
                 \E alt \in Alternatives(op, f3) : kind = Kind(op, f3, alt)
  <2> HIDE DEF U
  <2>1. ASSUME kind \in UNION U
        PROVE  \E op \in {OPCODE_CALC_IMM, OPCODE_CALC_REG}, f3 \in Funct3 :
                 \E alt \in Alternatives(op, f3) : kind = Kind(op, f3, alt)
    <3>1. PICK op \in {OPCODE_CALC_IMM, OPCODE_CALC_REG}, f3 \in Funct3 : kind \in A(op, f3)
      BY <1>5, <2>1
    <3>2. PICK alt \in Alternatives(op, f3) : kind = Kind(op, f3, alt)
      BY <1>2, <3>1
    <3> QED
      BY <3>2
  <2>2. ASSUME NEW op \in {OPCODE_CALC_IMM, OPCODE_CALC_REG}, NEW f3 \in Funct3,
               NEW alt \in Alternatives(op, f3), kind = Kind(op, f3, alt)
        PROVE  kind \in UNION U
    <3>1. kind \in A(op, f3)
      BY <1>2, <2>2
    <3> QED
      BY <1>5, <3>1
  <2> QED
    BY <2>1, <2>2
<1>7. \A kind : kind \in KindsOf("Calc") <=> kind \in L \/ kind \in UNION U
  BY <1>1
<1> HIDE DEF U
<1> QED
  BY <1>3, <1>6, <1>7, Zenon

LEMMA ExecutedKind ==
  ASSUME NEW w, NEW op, NEW f3, idu(w).opcode = op,
         IF op \in HasFunct3 THEN idu(w).funct3 = f3 ELSE f3 = {}
  PROVE  Executed(w) = Kind(op, f3, idu(w).sub /\ HasAlternative(op, f3))
<1>1. /\ idu(w).opcode = Slice(w, 0, 6) /\ idu(w).funct3 = Slice(w, 12, 14)
      /\ idu(w).sub = (30 \in w)
  BY Zenon DEF idu
<1>2. (IF op \in HasFunct3 THEN Slice(w, 12, 14) ELSE {}) = f3
  BY <1>1
<1>3. Executed(w) = Kind(op, f3, 30 \in w /\ HasAlternative(op, f3))
  BY <1>1, <1>2, Zenon DEF Executed
<1> QED
  BY <1>1, <1>3, Zenon

LEMMA UKind ==
  ASSUME NEW imm \in Imm20, NEW rd \in Reg4, NEW op \in {OPCODE_LUI, OPCODE_AUIPC, OPCODE_JAL}
  PROVE  Executed(u_type(imm, rd, op)) = Kind(op, {}, FALSE)
<1>1. op \in Opcodes /\ Told(op)
  BY OpcodesTold DEF Opcodes
<1>2. PICK w : w = u_type(imm, rd, op)
  OBVIOUS
<1>3. idu(w).opcode = op
  BY <1>1, <1>2, UFields
<1>4. op \notin HasFunct3 /\ ~HasAlternative(op, {})
  BY <1>1 DEF Told, HasFunct3, HasAlternative
<1>5. Executed(w) = Kind(op, {}, idu(w).sub /\ HasAlternative(op, {}))
  BY <1>3, <1>4, ExecutedKind
<1>6. (idu(w).sub /\ HasAlternative(op, {})) = FALSE
  BY <1>4, Zenon
<1> QED
  BY <1>2, <1>5, <1>6, Zenon

LEMMA IKind ==
  ASSUME NEW imm \in Imm12, NEW rs1 \in Reg4, NEW f3 \in Funct3, NEW rd \in Reg4,
         NEW op \in {OPCODE_JALR, OPCODE_LOAD, OPCODE_CALC_IMM}, op = OPCODE_JALR => f3 = {}
  PROVE  Executed(i_type(imm, rs1, f3, rd, op))
           = Kind(op, f3, 10 \in imm /\ HasAlternative(op, f3))
<1>1. op \in Opcodes /\ Told(op)
  BY OpcodesTold DEF Opcodes
<1>2. PICK w : w = i_type(imm, rs1, f3, rd, op)
  OBVIOUS
<1>3. idu(w).opcode = op /\ idu(w).funct3 = f3 /\ (idu(w).sub <=> 10 \in imm)
  BY <1>1, <1>2, IFields
<1>4. op \in HasFunct3 \/ f3 = {}
  BY <1>1 DEF Told, HasFunct3
<1>5. Executed(w) = Kind(op, f3, idu(w).sub /\ HasAlternative(op, f3))
  BY <1>3, <1>4, ExecutedKind
<1>6. (idu(w).sub /\ HasAlternative(op, f3)) = (10 \in imm /\ HasAlternative(op, f3))
  BY <1>3, Zenon
<1> QED
  BY <1>2, <1>5, <1>6, Zenon

LEMMA SKind ==
  ASSUME NEW imm \in Imm12, NEW rs2 \in Reg4, NEW rs1 \in Reg4, NEW f3 \in Funct3,
         NEW op \in {OPCODE_BRANCH, OPCODE_STORE}
  PROVE  Executed(s_type(imm, rs2, rs1, f3, op)) = Kind(op, f3, FALSE)
<1>1. op \in Opcodes /\ Told(op)
  BY OpcodesTold DEF Opcodes
<1>2. PICK w : w = s_type(imm, rs2, rs1, f3, op)
  OBVIOUS
<1>3. idu(w).opcode = op /\ idu(w).funct3 = f3
  BY <1>1, <1>2, SFields
<1>4. op \in HasFunct3 /\ ~HasAlternative(op, f3)
  BY <1>1 DEF Told, HasFunct3, HasAlternative
<1>5. Executed(w) = Kind(op, f3, idu(w).sub /\ HasAlternative(op, f3))
  BY <1>3, <1>4, ExecutedKind
<1>6. (idu(w).sub /\ HasAlternative(op, f3)) = FALSE
  BY <1>4, Zenon
<1> QED
  BY <1>2, <1>5, <1>6, Zenon

LEMMA RKind ==
  ASSUME NEW bit \in SUBSET (0 .. 0), NEW rs2 \in Reg4, NEW rs1 \in Reg4, NEW f3 \in Funct3,
         NEW rd \in Reg4
  PROVE  Executed(r_type(Shl(bit, 6), rs2, rs1, f3, rd, OPCODE_CALC_REG))
           = Kind(OPCODE_CALC_REG, f3, bit = {0} /\ HasAlternative(OPCODE_CALC_REG, f3))
<1> DEFINE op == OPCODE_CALC_REG
<1>1. op \in Opcodes
  BY DEF Opcodes
<1>2. PICK w : w = r_type(Shl(bit, 6), rs2, rs1, f3, rd, op)
  OBVIOUS
<1>3. idu(w).opcode = op /\ idu(w).funct3 = f3 /\ (idu(w).sub <=> bit = {0})
  BY <1>1, <1>2, RFields
<1>4. op \in HasFunct3
  BY DEF HasFunct3
<1>5. Executed(w) = Kind(op, f3, idu(w).sub /\ HasAlternative(op, f3))
  BY <1>3, <1>4, ExecutedKind
<1>6. (idu(w).sub /\ HasAlternative(op, f3)) = (bit = {0} /\ HasAlternative(op, f3))
  BY <1>3, Zenon
<1> QED
  BY <1>2, <1>5, <1>6, Zenon

LEMMA EbreakKind == Executed(ebreak) = Kind(OPCODE_SYSTEM, {}, FALSE)
<1>1. Slice(ebreak, 0, 6) = OPCODE_SYSTEM /\ 30 \notin ebreak
  BY DEF ebreak, OPCODE_SYSTEM, Slice, Wired, Bit
<1>2. Told(OPCODE_SYSTEM)
  BY OpcodesTold DEF Opcodes
<1>3. OPCODE_SYSTEM \notin HasFunct3
  BY <1>2 DEF Told, HasFunct3
<1>4. (30 \in ebreak /\ HasAlternative(OPCODE_SYSTEM, {})) = FALSE
  BY <1>1, Zenon
<1> QED
  BY <1>1, <1>3, <1>4, Zenon DEF Executed

\* What is drawn has the width of its field.
LEMMA DrawnWidths ==
  /\ random_bits(20) \subseteq Imm20 /\ random_bits(12) \subseteq Imm12
  /\ random_bits(4) \subseteq Reg4 /\ random_reg \subseteq Reg4
  /\ random_bits(3) \subseteq Funct3 /\ random_bits(1) \subseteq SUBSET (0 .. 0)
  /\ \A k \in 1 .. 5 : branch_types[k] \in Funct3 /\ load_types[k] \in Funct3
  /\ \A k \in 1 .. 3 : store_types[k] \in Funct3
  /\ {} \in Funct3
BY DEF random_bits, random_reg, Imm20, Imm12, Reg4, Funct3, branch_types, load_types, store_types

\* The kinds that the flags ask for and are drawn.
Asked(kind) == \E flag \in inst_flags \cap FlagNames : kind \in KindsOf(flag) \ {bgeu}

LEMMA NotBgeu ==
  /\ \A op, f3, alt : op # OPCODE_BRANCH => Kind(op, f3, alt) # bgeu
  /\ \A f3 : f3 # {0, 1, 2} => Kind(OPCODE_BRANCH, f3, FALSE) # bgeu
  /\ \A k \in 1 .. 5 : branch_types[k] # {0, 1, 2}
<1>1. branch_types[6] = {0, 1, 2}
  BY DEF branch_types
<1>2. \A op, f3, alt : /\ Kind(op, f3, alt).opcode = op
                       /\ Kind(op, f3, alt).funct3 = f3
  BY DEF Kind
<1>3. bgeu.opcode = OPCODE_BRANCH /\ bgeu.funct3 = {0, 1, 2}
  BY <1>1, <1>2 DEF bgeu
<1>4. \A k \in 1 .. 5 : branch_types[k] # {0, 1, 2}
  <2>1. \A k \in 1 .. 5 : 0 \notin branch_types[k] \/ 1 \notin branch_types[k]
    BY DEF branch_types
  <2> QED
    BY <2>1
<1>5. ASSUME NEW op, NEW f3, NEW alt, Kind(op, f3, alt) = bgeu
      PROVE  op = OPCODE_BRANCH /\ f3 = {0, 1, 2}
  BY <1>2, <1>3, <1>5
<1>6. \A op, f3, alt : op # OPCODE_BRANCH => Kind(op, f3, alt) # bgeu
  BY <1>5, Zenon
<1>7. \A f3 : f3 # {0, 1, 2} => Kind(OPCODE_BRANCH, f3, FALSE) # bgeu
  BY <1>5, Zenon
<1> QED
  BY <1>4, <1>6, <1>7, Zenon

LEMMA ReturnedKind ==
  ASSUME NEW w, NEW d, Returnable(w, d), w # {}
  PROVE  Asked(Executed(w))
<1> USE DrawnWidths
<1>0. \A op \in Opcodes : Told(op)
  BY OpcodesTold
<1>1. ASSUME NEW op \in {OPCODE_LUI, OPCODE_AUIPC, OPCODE_JAL} \cap opcodes,
             NEW imm \in random_bits(20), NEW rd \in random_bits(4), w = u_type(imm, rd, op)
      PROVE  Asked(Executed(w))
  <2>1. Executed(w) = Kind(op, {}, FALSE)
    BY <1>1, UKind
  <2>2. Kind(op, {}, FALSE) # bgeu
    BY <1>0, NotBgeu DEF Opcodes, Told
  <2>3. CASE op \in {OPCODE_LUI, OPCODE_AUIPC}
    <3>1. "Calc" \in inst_flags
      BY <2>3, OpcodeFlags
    <3>2. Kind(op, {}, FALSE) \in KindsOf("Calc")
      BY <2>3, CalcKinds
    <3> QED
      BY <2>1, <2>2, <3>1, <3>2 DEF Asked, FlagNames
  <2>4. CASE op = OPCODE_JAL
    <3>1. "Jump" \in inst_flags
      BY <2>4, OpcodeFlags
    <3>2. Kind(op, {}, FALSE) \in KindsOf("Jump")
      BY <2>4, FlagKinds
    <3> QED
      BY <2>1, <2>2, <3>1, <3>2 DEF Asked, FlagNames
  <2> QED
    BY <2>3, <2>4
<1>2. ASSUME OPCODE_JALR \in opcodes, NEW imm \in random_bits(12), NEW rs1 \in random_bits(4),
             NEW rd \in random_bits(4), w = jalr(imm, rs1, rd)
      PROVE  Asked(Executed(w))
  <2>1. w = i_type(imm, rs1, {}, rd, OPCODE_JALR)
    BY <1>2, Zenon DEF jalr
  <2>2. Executed(w) = Kind(OPCODE_JALR, {}, 10 \in imm /\ HasAlternative(OPCODE_JALR, {}))
    BY <2>1, IKind
  <2>3. ~HasAlternative(OPCODE_JALR, {}) /\ OPCODE_JALR # OPCODE_BRANCH
    BY <1>0 DEF Opcodes, Told, HasAlternative
  <2>4. (10 \in imm /\ HasAlternative(OPCODE_JALR, {})) = FALSE
    BY <2>3, Zenon
  <2>5. Executed(w) = Kind(OPCODE_JALR, {}, FALSE)
    BY <2>2, <2>4, Zenon
  <2>6. Executed(w) \in KindsOf("Jump") /\ Executed(w) # bgeu
    BY <2>3, <2>5, FlagKinds, NotBgeu
  <2> QED
    BY <1>2, <2>6, OpcodeFlags DEF Asked, FlagNames
<1>3. ASSUME OPCODE_BRANCH \in opcodes, NEW imm \in random_bits(12), NEW rs2 \in random_bits(4),
             NEW rs1 \in random_bits(4), NEW k \in 1 .. 5,
             w = s_type(imm, rs2, rs1, branch_types[k], OPCODE_BRANCH)
      PROVE  Asked(Executed(w))
  <2>1. Executed(w) = Kind(OPCODE_BRANCH, branch_types[k], FALSE)
    BY <1>3, SKind
  <2>2. k \in 1 .. 6
    OBVIOUS
  <2>3. Executed(w) \in KindsOf("Branch")
    BY <2>1, <2>2, FlagKinds
  <2>4. Executed(w) # bgeu
    BY <2>1, NotBgeu
  <2> QED
    BY <1>3, <2>3, <2>4, OpcodeFlags DEF Asked, FlagNames
<1>4. ASSUME OPCODE_LOAD \in opcodes, NEW imm \in random_bits(12), NEW rs1 \in random_reg,
             NEW rd \in random_bits(4), NEW k \in 1 .. 5,
             w = i_type(imm, rs1, load_types[k], rd, OPCODE_LOAD)
      PROVE  Asked(Executed(w))
  <2>1. PICK f3 \in Funct3 : f3 = load_types[k]
    OBVIOUS
  <2>2. ~HasAlternative(OPCODE_LOAD, f3) /\ OPCODE_LOAD # OPCODE_BRANCH /\ OPCODE_LOAD # OPCODE_JALR
    BY <1>0 DEF Opcodes, Told, HasAlternative
  <2>3. Executed(w) = Kind(OPCODE_LOAD, f3, 10 \in imm /\ HasAlternative(OPCODE_LOAD, f3))
    BY <1>4, <2>1, <2>2, IKind
  <2>4. (10 \in imm /\ HasAlternative(OPCODE_LOAD, f3)) = FALSE
    BY <2>2, Zenon
  <2>5. Executed(w) = Kind(OPCODE_LOAD, load_types[k], FALSE)
    BY <2>1, <2>3, <2>4, Zenon
  <2>6. Executed(w) \in KindsOf("Load") /\ Executed(w) # bgeu
    BY <2>2, <2>5, FlagKinds, NotBgeu
  <2> QED
    BY <1>4, <2>6, OpcodeFlags DEF Asked, FlagNames
<1>5. ASSUME OPCODE_STORE \in opcodes, NEW imm \in random_bits(12), NEW rs2 \in random_bits(4),
             NEW rs1 \in random_reg, NEW k \in 1 .. 3,
             w = s_type(imm, rs2, rs1, store_types[k], OPCODE_STORE)
      PROVE  Asked(Executed(w))
  <2>1. Executed(w) = Kind(OPCODE_STORE, store_types[k], FALSE)
    BY <1>5, SKind
  <2>2. OPCODE_STORE # OPCODE_BRANCH
    BY <1>0 DEF Opcodes, Told
  <2>3. Executed(w) \in KindsOf("Store") /\ Executed(w) # bgeu
    BY <2>1, <2>2, FlagKinds, NotBgeu
  <2> QED
    BY <1>5, <2>3, OpcodeFlags DEF Asked, FlagNames
<1>6. ASSUME NEW op \in {OPCODE_CALC_IMM, OPCODE_CALC_REG} \cap opcodes, NEW f3 \in Funct3,
             NEW b \in BOOLEAN, Executed(w) = Kind(op, f3, b /\ HasAlternative(op, f3))
      PROVE  Asked(Executed(w))
  <2>1. PICK alt \in BOOLEAN : alt = (b /\ HasAlternative(op, f3))
    <3>1. (b /\ HasAlternative(op, f3)) \in BOOLEAN
      BY Zenon
    <3> QED
      BY <3>1, Zenon
  <2>2. alt \in Alternatives(op, f3)
    BY <2>1 DEF Alternatives
  <2>3. Executed(w) = Kind(op, f3, alt)
    BY <1>6, <2>1, Zenon
  <2>4. Executed(w) \in KindsOf("Calc")
    BY <2>2, <2>3, CalcKinds
  <2>5. op # OPCODE_BRANCH
    BY <1>0 DEF Opcodes, Told
  <2>6. Executed(w) # bgeu
    BY <2>3, <2>5, NotBgeu
  <2>7. "Calc" \in inst_flags
    BY OpcodeFlags
  <2> QED
    BY <2>4, <2>6, <2>7 DEF Asked, FlagNames
<1>7. ASSUME OPCODE_CALC_IMM \in opcodes, NEW imm \in random_bits(12), NEW rs1 \in random_bits(4),
             NEW rd \in random_bits(4), NEW f3 \in random_bits(3),
             w = i_type(imm, rs1, f3, rd, OPCODE_CALC_IMM)
      PROVE  Asked(Executed(w))
  <2>1. OPCODE_CALC_IMM # OPCODE_JALR
    BY <1>0 DEF Opcodes, Told
  <2>2. Executed(w) = Kind(OPCODE_CALC_IMM, f3, 10 \in imm /\ HasAlternative(OPCODE_CALC_IMM, f3))
    BY <1>7, <2>1, IKind
  <2>3. PICK b \in BOOLEAN : b = (10 \in imm)
    <3>1. (10 \in imm) \in BOOLEAN
      OBVIOUS
    <3> QED
      BY <3>1, Zenon
  <2>4. f3 \in Funct3
    OBVIOUS
  <2> QED
    BY <1>6, <1>7, <2>2, <2>3, <2>4
<1>8. ASSUME OPCODE_CALC_REG \in opcodes, NEW rs2 \in random_bits(4), NEW rs1 \in random_bits(4),
             NEW rd \in random_bits(4), NEW bit \in random_bits(1), NEW f3 \in random_bits(3),
             w = r_type(Shl(bit, 6), rs2, rs1, f3, rd, OPCODE_CALC_REG)
      PROVE  Asked(Executed(w))
  <2>1. f3 \in Funct3 /\ bit \in SUBSET (0 .. 0)
    OBVIOUS
  <2>2. Executed(w) = Kind(OPCODE_CALC_REG, f3, bit = {0} /\ HasAlternative(OPCODE_CALC_REG, f3))
    BY <1>8, <2>1, RKind
  <2>3. PICK b \in BOOLEAN : b = (bit = {0})
    BY Zenon
  <2> QED
    BY <1>6, <1>8, <2>1, <2>2, <2>3
<1>9. ASSUME OPCODE_SYSTEM \in opcodes, w = ebreak
      PROVE  Asked(Executed(w))
  <2>1. Executed(w) = Kind(OPCODE_SYSTEM, {}, FALSE)
    BY <1>9, EbreakKind
  <2>2. OPCODE_SYSTEM # OPCODE_BRANCH
    BY <1>0 DEF Opcodes, Told
  <2>3. Executed(w) \in KindsOf("System") /\ Executed(w) # bgeu
    BY <2>1, <2>2, FlagKinds, NotBgeu
  <2> QED
    BY <1>9, <2>3, OpcodeFlags DEF Asked, FlagNames
<1> QED
  BY <1>1, <1>2, <1>3, <1>4, <1>5, <1>7, <1>8, <1>9, Zenon DEF Returnable

\* What the random generator is asked for is not always the same: all bits
\* are 0, or 1, or those of any function code.  (A real one draws anything.)
Varied ==
  /\ {} \in Patterns /\ Bit \in Patterns
  /\ \A f3 \in Funct3 : \E b \in Patterns : b \cap (0 .. 2) = f3

LEMMA VariedBits ==
  ASSUME Varied
  PROVE  /\ {} \in random_bits(20) /\ {} \in random_bits(12) /\ 0 .. 11 \in random_bits(12)
         /\ {} \in random_bits(4) /\ 0 .. 3 \in random_reg
         /\ {} \in random_bits(1) /\ {0} \in random_bits(1)
         /\ Funct3 \subseteq random_bits(3)
<1>1. \A n : {} \in random_bits(n)
  BY DEF Varied, random_bits
<1>2. ASSUME NEW n \in 1 .. 31 PROVE 0 .. n - 1 \in random_bits(n)
  <2>1. Bit \cap (0 .. n - 1) = 0 .. n - 1
    BY DEF Bit
  <2> QED
    BY <2>1 DEF Varied, random_bits
<1>3. 0 .. 11 \in random_bits(12) /\ 0 .. 3 \in random_bits(4) /\ 0 .. 0 \in random_bits(1)
  <2>1. /\ 0 .. 12 - 1 \in random_bits(12) /\ 0 .. 4 - 1 \in random_bits(4)
        /\ 0 .. 1 - 1 \in random_bits(1)
    BY <1>2
  <2>2. 12 - 1 = 11 /\ 4 - 1 = 3 /\ 1 - 1 = 0
    OBVIOUS
  <2> QED
    BY <2>1, <2>2, Zenon
<1>4. 0 .. 0 = {0} /\ 0 .. 3 # {}
  OBVIOUS
<1>5. Funct3 \subseteq random_bits(3)
  <2>1. 3 - 1 = 2
    OBVIOUS
  <2> QED
    BY <2>1 DEF Varied, random_bits
<1> QED
  BY <1>1, <1>3, <1>4, <1>5 DEF random_reg

LEMMA KindReturned ==
  ASSUME Varied, NEW kind, Asked(kind)
  PROVE  \E w, d : Returnable(w, d) /\ w # {} /\ Executed(w) = kind
<1>1. \A op \in Opcodes : Told(op)
  BY OpcodesTold
<1>2. \A w, d : Returnable(w, d) /\ Executed(w) = kind => w # {}
  <2>1. \A op \in Opcodes : op # {}
    <3>1. \A op \in Opcodes : 0 \in op
      BY DEF Opcodes, OPCODE_LUI, OPCODE_AUIPC, OPCODE_JAL, OPCODE_JALR, OPCODE_BRANCH, OPCODE_LOAD,
             OPCODE_STORE, OPCODE_CALC_IMM, OPCODE_CALC_REG, OPCODE_SYSTEM
    <3> QED
      BY <3>1
  <2>2. \A op, f3, alt : Kind(op, f3, alt).opcode = op
    BY DEF Kind
  <2>3. kind.opcode \in Opcodes
    <3>1. PICK flag \in FlagNames : kind \in KindsOf(flag)
      BY DEF Asked
    <3>2. CASE flag = "Calc"
      <4>1. \/ \E op \in {OPCODE_LUI, OPCODE_AUIPC} : kind = Kind(op, {}, FALSE)
            \/ \E op \in {OPCODE_CALC_IMM, OPCODE_CALC_REG}, f3 \in Funct3 :
                 \E alt \in Alternatives(op, f3) : kind = Kind(op, f3, alt)
        BY <3>1, <3>2, CalcKinds, Zenon
      <4>2. CASE \E op \in {OPCODE_LUI, OPCODE_AUIPC} : kind = Kind(op, {}, FALSE)
        <5>1. PICK op \in {OPCODE_LUI, OPCODE_AUIPC} : kind = Kind(op, {}, FALSE)
          BY <4>2
        <5>2. kind.opcode = op
          BY <2>2, <5>1, Zenon
        <5> QED
          BY <5>2 DEF Opcodes
      <4>3. CASE \E op \in {OPCODE_CALC_IMM, OPCODE_CALC_REG}, f3 \in Funct3 :
                   \E alt \in Alternatives(op, f3) : kind = Kind(op, f3, alt)
        <5>1. PICK op \in {OPCODE_CALC_IMM, OPCODE_CALC_REG}, f3 \in Funct3 :
                 \E alt \in Alternatives(op, f3) : kind = Kind(op, f3, alt)
          BY <4>3
        <5>2. kind.opcode = op
          BY <2>2, <5>1, Zenon
        <5> QED
          BY <5>2 DEF Opcodes
      <4> QED
        BY <4>1, <4>2, <4>3
    <3>3. CASE flag = "Jump"
      <4>1. PICK op \in {OPCODE_JAL, OPCODE_JALR} : kind = Kind(op, {}, FALSE)
        BY <3>1, <3>3, FlagKinds
      <4> QED
        BY <2>2, <4>1 DEF Opcodes
    <3>4. CASE flag = "Branch"
      <4>1. PICK k \in 1 .. 6 : kind = Kind(OPCODE_BRANCH, branch_types[k], FALSE)
        BY <3>1, <3>4, FlagKinds
      <4> QED
        BY <2>2, <4>1 DEF Opcodes
    <3>5. CASE flag = "Load"
      <4>1. PICK k \in 1 .. 5 : kind = Kind(OPCODE_LOAD, load_types[k], FALSE)
        BY <3>1, <3>5, FlagKinds
      <4> QED
        BY <2>2, <4>1 DEF Opcodes
    <3>6. CASE flag = "Store"
      <4>1. PICK k \in 1 .. 3 : kind = Kind(OPCODE_STORE, store_types[k], FALSE)
        BY <3>1, <3>6, FlagKinds
      <4> QED
        BY <2>2, <4>1 DEF Opcodes
    <3>7. CASE flag = "System"
      <4>1. kind = Kind(OPCODE_SYSTEM, {}, FALSE)
        BY <3>1, <3>7, FlagKinds
      <4> QED
        BY <2>2, <4>1 DEF Opcodes
    <3> QED
      BY <3>2, <3>3, <3>4, <3>5, <3>6, <3>7 DEF FlagNames
  <2>4. Slice({}, 0, 6) = {}
    BY DEF Slice, Wired
  <2>5. Executed({}).opcode = {}
    BY <2>2, <2>4, Zenon DEF Executed
  <2> QED
    BY <2>1, <2>3, <2>5
<1> SUFFICES \E w, d : Returnable(w, d) /\ Executed(w) = kind
  BY <1>2
<1> USE VariedBits
<1>3. DrawnWidths
  BY DrawnWidths
<1>4. ASSUME "Jump" \in inst_flags, kind \in KindsOf("Jump")
      PROVE  \E w, d : Returnable(w, d) /\ Executed(w) = kind
  <2>1. PICK op \in {OPCODE_JAL, OPCODE_JALR} : kind = Kind(op, {}, FALSE)
    BY <1>4, FlagKinds
  <2>2. op \in opcodes
    BY <1>4, OpcodeFlags
  <2>3. CASE op = OPCODE_JAL
    <3>1. Executed(u_type({}, {}, op)) = kind
      BY <1>3, <2>1, <2>3, UKind
    <3>2. Returnable(u_type({}, {}, op), Operands({}, {}, {}, {}, {}, {}))
      BY <2>2, <2>3, Zenon DEF Returnable
    <3> QED
      BY <3>1, <3>2
  <2>4. CASE op = OPCODE_JALR
    <3>1. jalr({}, {}, {}) = i_type({}, {}, {}, {}, op)
      BY <2>4, Zenon DEF jalr
    <3>2. Executed(jalr({}, {}, {})) = Kind(op, {}, 10 \in {} /\ HasAlternative(op, {}))
      BY <1>3, <2>4, <3>1, IKind
    <3>3. Executed(jalr({}, {}, {})) = kind
      BY <2>1, <3>2, Zenon
    <3>4. Returnable(jalr({}, {}, {}), Operands({}, {}, {}, {}, {}, {}))
      BY <2>2, <2>4, Zenon DEF Returnable
    <3> QED
      BY <3>3, <3>4
  <2> QED
    BY <2>3, <2>4
<1>5. ASSUME "Branch" \in inst_flags, kind \in KindsOf("Branch") \ {bgeu}
      PROVE  \E w, d : Returnable(w, d) /\ Executed(w) = kind
  <2>1. PICK k \in 1 .. 6 : kind = Kind(OPCODE_BRANCH, branch_types[k], FALSE)
    BY <1>5, FlagKinds
  <2>2. k \in 1 .. 5
    <3>1. k # 6
      BY <1>5, <2>1, Zenon DEF bgeu
    <3> QED
      BY <3>1
  <2>3. PICK w : w = s_type({}, {}, {}, branch_types[k], OPCODE_BRANCH)
    OBVIOUS
  <2>4. Executed(w) = kind
    BY <1>3, <2>1, <2>2, <2>3, SKind
  <2>5. Returnable(w, Operands({}, {}, {}, branch_types[k], {}, {}))
    BY <1>5, <2>2, <2>3, OpcodeFlags, Zenon DEF Returnable
  <2> QED
    BY <2>4, <2>5
<1>6. ASSUME "Load" \in inst_flags, kind \in KindsOf("Load")
      PROVE  \E w, d : Returnable(w, d) /\ Executed(w) = kind
  <2>1. PICK k \in 1 .. 5 : kind = Kind(OPCODE_LOAD, load_types[k], FALSE)
    BY <1>6, FlagKinds
  <2>2. PICK w : w = i_type({}, 0 .. 3, load_types[k], {}, OPCODE_LOAD)
    OBVIOUS
  <2>3. Executed(w) = kind
    <3>1. OPCODE_LOAD # OPCODE_JALR
      BY <1>1 DEF Opcodes, Told
    <3>2. Executed(w) = Kind(OPCODE_LOAD, load_types[k], 10 \in {} /\ HasAlternative(OPCODE_LOAD, load_types[k]))
      BY <1>3, <2>2, <3>1, IKind
    <3> QED
      BY <2>1, <3>2, Zenon
  <2>4. Returnable(w, Operands({}, {}, 0 .. 3, load_types[k], {}, {}))
    BY <1>6, <2>2, OpcodeFlags, Zenon DEF Returnable
  <2> QED
    BY <2>3, <2>4
<1>7. ASSUME "Store" \in inst_flags, kind \in KindsOf("Store")
      PROVE  \E w, d : Returnable(w, d) /\ Executed(w) = kind
  <2>1. PICK k \in 1 .. 3 : kind = Kind(OPCODE_STORE, store_types[k], FALSE)
    BY <1>7, FlagKinds
  <2>2. PICK w : w = s_type({}, {}, 0 .. 3, store_types[k], OPCODE_STORE)
    OBVIOUS
  <2>3. Executed(w) = kind
    BY <1>3, <2>1, <2>2, SKind
  <2>4. Returnable(w, Operands({}, {}, 0 .. 3, store_types[k], {}, {}))
    BY <1>7, <2>2, OpcodeFlags, Zenon DEF Returnable
  <2> QED
    BY <2>3, <2>4
<1>8. ASSUME "System" \in inst_flags, kind \in KindsOf("System")
      PROVE  \E w, d : Returnable(w, d) /\ Executed(w) = kind
  <2>1. Executed(ebreak) = kind
    BY <1>8, FlagKinds, EbreakKind
  <2>2. Returnable(ebreak, NoOperands)
    BY <1>8, OpcodeFlags, Zenon DEF Returnable
  <2> QED
    BY <2>1, <2>2
<1>9. ASSUME "Calc" \in inst_flags, kind \in KindsOf("Calc")
      PROVE  \E w, d : Returnable(w, d) /\ Executed(w) = kind
  <2>1. CASE \E op \in {OPCODE_LUI, OPCODE_AUIPC} : kind = Kind(op, {}, FALSE)
    <3>1. PICK op \in {OPCODE_LUI, OPCODE_AUIPC} : kind = Kind(op, {}, FALSE)
      BY <2>1
    <3>2. Executed(u_type({}, {}, op)) = kind
      BY <1>3, <3>1, UKind
    <3>3. op \in {OPCODE_LUI, OPCODE_AUIPC, OPCODE_JAL} \cap opcodes
      BY <1>9, OpcodeFlags
    <3>4. Returnable(u_type({}, {}, op), Operands({}, {}, {}, {}, {}, {}))
      BY <3>3, Zenon DEF Returnable
    <3> QED
      BY <3>2, <3>4
  <2>2. CASE \E op \in {OPCODE_CALC_IMM, OPCODE_CALC_REG}, f3 \in Funct3 :
               \E alt \in Alternatives(op, f3) : kind = Kind(op, f3, alt)
    <3>1. PICK op \in {OPCODE_CALC_IMM, OPCODE_CALC_REG}, f3 \in Funct3 :
             \E alt \in Alternatives(op, f3) : kind = Kind(op, f3, alt)
      BY <2>2
    <3>2. PICK alt \in Alternatives(op, f3) : kind = Kind(op, f3, alt)
      BY <3>1
    <3>3. alt \in BOOLEAN /\ (alt => HasAlternative(op, f3))
      BY DEF Alternatives
    <3>4. f3 \in random_bits(3)
      OBVIOUS
    <3>5. CASE op = OPCODE_CALC_IMM
      <4>1. PICK imm \in random_bits(12) : 10 \in imm <=> alt
        <5>1. 10 \in 0 .. 11 /\ 10 \notin {}
          OBVIOUS
        <5> QED
          BY <3>3, <5>1
      <4>2. PICK w : w = i_type(imm, {}, f3, {}, OPCODE_CALC_IMM)
        OBVIOUS
      <4>3. OPCODE_CALC_IMM # OPCODE_JALR
        BY <1>1 DEF Opcodes, Told
      <4>4. Executed(w) = Kind(op, f3, 10 \in imm /\ HasAlternative(op, f3))
        BY <1>3, <3>5, <4>2, <4>3, IKind
      <4>5. (10 \in imm /\ HasAlternative(op, f3)) = alt
        BY <3>3, <4>1, Zenon
      <4>6. Returnable(w, Operands(imm, {}, {}, f3, {}, {}))
        BY <1>9, <3>4, <4>2, OpcodeFlags, Zenon DEF Returnable
      <4> QED
        BY <3>2, <4>4, <4>5, <4>6, Zenon
    <3>6. CASE op = OPCODE_CALC_REG
      <4>1. PICK bit \in random_bits(1) : bit = {0} <=> alt
        <5>1. {} # {0}
          OBVIOUS
        <5> QED
          BY <3>3, <5>1
      <4>2. PICK w : w = r_type(Shl(bit, 6), {}, {}, f3, {}, OPCODE_CALC_REG)
        OBVIOUS
      <4>3. Executed(w) = Kind(op, f3, bit = {0} /\ HasAlternative(op, f3))
        BY <1>3, <3>6, <4>2, RKind
      <4>4. (bit = {0} /\ HasAlternative(op, f3)) = alt
        BY <3>3, <4>1, Zenon
      <4>5. Returnable(w, Operands({}, {}, {}, f3, bit, {}))
        BY <1>9, <3>4, <4>2, OpcodeFlags, Zenon DEF Returnable
      <4> QED
        BY <3>2, <4>3, <4>4, <4>5, Zenon
    <3> QED
      BY <3>5, <3>6
  <2> QED
    BY <1>9, <2>1, <2>2, CalcKinds, Zenon
<1> QED
  BY <1>4, <1>5, <1>6, <1>7, <1>8, <1>9 DEF Asked, FlagNames

(***************************************************************************)
(* random_instruction can return the instructions of the kinds it is asked *)
(* for, all of them but bgeu, and no other: what AllButBgeuDrawable says   *)
(* with ENABLED, said of the words of Returnable, of which one is returned *)
(* at each call and each can be.                                           *)
(***************************************************************************)
THEOREM ExactlyTheKindsAsked ==
  ASSUME Varied
  PROVE  /\ random_instruction <=> Drawing /\ \E w, d : Returnable(w, d) /\ Returns(w, d)
         /\ \A kind : Asked(kind) <=>
              \E w, d : Returnable(w, d) /\ w # {} /\ Executed(w) = kind
BY ReturnsReturnable, ReturnedKind, KindReturned, Zenon

\* The branch types are six, of which five are drawn from.
NoBgeu == inst # NoInst => Executed(inst) # bgeu

(***************************************************************************)
(* No random program has a bgeu (riscv.cpp: random_range's upper end is    *)
(* not drawn, and branch_types is given one less), whatever the generator, *)
(* the flags and the length: the random tests say nothing of it.           *)
(***************************************************************************)
THEOREM BgeuNeverTested == Spec => []NoBgeu
<1>1. Init => NoBgeu
  BY DEF Init, NoBgeu
<1>2. MadeInv /\ NoBgeu /\ [Next]_vars => NoBgeu'
  <2> SUFFICES ASSUME MadeInv, NoBgeu, [Next]_vars, inst' # NoInst
               PROVE  Executed(inst') # bgeu
    BY Zenon DEF NoBgeu
  <2>0. {} \in Funct3 /\ \A op \in Opcodes : Told(op)
    BY OpcodesTold, DrawnWidths
  <2>1. CASE SetUpper
    <3>1. inst' = u_type(Bits(base'), ThisRegister, OPCODE_LUI) /\ ThisRegister \in Reg4
      BY <2>1, RegisterBits DEF SetUpper, lui
    <3>2. Executed(inst') = Kind(OPCODE_LUI, {}, FALSE)
      BY <3>1, PageBits, UKind
    <3>3. OPCODE_LUI # OPCODE_BRANCH
      BY <2>0 DEF Opcodes, Told
    <3> QED
      BY <3>2, <3>3, NotBgeu
  <2>2. CASE SetLower
    <3>1. PICK imm \in random_bits(12) :
            inst' = i_type(imm, ThisRegister, {}, ThisRegister, OPCODE_CALC_IMM)
      BY <2>2 DEF SetLower, addi, calc_imm, FUNCT3_ADD
    <3>2. ThisRegister \in Reg4 /\ imm \in Imm12
      BY <2>2, RegisterBits, DrawnWidths DEF SetLower
    <3>3. OPCODE_CALC_IMM # OPCODE_JALR /\ OPCODE_CALC_IMM # OPCODE_BRANCH
      BY <2>0 DEF Opcodes, Told
    <3>4. Executed(inst')
            = Kind(OPCODE_CALC_IMM, {}, 10 \in imm /\ HasAlternative(OPCODE_CALC_IMM, {}))
      BY <2>0, <3>1, <3>2, <3>3, IKind
    <3> QED
      BY <3>3, <3>4, NotBgeu
  <2>3. CASE random_instruction
    <3>1. PICK w, d : Returnable(w, d) /\ inst' = w
      BY <2>3, ReturnsReturnable, Zenon DEF Returns
    <3>2. CASE w # {}
      BY <3>1, <3>2, ReturnedKind DEF Asked
    <3>3. CASE w = {}
      <4>1. Slice({}, 0, 6) = {}
        BY DEF Slice, Wired
      <4>2. Executed({}).opcode = {} /\ bgeu.opcode = OPCODE_BRANCH
        <5>1. \A op, f3, alt : Kind(op, f3, alt).opcode = op
          BY DEF Kind
        <5> QED
          BY <4>1, <5>1, Zenon DEF Executed, bgeu
      <4>3. OPCODE_BRANCH # {}
        BY DEF OPCODE_BRANCH
      <4> QED
        BY <3>1, <3>3, <4>2, <4>3
    <3> QED
      BY <3>2, <3>3
  <2>4. CASE Store \/ NextTest \/ UNCHANGED vars
    BY <2>4 DEF Store, NextTest, vars, NoBgeu
  <2> QED
    BY <2>1, <2>2, <2>3, <2>4, Zenon DEF Next
<1> QED
  BY <1>1, <1>2, MadeInvariance, PTL DEF Spec
====
