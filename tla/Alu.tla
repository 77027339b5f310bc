--------------------------------- MODULE Alu ---------------------------------
(***************************************************************************)
(* The arithmetic of the CPU (alu.sv, com.sv) and that of the golden model *)
(* (gcpu.cpp, riscv.cpp), on words of W bits.  A word is the set of the    *)
(* positions of its 1 bits, as in Encoding; sums and differences are those *)
(* of the numbers that the words stand for.                                *)
(***************************************************************************)
EXTENDS Integers

CONSTANT W   \* width of a word, a power of two; 32 in the code

Bit   == 0 .. W - 1
Words == SUBSET Bit

\* The word of a number, in two's complement, and the number of a word.
Word(n)  == {k \in Bit : (n \div 2^k) % 2 = 1}
Value(x) == CHOOSE n \in 0 .. 2^W - 1 : Word(n) = x

Add(x, y) == Word(Value(x) + Value(y))
Sub(x, y) == Word(Value(x) - Value(y))
Xor(x, y) == (x \ y) \cup (y \ x)
Shl(x, n) == {k \in Bit : k - n \in x}
Shr(x, n) == {k \in Bit : k + n \in x}
Sra(x, n) == {k \in Bit : k + n \in x \/ (k + n >= W /\ W - 1 \in x)}   \* >>> of a $signed

\* Of unsigned words: at the highest bit in which they differ.
Less(x, y) == \E k \in y \ x : \A j \in Bit : j > k => (j \in x <=> j \in y)

\* $signed, int32_t: with the sign, the negative ones come first.
SignedLess(x, y) == Less(Xor(x, {W - 1}), Xor(y, {W - 1}))

Flag(b) == IF b THEN {0} ELSE {}

\* rhs[4:0]
shamt(rhs) == CHOOSE n \in Bit : Word(n) = rhs \cap Word(W - 1)

-----------------------------------------------------------------------------
alu(op, lhs, rhs) ==
  CASE op = 0  -> Add(lhs, rhs)
    [] op = 8  -> Sub(lhs, rhs)
    [] op = 4  -> Xor(lhs, rhs)
    [] op = 7  -> lhs \cap rhs
    [] op = 15 -> lhs \ rhs
    [] op = 6  -> lhs \cup rhs
    [] op = 1  -> Shl(lhs, shamt(rhs))
    [] op = 5  -> Shr(lhs, shamt(rhs))
    [] op = 13 -> Sra(lhs, shamt(rhs))
    [] op = 2  -> Flag(SignedLess(lhs, rhs))
    [] op = 3  -> Flag(Less(lhs, rhs))
    [] op = 10 -> lhs
    [] op = 11 -> rhs
    [] OTHER   -> {}

com(op, lhs, rhs) ==
  CASE op = 0 -> lhs = rhs
    [] op = 1 -> lhs # rhs
    [] op = 4 -> SignedLess(lhs, rhs)
    [] op = 5 -> lhs = rhs \/ SignedLess(rhs, lhs)
    [] op = 6 -> Less(lhs, rhs)
    [] op = 7 -> lhs = rhs \/ Less(rhs, lhs)
    [] op = 2 -> TRUE
    [] OTHER  -> FALSE

-----------------------------------------------------------------------------
\* Slip: only the sign itself is set again.
sra32_SignOnly(u, shift) ==
  IF shift = 0 THEN u
  ELSE Shr(u, shift) \cup (IF W - 1 \in u THEN {W - 1} ELSE {})

\* The shift of a word as unsigned, with the bits it has left open set if the
\* word was negative.  (By 0 the code negates the magnitude of a negative word,
\* which is the word again, the least one by the machine's wrap-around.)
sra32(u, shift) ==
  IF shift = 0 THEN u
  ELSE Shr(u, shift) \cup (IF W - 1 \in u THEN Shl(Bit, W - shift) ELSE {})

alu_eval(op, lhs, rhs) ==
  CASE op = 0  -> Add(lhs, rhs)
    [] op = 8  -> Sub(lhs, rhs)
    [] op = 4  -> Xor(lhs, rhs)
    [] op = 7  -> lhs \cap rhs
    [] op = 6  -> lhs \cup rhs
    [] op = 1  -> Shl(lhs, shamt(rhs))
    [] op = 5  -> Shr(lhs, shamt(rhs))
    [] op = 13 -> sra32(lhs, shamt(rhs))
    [] op = 2  -> Flag(SignedLess(lhs, rhs))
    [] op = 3  -> Flag(Less(lhs, rhs))
    [] OTHER   -> {}

\* bge is what is not blt here.
compare(op, lhs, rhs) ==
  CASE op = 0 -> lhs = rhs
    [] op = 1 -> lhs # rhs
    [] op = 4 -> SignedLess(lhs, rhs)
    [] op = 5 -> ~SignedLess(lhs, rhs)
    [] op = 6 -> Less(lhs, rhs)
    [] op = 7 -> lhs = rhs \/ Less(rhs, lhs)
    [] OTHER  -> FALSE

-----------------------------------------------------------------------------
(* For the operations and comparisons the golden model has, alu.sv and     *)
(* com.sv compute on every pair of words what alu_eval and compare do; a   *)
(* result is a word.                                                       *)
Agree ==
  \A lhs, rhs \in Words :
    /\ alu(11, lhs, rhs) = rhs
    /\ \A op \in {0, 8, 1, 2, 3, 4, 5, 13, 6, 7} :
         /\ alu(op, lhs, rhs) = alu_eval(op, lhs, rhs)
         /\ alu(op, lhs, rhs) \in Words
    /\ \A op \in 0 .. 7 \ {2} :
         com(op, lhs, rhs) \in BOOLEAN /\ com(op, lhs, rhs) = compare(op, lhs, rhs)
=============================================================================
