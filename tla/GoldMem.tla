------------------------------ MODULE GoldMem -------------------------------
(***************************************************************************)
(* What a load or a store does in the golden model (gcpu.cpp): it happens  *)
(* at once.  A load returns the four bytes from its address on, cut to its *)
(* size and extended; a store changes the bytes it names.  An access for   *)
(* which the golden model raises is_not_mapped ends the comparison of a    *)
(* random test, so here it may return anything and may change no byte but  *)
(* those it names.                                                         *)
(***************************************************************************)
EXTENDS MemMap

CONSTANT NoOp

VARIABLES mem, op, result

goldVars == <<mem, op, result>>

Size(o) == CASE o.data_size = 0 -> 1 [] o.data_size = 1 -> 2 [] OTHER -> 4

\* The byte address i bytes after a.
Plus(a, i) == [word |-> (a.word + (a.off + i) \div 4) % NWords, off |-> (a.off + i) % 4]

\* The distance, in bytes, of lane l of word w from address a.
Distance(a, w, l) == 4 * (w - a.word) + l - a.off

g_mem_read(m, a) == [i \in Lane |-> m[Plus(a, i).word][Plus(a, i).off]]

g_mem_write(m, a, n, wdata) ==
  [w \in Stored |-> [l \in Lane |->
     LET i == Distance(a, w, l) IN
     IF w \in RamWords /\ 0 <= i /\ i < n THEN wdata[i] ELSE m[w][l]]]

\* reg_wdata of the three load types.
mem_extend(w, o) ==
  LET n == Size(o) IN
  [i \in Lane |-> IF i < n THEN w[i]
                  ELSE IF o.is_mem_sign /\ w[n - 1] \in NegByte THEN ONES ELSE ZERO]

\* The bytes o names.
Named(o, w, l) == \E i \in 0 .. Size(o) - 1 : Plus(o.addr, i) = [word |-> w, off |-> l]

Load ==
  /\ op # NoOp /\ ~op.is_write
  /\ InRam(op.addr) \/ InFlash(op.addr) => result' = mem_extend(g_mem_read(mem, op.addr), op)
  /\ result' \in Word
  /\ op' = NoOp
  /\ UNCHANGED mem

Store ==
  /\ op # NoOp /\ op.is_write
  /\ IF InRam(op.addr)
     THEN mem' = g_mem_write(mem, op.addr, Size(op), op.wdata)
     ELSE \A w \in Stored, l \in Lane :
            mem'[w][l] = mem[w][l] \/ (w \in RamWords /\ Named(op, w, l))
  /\ op' = NoOp
  /\ UNCHANGED result

\* The core asks for an access; what the one before returned is forgotten.
Ask == op = NoOp /\ op' # NoOp /\ result' \in Word /\ UNCHANGED mem

GoldInit == mem \in Memory /\ op = NoOp /\ result \in Word

GoldNext == Ask \/ Load \/ Store

GoldSpec == GoldInit /\ [][GoldNext]_goldVars
=============================================================================
