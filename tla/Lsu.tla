-------------------------------- MODULE Lsu ---------------------------------
(***************************************************************************)
(* The load/store unit, soc/lsu.sv: one access of the core becomes one bus *)
(* transaction, or two when it crosses a word boundary.  Wires are state   *)
(* functions of the registers and the input ports, Edge is the rising edge *)
(* of the clock.                                                           *)
(***************************************************************************)
EXTENDS MemMap

VARIABLES
  reqValid,       \* the core presents an access in this cycle
  op,             \* its operands: wires from the IDU and the register file
  io_respValid,   \* the bus answers in this cycle
  io_rdata,       \* with this word
  curr_state, first_rdata_q, io_reqValid_q   \* the unit's registers

lsuRegs == <<curr_state, first_rdata_q, io_reqValid_q>>

LSU_BYTE == 0
LSU_HALF == 1
LSU_WORD == 2

Operands == [is_write : BOOLEAN, addr : Address, wdata : Word,
             data_size : {LSU_BYTE, LSU_HALF, LSU_WORD}, is_mem_sign : BOOLEAN]

LsuState == {"IDLE", "WAIT_ONE", "WAIT_MIS_ONE", "WAIT_MIS_TWO"}

Misaligned(o) ==
  \/ o.addr.off # 0 /\ o.data_size = LSU_WORD
  \/ o.addr.off = 3 /\ o.data_size = LSU_HALF

is_misalign == Misaligned(op)

-----------------------------------------------------------------------------
(* What the unit puts on the bus for the first or the second part of o.    *)

part_addr(o, second) ==
  IF second THEN [word |-> (o.addr.word + 1) % NWords, off |-> 0] ELSE o.addr

part_wdata(o) == [l \in Lane |-> o.wdata[(l + 4 - o.addr.off) % 4]]

part_wmask(o, second) ==
  CASE o.data_size = LSU_BYTE -> {o.addr.off}
    [] o.data_size = LSU_HALF -> IF second THEN {0}
                                 ELSE {l \in Lane : o.addr.off <= l /\ l <= o.addr.off + 1}
    [] OTHER -> IF second /\ o.addr.off # 0 THEN {l \in Lane : l < o.addr.off}
                ELSE {l \in Lane : o.addr.off <= l}

part(o, second) ==
  [addr |-> part_addr(o, second), wdata |-> part_wdata(o),
   wmask |-> part_wmask(o, second), wen |-> o.is_write]

Request == [addr : Address, wdata : Word, wmask : SUBSET Lane, wen : BOOLEAN]

\* Slip: the request wires show the second part as long as the first is out.
is_second_part_Early == curr_state \in {"WAIT_MIS_ONE", "WAIT_MIS_TWO"}

is_second_part ==
  curr_state = "WAIT_MIS_TWO" \/ (curr_state = "WAIT_MIS_ONE" /\ io_respValid)

io_request == part(op, is_second_part)

-----------------------------------------------------------------------------
(* The data a load returns.                                                *)

\* Slip: the first part's word is not kept.
first_rdata_Current == [l \in 1 .. 3 |-> io_rdata[l]]

first_rdata ==
  IF curr_state = "WAIT_MIS_TWO" /\ io_respValid
  THEN first_rdata_q
  ELSE [l \in 1 .. 3 |-> io_rdata[l]]

align_rdata ==
  [l \in Lane |->
     LET k == l + op.addr.off IN
     IF op.addr.off = 0 THEN io_rdata[l]
     ELSE IF k < 4 THEN first_rdata[k] ELSE io_rdata[k - 4]]

\* Sign or zero extension of the lanes from n up.
Extend(w, n, sign) ==
  [l \in Lane |-> IF l < n THEN w[l]
                  ELSE IF sign /\ w[n - 1] \in NegByte THEN ONES ELSE ZERO]

Sized(w, size, sign) ==
  CASE size = LSU_BYTE -> Extend(w, 1, sign)
    [] size = LSU_HALF -> Extend(w, 2, sign)
    [] OTHER -> w

rdata == Sized(align_rdata, op.data_size, op.is_mem_sign)

-----------------------------------------------------------------------------
(* Handshakes and the state machine.                                       *)

\* Slip: the second part is never asked for.
io_reqValid_d_FirstOnly == curr_state = "IDLE" /\ reqValid

io_reqValid_d ==
  \/ curr_state = "IDLE" /\ reqValid
  \/ curr_state = "WAIT_MIS_ONE" /\ io_respValid

io_reqValid == io_reqValid_d \/ io_reqValid_q

\* Slip: the first part's answer is taken for the access's.
respValid_FirstPart ==
  /\ io_respValid
  /\ curr_state # "IDLE" \/ (reqValid /\ ~is_misalign)

respValid ==
  /\ io_respValid
  /\ \/ curr_state = "IDLE" /\ reqValid /\ ~is_misalign
     \/ curr_state \in {"WAIT_ONE", "WAIT_MIS_TWO"}

Idle == curr_state = "IDLE" /\ ~reqValid /\ curr_state' = "IDLE"

Accept ==
  /\ curr_state = "IDLE" /\ reqValid /\ ~io_respValid
  /\ curr_state' = IF is_misalign THEN "WAIT_MIS_ONE" ELSE "WAIT_ONE"

\* The bus answers in the very cycle that asks.
AcceptAnswered ==
  /\ curr_state = "IDLE" /\ reqValid /\ io_respValid
  /\ curr_state' = IF is_misalign THEN "WAIT_MIS_TWO" ELSE "IDLE"

SecondPart ==
  curr_state = "WAIT_MIS_ONE" /\ io_respValid /\ curr_state' = "WAIT_MIS_TWO"

Finish ==
  curr_state \in {"WAIT_ONE", "WAIT_MIS_TWO"} /\ io_respValid /\ curr_state' = "IDLE"

Wait == curr_state # "IDLE" /\ ~io_respValid /\ UNCHANGED curr_state

Edge ==
  /\ Idle \/ Accept \/ AcceptAnswered \/ SecondPart \/ Finish \/ Wait
  /\ io_reqValid_q' = io_reqValid_d
  /\ first_rdata_q' = IF ~op.is_write /\ io_respValid
                      THEN [l \in 1 .. 3 |-> io_rdata[l]] ELSE first_rdata_q

LsuReset ==
  /\ curr_state = "IDLE"
  /\ io_reqValid_q = FALSE
  /\ first_rdata_q = [l \in 1 .. 3 |-> ZERO]
=============================================================================
