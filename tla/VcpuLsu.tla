------------------------------ MODULE VcpuLsu -------------------------------
(***************************************************************************)
(* The load/store unit between the core that drives it (idu.sv, exu.sv and *)
(* cpu.sv, seen from the LSU's ports) and the memory of the vcpu test      *)
(* bench (soc_main.cpp).                                                   *)
(*                                                                         *)
(* vcpu_fetch_exec runs vcpu_subtick and vcpu_tick in turn.  A subtick     *)
(* moves the bench; a tick toggles the clock, and the one that raises it   *)
(* moves every register of the CPU at once.                                *)
(***************************************************************************)
EXTENDS Lsu

CONSTANTS
  DelayRanges,   \* the sets of delays the bench may be told to draw from
  NoRequest,     \* no request is latched
  NoOp,          \* no access: a value of the golden memory's op
  Addr,          \* the addresses the core accesses
  WData,         \* the words it stores
  LeftAddr       \* what a load may leave on the address wires

VARIABLES
  delays, pend, waitRespValid, respValid_ticks,   \* the bench's port, see BusPort
  stall,    \* EXU_STALL_LSU: the core waits for the answer to its access
  result,   \* what a load wrote to the register file, until the next access
  mem,      \* the bench's RAM and flash
  printed,  \* characters printed since the core issued its last access
  clock,    \* the clock's level
  turn      \* what the bench's loop runs next: "subtick" or "tick"

INSTANCE BusPort

ASSUME DelaysAssumption == DelayRanges \subseteq SUBSET Nat
ASSUME CoreAssumption ==
  /\ Addr \subseteq Address /\ WData \subseteq Word /\ LeftAddr \subseteq Address
  /\ NoRequest \notin Request /\ NoOp \notin Operands

portVars == <<delays, io_respValid, pend, waitRespValid, respValid_ticks>>
coreVars == <<reqValid, op, stall, result>>
memVars  == <<mem, printed, io_rdata>>
vars == <<coreVars, memVars, portVars, lsuRegs, clock, turn>>

NoData == [l \in Lane |-> ZERO]

\* The loads and stores of RV32: only LBU and LHU have inst_type[2] set.  A
\* load does not look at rdata2.
CoreOps == {o \in [is_write : BOOLEAN, addr : Addr, wdata : WData \cup {NoData},
                   data_size : {LSU_BYTE, LSU_HALF, LSU_WORD}, is_mem_sign : BOOLEAN] :
  /\ ~o.is_mem_sign => ~o.is_write /\ o.data_size # LSU_WORD
  /\ IF o.is_write THEN o.wdata \in WData ELSE o.wdata = NoData}

-----------------------------------------------------------------------------
(* The core's side of a rising edge.  idu_respValid is up for one cycle    *)
(* per instruction; exu_respValid, and so the next fetch, follows the      *)
(* LSU's answer; at least one cycle passes before the next access.         *)

CoreQuiet == ~reqValid /\ ~stall /\ UNCHANGED coreVars /\ UNCHANGED printed

CoreIssue ==
  /\ ~reqValid /\ ~stall
  /\ reqValid' = TRUE
  /\ op' \in CoreOps
  /\ printed' = 0
  /\ result' = NoData
  /\ UNCHANGED stall

CoreStall ==
  /\ reqValid \/ stall
  /\ ~respValid
  /\ reqValid' = FALSE
  /\ stall' = TRUE
  /\ UNCHANGED <<op, result, printed>>

CoreRetireStore ==
  /\ reqValid \/ stall
  /\ respValid /\ op.is_write
  /\ reqValid' = FALSE
  /\ stall' = FALSE
  /\ UNCHANGED <<op, result, printed>>

\* rf_wen: the register the load writes may be the one its address wire
\* comes from.
CoreRetireLoad ==
  /\ reqValid \/ stall
  /\ respValid /\ ~op.is_write
  /\ reqValid' = FALSE
  /\ stall' = FALSE
  /\ result' = rdata
  /\ \E a \in LeftAddr : op' = [op EXCEPT !.addr = a]
  /\ UNCHANGED printed

CoreEdge == CoreQuiet \/ CoreIssue \/ CoreStall \/ CoreRetireStore \/ CoreRetireLoad

-----------------------------------------------------------------------------
(* The bench.                                                              *)

\* The write, then the read, of the latched request.
Perform(r) ==
  /\ mem' = IF r.wen THEN v_mem_write(mem, r.addr, r.wmask, r.wdata) ELSE mem
  /\ printed' = IF r.wen /\ Prints(r.addr) THEN printed + 1 ELSE printed
  /\ io_rdata' \in v_mem_read(mem', r.addr)

Subtick ==
  /\ turn = "subtick" /\ turn' = "tick"
  /\ \E d \in delays :
       LET s == Sampled(io_reqValid /\ clock = 1, io_request, d) IN
       \/ Answer(s) /\ Perform(s.pend)
       \/ NoAnswer(s) /\ UNCHANGED memVars
  /\ UNCHANGED <<coreVars, lsuRegs, delays, clock>>

Fall ==
  /\ turn = "tick" /\ turn' = "subtick"
  /\ clock = 1 /\ clock' = 0
  /\ UNCHANGED <<coreVars, memVars, portVars, lsuRegs>>

Rise ==
  /\ turn = "tick" /\ turn' = "subtick"
  /\ clock = 0 /\ clock' = 1
  /\ Edge
  /\ CoreEdge
  /\ UNCHANGED <<mem, io_rdata, portVars>>

Init ==
  /\ LsuReset /\ PortReset
  /\ reqValid = FALSE /\ stall = FALSE
  /\ op \in CoreOps /\ ~op.is_write
  /\ result = NoData
  /\ mem \in Memory
  /\ printed = 0
  /\ io_rdata = NoData
  /\ clock = 0 /\ turn = "subtick"

Next == Subtick \/ Fall \/ Rise

Spec == Init /\ [][Next]_vars

\* The bench's loop runs until the test ends.
FairSpec == Spec /\ WF_vars(Next)

-----------------------------------------------------------------------------
(* Properties.                                                             *)

InFlight == reqValid \/ stall

TypeOK ==
  /\ reqValid \in BOOLEAN /\ stall \in BOOLEAN
  /\ op \in Operands
  /\ result \in Word
  /\ curr_state \in LsuState
  /\ first_rdata_q \in [1 .. 3 -> Byte]
  /\ io_reqValid_q \in BOOLEAN
  /\ io_respValid \in BOOLEAN
  /\ io_rdata \in Word
  /\ delays \in DelayRanges
  /\ pend \in Request \cup {NoRequest}
  /\ waitRespValid \in Nat /\ respValid_ticks \in 0 .. 2
  /\ mem \in Memory /\ printed \in Nat
  /\ clock \in {0, 1} /\ turn \in {"subtick", "tick"}

(***************************************************************************)
(* Once the bench has run its subtick, the request it has latched while an *)
(* access is in flight is the one the LSU is waiting for, of the part it   *)
(* is waiting for: neither a request left from the access before, nor the  *)
(* first part's while the second is awaited (lsu.sv:43, 66, 77 take the    *)
(* part from the state, and soc_main.cpp:736 latches on every rising edge  *)
(* that finds the line up).                                                *)
(***************************************************************************)
LatchedIsCurrent ==
  turn = "tick" /\ InFlight /\ pend # NoRequest
    => pend = part(op, curr_state = "WAIT_MIS_TWO")

(***************************************************************************)
(* A bus that takes two cycles or more holds no request of an access the   *)
(* core has finished with: io_reqValid_q (lsu.sv:149) does not ask again   *)
(* for what was answered.  (One that takes a cycle is asked again.)        *)
(***************************************************************************)
NoOrphanRequest == SlowBus /\ ~InFlight => pend = NoRequest

(***************************************************************************)
(* On such a bus a store to the UART's transmit register that has retired  *)
(* has printed one character, and a load none.  (Of the other stores only  *)
(* one that wraps around the address space reaches that register; the      *)
(* golden model does not map it.)                                          *)
(***************************************************************************)
PrintedOnce ==
  SlowBus /\ ~InFlight =>
    /\ op.is_write /\ op.addr = UartData => printed = 1
    /\ ~op.is_write => printed = 0

(***************************************************************************)
(* The core's loads and stores are those of the golden model.  A store     *)
(* takes effect there when the bench performs its first part, a load when  *)
(* it retires; until a misaligned store's second part is performed the     *)
(* golden memory is the bench's with that part written too.                *)
(***************************************************************************)
\* (When the core issues an access the answer line may still show the answer
\* to a repeated request of the access before.)
Begun ==
  /\ InFlight /\ op.is_write
  /\ \/ curr_state = "WAIT_MIS_TWO"
     \/ /\ io_respValid /\ pend = NoRequest
        /\ ~(curr_state = "IDLE" /\ clock = 1 /\ turn = "subtick")

PartWritten(m, second) ==
  LET r == part(op, second) IN v_mem_write(m, r.addr, r.wmask, r.wdata)

goldMem ==
  IF Begun /\ is_misalign THEN PartWritten(PartWritten(mem, FALSE), TRUE) ELSE mem

goldOp == IF InFlight /\ ~Begun THEN op ELSE NoOp

Gold == INSTANCE GoldMem WITH mem <- goldMem, op <- goldOp

GoldSpec == Gold!GoldSpec

(***************************************************************************)
(* Every access the core issues retires: no order of answer and request    *)
(* leaves the LSU waiting for an answer that has gone by.                  *)
(***************************************************************************)
EveryAccessRetires == InFlight ~> ~InFlight
=============================================================================
