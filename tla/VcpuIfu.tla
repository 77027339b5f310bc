------------------------------ MODULE VcpuIfu -------------------------------
(***************************************************************************)
(* The fetch path: the IFU with its cache, the core that asks it for one   *)
(* instruction after another (is_start and ifu_reqValid of cpu.sv, the     *)
(* instruction register of idu.sv, pc.sv), and the instruction port of the *)
(* vcpu test bench (soc_main.cpp).  While an instruction executes, its     *)
(* store may change a word of the memory that is executed too.             *)
(***************************************************************************)
EXTENDS Ifu

CONSTANTS
  DelayRanges, \* the sets of delays the bench may be told to draw from
  NoRequest,   \* no request is latched
  Writable     \* the words that stores reach

VARIABLES
  delays, pend, waitRespValid, respValid_ticks,   \* the bench's port, see BusPort
  is_start,        \* the reset is just over
  idu_respValid,   \* the IDU has taken an instruction at the last edge
  idu_inst,        \* its register
  stall,           \* EXU_STALL_LSU: the instruction waits for the LSU
  mem,             \* the memory the instructions are in
  clock, turn

INSTANCE BusPort

ASSUME IfuAssumption ==
  DelayRanges \subseteq SUBSET Nat /\ Writable \subseteq WordNo /\ NoRequest \notin WordNo

coreVars == <<reqValid, pc, is_start, idu_respValid, idu_inst, stall>>
ifuVars  == <<curr_state, cacheVars>>
portVars == <<delays, io_respValid, pend, waitRespValid, respValid_ticks>>
vars == <<coreVars, ifuVars, portVars, io_rdata, mem, clock, turn>>

Executing == idu_respValid \/ stall

-----------------------------------------------------------------------------
(* The core's side of a rising edge.                                       *)

Idu ==
  /\ idu_respValid' = respValid
  /\ idu_inst' = IF respValid THEN inst ELSE idu_inst

\* ifu_reqValid <= exu_respValid || is_start
CoreStart ==
  /\ is_start
  /\ is_start' = FALSE /\ reqValid' = TRUE
  /\ UNCHANGED <<pc, stall>>

CoreWait ==
  /\ ~is_start /\ ~Executing
  /\ reqValid' = FALSE
  /\ UNCHANGED <<pc, stall, is_start>>

CoreStall ==
  /\ ~is_start /\ Executing
  /\ stall' = TRUE /\ reqValid' = FALSE
  /\ UNCHANGED <<pc, is_start>>

\* exu_respValid: the next pc is any address.
CoreRetire ==
  /\ ~is_start /\ Executing
  /\ stall' = FALSE /\ reqValid' = TRUE
  /\ pc' \in WordNo
  /\ UNCHANGED is_start

CoreEdge == Idu /\ (CoreStart \/ CoreWait \/ CoreStall \/ CoreRetire)

-----------------------------------------------------------------------------
(* The bench.                                                              *)

Store ==
  /\ stall
  /\ \E w \in Writable, i \in Inst : mem' = [mem EXCEPT ![w] = i]

Subtick ==
  /\ turn = "subtick" /\ turn' = "tick"
  /\ \E d \in delays :
       LET s == Sampled(io_reqValid /\ clock = 1, pc, d) IN
       \/ Answer(s) /\ io_rdata' = mem[s.pend]
       \/ NoAnswer(s) /\ UNCHANGED io_rdata
  /\ Store \/ UNCHANGED mem
  /\ UNCHANGED <<coreVars, ifuVars, delays, clock>>

Fall ==
  /\ turn = "tick" /\ turn' = "subtick"
  /\ clock = 1 /\ clock' = 0
  /\ UNCHANGED <<coreVars, ifuVars, portVars, io_rdata, mem>>

Rise ==
  /\ turn = "tick" /\ turn' = "subtick"
  /\ clock = 0 /\ clock' = 1
  /\ Edge
  /\ CoreEdge
  /\ UNCHANGED <<portVars, io_rdata, mem>>

Init ==
  /\ IfuReset /\ PortReset
  /\ reqValid = FALSE /\ is_start = TRUE
  /\ pc \in WordNo
  /\ idu_respValid = FALSE /\ idu_inst \in Inst /\ stall = FALSE
  /\ io_rdata \in Inst
  /\ mem \in [WordNo -> Inst]
  /\ clock = 0 /\ turn = "subtick"

Next == Subtick \/ Fall \/ Rise

Spec == Init /\ [][Next]_vars

\* The bench's loop runs until the test ends.
FairSpec == Spec /\ WF_vars(Next)

-----------------------------------------------------------------------------
(* Properties.                                                             *)

TypeOK ==
  /\ reqValid \in BOOLEAN /\ is_start \in BOOLEAN /\ stall \in BOOLEAN
  /\ idu_respValid \in BOOLEAN /\ idu_inst \in Inst
  /\ pc \in WordNo
  /\ curr_state \in IfuState
  /\ lines \in Lines /\ writeValid \in BOOLEAN
  /\ io_respValid \in BOOLEAN /\ io_rdata \in Inst
  /\ delays \in DelayRanges
  /\ pend \in WordNo \cup {NoRequest}
  /\ waitRespValid \in Nat /\ respValid_ticks \in 0 .. 2
  /\ mem \in [WordNo -> Inst]
  /\ clock \in {0, 1} /\ turn \in {"subtick", "tick"}

(***************************************************************************)
(* Every line the cache holds is the memory's word for that tag and index, *)
(* unless stores reach that word (icache.sv:46-57 fills a line from the    *)
(* fetch in progress, with the index and tag of the pc at that time, and   *)
(* nothing empties it).                                                    *)
(***************************************************************************)
LineCoherent(i) ==
  lines[i].valid =>
    LET w == lines[i].tag * LINE_N + i IN
    w \in WordNo /\ (w \notin Writable => lines[i].data = mem[w])

CacheCoherent == \A i \in 0 .. LINE_N - 1 : LineCoherent(i)

(***************************************************************************)
(* The instruction the core decodes is the one in memory at its pc, as the *)
(* golden model reads it (gcpu.cpp:415), if no store reaches that word.    *)
(***************************************************************************)
DecodesCode == idu_respValid /\ pc \notin Writable => idu_inst = mem[pc]

(***************************************************************************)
(* The same of every word.  The golden model reads its memory at every     *)
(* step, and soc_main.cpp:364-370 lets a test execute the RAM it stores    *)
(* to.                                                                     *)
(***************************************************************************)
DecodesStoredCode == idu_respValid => idu_inst = mem[pc]

(***************************************************************************)
(* The IFU answers straight from the cache and the bus: the two states     *)
(* that wait for the cache are never entered.  The comment at ifu.sv:99    *)
(* rests on it: "if icache write takes more than 1 cycle, it is a bug".    *)
(***************************************************************************)
CacheNeverAwaited == curr_state \notin {"WAIT_ICACHE", "WRITE_ICACHE"}

(***************************************************************************)
(* A bus that takes two cycles or more never answers at a rising edge at   *)
(* which the IFU does not wait for it: ifu.sv:65-81 does not look at       *)
(* io_respValid in IDLE, so such an answer is lost.                        *)
(***************************************************************************)
NoLostAnswer ==
  SlowBus /\ clock = 0 /\ turn = "tick" /\ io_respValid => curr_state = "WAIT_IO"

(***************************************************************************)
(* On such a bus every instruction the core asks for is decoded.           *)
(***************************************************************************)
EveryFetchAnswered == SlowBus /\ reqValid ~> idu_respValid

(***************************************************************************)
(* "Instruction fetches in 1-N cycle" (readme.md:72), whatever delay the   *)
(* bench is told to draw; it draws none if it is told nothing              *)
(* (soc_main.cpp:72-73).                                                   *)
(***************************************************************************)
FetchesIn1ToN == reqValid ~> idu_respValid
=============================================================================
