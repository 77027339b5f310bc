-------------------------------- MODULE Ifu ---------------------------------
(***************************************************************************)
(* The instruction fetch unit, soc/ifu.sv: a request for the word at pc is *)
(* answered by the cache in the same cycle, or sent to the bus, whose      *)
(* answer is passed on and written to the cache.                           *)
(***************************************************************************)
EXTENDS ICache

VARIABLES
  reqValid,       \* the core asks for an instruction in this cycle
  pc,             \* the word number of its address
  io_respValid,   \* the bus answers in this cycle
  io_rdata,       \* with this word
  curr_state

IfuState == {"IDLE", "WAIT_ICACHE", "WAIT_IO", "WRITE_ICACHE"}

icache_wen == curr_state = "WAIT_IO" /\ io_respValid

icache_reqValid == (curr_state = "IDLE" /\ reqValid) \/ icache_wen

icache_respValid == CacheResp(icache_reqValid, icache_wen)

\* Slip: is_hit does not wait for a request.
icache_hit_Unasked == ~icache_wen /\ Hit(pc)

icache_hit == icache_reqValid /\ ~icache_wen /\ Hit(pc)

\* The cache has answered the state that asked it.
Looked ==
  /\ icache_respValid
  /\ curr_state = "WAIT_ICACHE" \/ (curr_state = "IDLE" /\ reqValid)

\* Slip: only the bus's answers are passed on.
respValid_BusOnly == icache_wen

respValid == (Looked /\ icache_hit) \/ icache_wen

inst == IF icache_wen THEN io_rdata ELSE CacheData(pc)

io_reqValid == Looked /\ ~icache_hit

next_state ==
  CASE Looked -> IF icache_hit THEN "IDLE" ELSE "WAIT_IO"
    [] ~Looked /\ curr_state = "IDLE" /\ reqValid -> "WAIT_ICACHE"
    [] curr_state = "WAIT_IO" /\ io_respValid -> "IDLE"
    [] curr_state = "WRITE_ICACHE" /\ icache_respValid -> "IDLE"
    [] OTHER -> curr_state

Edge ==
  /\ curr_state' = IF reqValid \/ io_respValid \/ icache_respValid
                   THEN next_state ELSE curr_state
  /\ CacheEdge(icache_wen, pc, inst)

IfuReset == curr_state = "IDLE" /\ CacheReset
=============================================================================
