---------------------------- MODULE FetchCounts ------------------------------
(***************************************************************************)
(* The hit counter of the instruction cache (icache.sv tells               *)
(* icache_perf_measure of every edge, soc_main.cpp), which measure.csv has *)
(* beside the number of instructions.  The fetch path and the bench's bus  *)
(* are VcpuIfu's; the reads the bus has latched are counted beside them.   *)
(***************************************************************************)
EXTENDS VcpuIfu

CONSTANT CountSize   \* how many values a counter has: 2^64 in the code

ASSUME FetchCountsAssumption == CountSize \in Nat \ {0}

VARIABLES
  micache_hits,
  minstret,
  io_reads        \* requests latched by the bus, for the properties

counts == <<micache_hits, minstret, io_reads>>

Bit(b) == IF b THEN 1 ELSE 0

\* n++ if b
Inc(n, b) == IF ~b THEN n ELSE IF n = CountSize - 1 THEN 0 ELSE n + 1

\* The request line is sampled.
CountRead ==
  /\ io_reads' = Inc(io_reads, io_reqValid /\ clock = 1)
  /\ UNCHANGED <<micache_hits, minstret>>

\* icache_perf_measure and exu_perf_measure, at the rising edge.
Measure ==
  /\ micache_hits' = Inc(micache_hits, icache_hit)
  /\ minstret' = Inc(minstret, Executing /\ reqValid')
  /\ UNCHANGED io_reads

\* icache_perf_reset and exu_perf_reset
CountInit == Init /\ micache_hits = 0 /\ minstret = 0 /\ io_reads = 0

CountNext ==
  \/ Subtick /\ CountRead
  \/ Fall /\ UNCHANGED counts
  \/ Rise /\ Measure

CountSpec == CountInit /\ [][CountNext]_<<vars, counts>>

-----------------------------------------------------------------------------
(* Properties.                                                             *)

\* The instruction of now has been found in the cache or asked of the bus.
LookedUp ==
  \/ Executing
  \/ curr_state = "WAIT_IO"
  \/ reqValid /\ ~Hit(pc) /\ ~(clock = 1 /\ turn = "subtick")

(***************************************************************************)
(* Every instruction costs one hit or one read of the bus, never both and  *)
(* neither twice, whatever the delay: the hits that are measured are those *)
(* instructions that made no read (icache.sv:69-76, 87, ifu.sv:65-81, and  *)
(* the sampling of the request line, soc_main.cpp:703-705).  The equation  *)
(* is one of counters that wrap around.                                    *)
(***************************************************************************)
HitOrRead ==
  \E wraps \in {-CountSize, 0, CountSize} :
    micache_hits + io_reads = minstret + Bit(LookedUp) + wraps
=============================================================================
