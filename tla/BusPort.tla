------------------------------ MODULE BusPort -------------------------------
(***************************************************************************)
(* One memory port of the vcpu test bench: the half of vcpu_subtick        *)
(* (soc_main.cpp) that serves the instruction bus, or, word for word the   *)
(* same, the half that serves the data bus.                                *)
(*                                                                         *)
(* vcpu_fetch_exec alternates vcpu_subtick with vcpu_tick, and a tick is   *)
(* half a clock cycle.  The port samples the request wires in the subtick  *)
(* that follows a rising edge, waits twice the drawn delay in subticks,    *)
(* and holds the answer for two.  A request sampled again starts its wait  *)
(* again: a unit that keeps the line up for two cycles is served once.     *)
(***************************************************************************)
EXTENDS Integers

CONSTANTS
  DelayRanges,   \* the sets of delays the command line may choose
  NoRequest      \* the port's reqValid flag is clear

VARIABLES
  delays,            \* what random_range(mem_delay_min, mem_delay_max) can return
  io_respValid,      \* the answer line, an input port of the CPU
  pend,              \* the latched request, or NoRequest
  waitRespValid,     \* subticks until it is answered
  respValid_ticks    \* subticks the answer line stays up

\* Slip: the test for zero is gone.
Down_Wraps(n) == n - 1

Down(n) == IF n > 0 THEN n - 1 ELSE 0

\* The latch and the count after the sampling and the countdown of a subtick
\* that draws delay d; sample says that the request line is up just after a
\* rising edge.
Sampled(sample, request, d) ==
  [pend |-> IF sample THEN request ELSE pend,
   wait |-> Down(IF sample THEN 2 * d ELSE waitRespValid)]

\* Slip: io_lsu_reqValid is not cleared when the request is answered.
Answer_KeepsLatch(s) ==
  /\ s.pend # NoRequest /\ s.wait = 0
  /\ io_respValid' = TRUE
  /\ respValid_ticks' = 2
  /\ pend' = s.pend
  /\ waitRespValid' = s.wait

Answer(s) ==
  /\ s.pend # NoRequest /\ s.wait = 0
  /\ io_respValid' = TRUE
  /\ respValid_ticks' = 2
  /\ pend' = NoRequest
  /\ waitRespValid' = s.wait

\* Slip: the answer line falls a subtick after the count has run out.
NoAnswer_LateFall(s) ==
  /\ s.pend = NoRequest \/ s.wait > 0
  /\ io_respValid' = (io_respValid /\ respValid_ticks > 0)
  /\ respValid_ticks' = Down(respValid_ticks)
  /\ pend' = s.pend
  /\ waitRespValid' = s.wait

NoAnswer(s) ==
  /\ s.pend = NoRequest \/ s.wait > 0
  /\ io_respValid' = (io_respValid /\ Down(respValid_ticks) > 0)
  /\ respValid_ticks' = Down(respValid_ticks)
  /\ pend' = s.pend
  /\ waitRespValid' = s.wait

\* A bus that takes two cycles or more.
SlowBus == \A d \in delays : d >= 2

PortReset ==
  /\ delays \in DelayRanges
  /\ io_respValid = FALSE
  /\ pend = NoRequest
  /\ waitRespValid = 0
  /\ respValid_ticks = 0
=============================================================================
