--------------------------- MODULE MC_FetchCounts ----------------------------
(***************************************************************************)
(* MC_VcpuIfu's words and lines, with counters that soon wrap around.      *)
(***************************************************************************)
EXTENDS FetchCounts, MC_VcpuIfu

MC_CountInit == MC_Init /\ CountInit

\* The bench's loop runs until the test ends.
MC_CountSpec ==
  MC_CountInit /\ [][CountNext]_<<vars, counts>> /\ WF_<<vars, counts>>(CountNext)
=============================================================================
