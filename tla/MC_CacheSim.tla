----------------------------- MODULE MC_CacheSim -----------------------------
(***************************************************************************)
(* A direct-mapped cache, one of two sets of two ways beside a full one of *)
(* three, and one that is fully associative itself; six lines, or four of  *)
(* which two are two addresses each, more than any holds.                  *)
(***************************************************************************)
EXTENDS CacheSim

MC_Pcs == {4 * k : k \in 0 .. 5}

MC_Shape(sets, ways, total, line) ==
  [sets |-> sets, ways |-> ways, total_bytes |-> total, line_bytes |-> line]

MC_Shapes == {MC_Shape(2, 1, 8, 4), MC_Shape(2, 2, 12, 4), MC_Shape(1, 3, 18, 6)}

\* The lines collide, and their probes pass the end of the table.
MC_Hash == [line \in 0 .. 5 |-> IF line % 2 = 0 THEN 31 ELSE 30]
=============================================================================
