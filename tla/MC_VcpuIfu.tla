----------------------------- MODULE MC_VcpuIfu -----------------------------
(***************************************************************************)
(* A small instance of VcpuIfu: five words on two cache lines, so that     *)
(* lines are shared by two and by three words, and three instructions.     *)
(***************************************************************************)
EXTENDS VcpuIfu

CONSTANTS i1, i2, i3

MC_Inst == {i1, i2, i3}

\* Words that share a line hold different instructions.
MC_Mem == [w \in WordNo |-> CASE w \in {0, 3} -> i1 [] w \in {1, 2} -> i2 [] OTHER -> i3]

MC_Init ==
  /\ lines = [i \in 0 .. LINE_N - 1 |-> [valid |-> FALSE, tag |-> 0, data |-> i1]]
  /\ mem = MC_Mem /\ idu_inst = i1 /\ io_rdata = i1
  /\ Init

MC_Spec == MC_Init /\ [][Next]_vars

MC_FairSpec == MC_Spec /\ WF_vars(Next)
=============================================================================
