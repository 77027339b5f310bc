----------------------------- MODULE MC_VcpuLsu -----------------------------
(***************************************************************************)
(* A small instance of VcpuLsu.  Seven words: the UART at 0, flash at 2,   *)
(* RAM at 4 and 5, the rest unmapped.  The addresses are those of every    *)
(* byte of the first RAM word, of the words that straddle either end of    *)
(* the RAM, of the UART's transmit register, of the flash, and one that    *)
(* wraps around.  Every byte of the memory is told from its neighbours by  *)
(* some load.  A behaviour has at most MaxAccess accesses: any access      *)
(* after any other, from one initial memory.                               *)
(***************************************************************************)
EXTENDS VcpuLsu

CONSTANT MaxAccess

VARIABLE issued

W(b0, b1, b2, b3) ==
  [l \in Lane |-> CASE l = 0 -> b0 [] l = 1 -> b1 [] l = 2 -> b2 [] l = 3 -> b3]

At(w, offs) == [word : {w}, off : offs]

MC_Byte     == {0, 1}
MC_NegByte  == {1}
MC_WData    == {W(1, 0, 0, 0)}
MC_LeftAddr == {UartData}
MC_Addr     == At(4, Lane) \cup At(5, {0, 3}) \cup At(3, {3})
               \cup {UartData} \cup At(2, {0, 1}) \cup At(6, {2})

MC_Mem == [w \in Stored |-> IF w \in {2, 5} THEN W(0, 1, 1, 0) ELSE W(1, 1, 0, 1)]

MC_Init == mem = MC_Mem /\ Init /\ op.addr = UartData /\ issued = 0

MC_Next ==
  /\ Next
  /\ issued' = issued + IF reqValid' /\ ~reqValid THEN 1 ELSE 0
  /\ issued' <= MaxAccess

MC_Spec == MC_Init /\ [][MC_Next]_<<vars, issued>>

MC_FairSpec == MC_Spec /\ WF_<<vars, issued>>(MC_Next)
=============================================================================
