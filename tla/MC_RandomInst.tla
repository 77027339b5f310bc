---------------------------- MODULE MC_RandomInst ----------------------------
(***************************************************************************)
(* Programs of one instruction after the prologue, of one kind, of all     *)
(* and of none.  A bit of a field is moved by the encoders independently   *)
(* of the others, so that none, one and all of them show where each goes;  *)
(* pairs give the function codes that are left.                            *)
(***************************************************************************)
EXTENDS RandomInst

MC_Kinds == {"Jump", "Branch", "Load", "Store", "Calc", "System"}
MC_Flags == {{f} : f \in MC_Kinds} \cup {{}, MC_Kinds}

MC_Patterns == {{}, Bit, {0, 1}, {0, 2}, {1, 2}} \cup {{k} : k \in {0, 1, 2, 10, 11, 19}}
=============================================================================
