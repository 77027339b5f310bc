------------------------------- MODULE ICache -------------------------------
(***************************************************************************)
(* The instruction cache, soc/icache.sv: direct mapped, one word a line,   *)
(* read in the cycle that asks, written at the rising edge.  A line is     *)
(* filled by a fetch and emptied by nothing but the reset.                 *)
(***************************************************************************)
EXTENDS Integers

CONSTANTS
  NWords,   \* words of the address space
  LINE_N,   \* lines; 2^n with n = 8 in the code
  Inst      \* the values of an instruction word

ASSUME CacheAssumption == NWords \in Nat \ {0} /\ LINE_N \in Nat \ {0}

VARIABLES lines, writeValid

cacheVars == <<lines, writeValid>>

WordNo == 0 .. NWords - 1

index(a) == a % LINE_N
tag(a)   == a \div LINE_N

Line  == [valid : BOOLEAN, tag : 0 .. NWords, data : Inst]
Lines == [0 .. LINE_N - 1 -> Line]

\* Slip: the tags are not compared.
Hit_NoTag(a) == lines[index(a)].valid

\* is_hit, while a read is asked for.
Hit(a) == lines[index(a)].valid /\ lines[index(a)].tag = tag(a)

CacheData(a) == lines[index(a)].data

\* Slip: a read, too, is answered from the register.
CacheResp_Registered(req, wen) == writeValid

\* icache.respValid: a read answers at once, a write in the cycle after.
CacheResp(req, wen) == writeValid \/ (req /\ ~wen)

\* Slip: a fill leaves the line's tag as it was.
CacheEdge_OldTag(wen, a, wdata) ==
  /\ writeValid' = wen
  /\ lines' = IF wen
              THEN [lines EXCEPT ![index(a)] = [valid |-> TRUE, tag |-> @.tag, data |-> wdata]]
              ELSE lines

CacheEdge(wen, a, wdata) ==
  /\ writeValid' = wen
  /\ lines' = IF wen
              THEN [lines EXCEPT ![index(a)] = [valid |-> TRUE, tag |-> tag(a), data |-> wdata]]
              ELSE lines

\* The reset clears the valid bits alone.
CacheReset ==
  /\ writeValid = FALSE
  /\ lines \in Lines
  /\ \A i \in 0 .. LINE_N - 1 : ~lines[i].valid
=============================================================================
