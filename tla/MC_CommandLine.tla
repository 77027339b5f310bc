--------------------------- MODULE MC_CommandLine ----------------------------
(***************************************************************************)
(* Lines of up to three options, in every order: enough for a cpu, a test  *)
(* and an option, or for one option twice and a third one beside it.       *)
(* Numbers have few bits.  There is one that makes a program shorter than  *)
(* its prologue, one that makes it longer than can be asked for, and one   *)
(* that no field holds.                                                    *)
(***************************************************************************)
EXTENDS CommandLine

CONSTANTS p1, p2, NaN

MC_Numbers   == {-40, -5, 0, 3, 100, NaN}
MC_Paths     == {p1, p2}
MC_Hashes    == {7}
MC_FlagWords == {{"all"}, {}, {"J"}, {"b", "E"}, {"l", "S", "c"}, {"j", "x"}}
=============================================================================
