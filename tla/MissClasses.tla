----------------------------- MODULE MissClasses -----------------------------
(***************************************************************************)
(* What the cache simulator promises, in terms of the lines read so far    *)
(* alone: a cache holds, of each set, the lines that were used last, as    *)
(* many as the set has ways; and each access is counted once, by what the  *)
(* caches hold and by whether its line was read before.                    *)
(* CacheSim implements it with tags, time stamps and a hash table.         *)
(***************************************************************************)
EXTENDS Naturals, Sequences, FiniteSets

CONSTANT Lines

VARIABLES
  sets, ways, full_ways,    \* the shapes of the two caches
  read,                     \* the lines read, the first first
  count                     \* accesses of each class

vars == <<sets, ways, full_ways, read, count>>

Classes == {"hit", "compulsory", "capacity", "conflict"}

WasRead(line) == \E j \in DOMAIN read : read[j] = line

\* The lines of line's set, one of n, used since line was used last.
UsedSince(line, n) ==
  {read[j] : j \in {j \in DOMAIN read :
     /\ read[j] % n = line % n
     /\ \A i \in DOMAIN read : read[i] = line => i < j}}

Holds(line, n, w) == WasRead(line) /\ Cardinality(UsedSince(line, n)) < w

Class(line) ==
  IF Holds(line, sets, ways) THEN "hit"
  ELSE IF ~WasRead(line) THEN "compulsory"
  ELSE IF Holds(line, 1, full_ways) THEN "capacity"
  ELSE "conflict"

Access(line) ==
  /\ read' = Append(read, line)
  /\ count' = [count EXCEPT ![Class(line)] = @ + 1]
  /\ UNCHANGED <<sets, ways, full_ways>>

Init ==
  /\ sets \in Nat \ {0} /\ ways \in Nat \ {0} /\ full_ways \in Nat \ {0}
  /\ read = <<>>
  /\ count = [c \in Classes |-> 0]

Next == \E line \in Lines : Access(line)

Spec == Init /\ [][Next]_vars
=============================================================================
