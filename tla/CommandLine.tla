----------------------------- MODULE CommandLine -----------------------------
(***************************************************************************)
(* The command line of the test bench (main, soc_main.cpp): one action for *)
(* each option, which takes the option and its arguments from the line and *)
(* sets the configuration, or ends the program.  The line is whatever the  *)
(* actions have taken.  What is read past the options, new_testbench does  *)
(* without looking; then main decides which test to run.                   *)
(***************************************************************************)
EXTENDS Integers

CONSTANTS
  Numbers,     \* what is written where a number is expected, NotNumber among it
  NotNumber,
  Int32,       \* 2^31: an int is one of -Int32 .. Int32 - 1
  Uint64,      \* 2^64
  Paths, NULL,
  Hashes,      \* what hash_uint64_t makes of the time
  FlagWords,   \* what is written for <JBLSCE | all>: its letters, or {"all"}
  MaxArgs      \* bound: options on a line

N_PROLOGUE == 30   \* 2*(N_REGS-1)

ASSUME CommandLineAssumption ==
  /\ Numbers \subseteq Int \cup {NotNumber} /\ NotNumber \notin Int
  /\ Int32 \in Nat /\ Int32 >= N_PROLOGUE /\ Uint64 \in Nat
  /\ NULL \notin Paths
  /\ MaxArgs \in Nat

VARIABLES
  config,    \* struct TestBenchConfig
  args,      \* options taken
  seed,      \* that of the first random test
  outcome    \* "parsing", "bin", "random", or how main ends without a test

vars == <<config, args, seed, outcome>>

\* std::stoull takes a minus sign too, and negates modulo 2^64.
IsUint64(n) == n # NotNumber /\ -Uint64 < n /\ n < Uint64
stoull(n) == IF n < 0 THEN n + Uint64 ELSE n

IsInt32(n) == n # NotNumber /\ -Int32 <= n /\ n < Int32

\* What a uint32_t field holds of a sum of two ints; above Int32 - 1 the int
\* wraps, in a build like this one, to the same bits.
AsUint32(n) == IF n < 0 THEN n + 2 * Int32 ELSE n

\* | (1 << 5) makes a letter small.
FlagOf(letter) ==
  CASE letter \in {"J", "j"} -> "Jump"   [] letter \in {"B", "b"} -> "Branch"
    [] letter \in {"L", "l"} -> "Load"   [] letter \in {"S", "s"} -> "Store"
    [] letter \in {"C", "c"} -> "Calc"   [] letter \in {"E", "e"} -> "System"
    [] OTHER -> "unknown"

AllFlags == {"Jump", "Branch", "Load", "Store", "Calc", "System"}

FlagsOf(word) == IF word = {"all"} THEN AllFlags ELSE {FlagOf(letter) : letter \in word}

Default ==
  [is_vsoc |-> FALSE, is_vcpu |-> FALSE, is_gold |-> FALSE, is_memcmp |-> FALSE,
   is_check |-> FALSE, is_trace |-> FALSE, trace_path |-> NULL, measure_path |-> NULL,
   is_bin |-> FALSE, bin_path |-> NULL, is_random |-> FALSE, max_tests |-> 0, n_insts |-> 0,
   inst_flags |-> {}, max_cycles |-> 0, mem_delay_min |-> 0, mem_delay_max |-> 0,
   seed |-> 0, verbose |-> 2]

Parsing ==
  /\ outcome = "parsing" /\ args < MaxArgs
  /\ args' = args + 1
  /\ UNCHANGED seed

\* The option may not be given again, or it is the last without its arguments.
Fail == Parsing /\ outcome' = "usage failure" /\ UNCHANGED config

\* std::stoull and std::stoi of anything else throw, and nothing catches.
Abort == Parsing /\ outcome' = "abort" /\ UNCHANGED config

Set(c) == Parsing /\ config' = c /\ UNCHANGED outcome

-----------------------------------------------------------------------------
Switch ==
  \E field \in {"is_vsoc", "is_vcpu", "is_gold", "is_memcmp", "is_check"} :
    Set([config EXCEPT ![field] = TRUE])

Trace ==
  \/ Fail   \* a second one, or no path
  \/ /\ ~config.is_trace
     /\ \E path \in Paths :
          Set([config EXCEPT !.is_trace = TRUE, !.trace_path = path])

\* max and seed; one that is 0 has not been set.
Once(field) ==
  \/ Fail
  \/ /\ config[field] = 0
     /\ \E n \in Numbers :
          IF ~IsUint64(n) THEN Abort
          ELSE Set([config EXCEPT ![field] = stoull(n)])

MaxCycles == Once("max_cycles")
Seed      == Once("seed")

\* Slip: a delay is taken for unset when one of its ends is 0.
DelayUnset_Or == config.mem_delay_min = 0 \/ config.mem_delay_max = 0

DelayUnset == config.mem_delay_min = 0 /\ config.mem_delay_max = 0

Delay ==
  \/ Fail
  \/ /\ DelayUnset
     /\ \E lo, hi \in Numbers :
          IF ~(IsUint64(lo) /\ IsUint64(hi)) THEN Abort
          ELSE Set([config EXCEPT !.mem_delay_min = stoull(lo), !.mem_delay_max = stoull(hi)])

\* These may be repeated.  Which VerboseLevel a number is, nobody asks here.
Verbose ==
  \/ Fail
  \/ \E n \in Numbers :
       IF ~IsUint64(n) THEN Abort
       ELSE Set([config EXCEPT !.verbose = stoull(n)])

Measure ==
  \/ Fail
  \/ \E path \in Paths : Set([config EXCEPT !.measure_path = path])

FlagsKnown(flags) == "unknown" \notin flags

Random ==
  \/ Fail
  \/ /\ ~config.is_random
     /\ \E tests, n \in Numbers, word \in FlagWords :
          IF ~(IsUint64(tests) /\ IsInt32(n)) THEN Abort
          ELSE IF ~FlagsKnown(FlagsOf(word)) THEN Fail
          ELSE Set([config EXCEPT !.is_random = TRUE, !.max_tests = stoull(tests),
                                  !.n_insts = AsUint32(n + N_PROLOGUE),
                                  !.inst_flags = FlagsOf(word)])

Bin ==
  \/ Fail
  \/ /\ ~config.is_bin
     /\ \E path \in Paths :
          Set([config EXCEPT !.is_bin = TRUE, !.bin_path = path])

\* timeout and cycles among them, which the usage has and the loop has not.
UnknownMode == Fail

Option ==
  \/ Switch \/ Trace \/ MaxCycles \/ Seed
  \/ Delay \/ Verbose \/ Measure \/ Random \/ Bin \/ UnknownMode

\* Slip: a random test that comes with a bin keeps its option.
Only_Both(c) == c

\* With both, only bin is done.
Only(c) == IF c.is_bin THEN [c EXCEPT !.is_random = FALSE] ELSE c

\* Past the last option.
Run ==
  /\ outcome = "parsing" /\ args > 0
  /\ config' = Only(config)
  /\ outcome' = IF ~(config.is_gold \/ config.is_vcpu \/ config.is_vsoc) THEN "no cpu"
                ELSE IF config'.is_bin THEN "bin"
                ELSE IF config'.is_random THEN "random"
                ELSE "no test"
  /\ seed' \in IF outcome' # "random" THEN {seed}
              ELSE IF config.seed # 0 THEN {config.seed} ELSE Hashes
  /\ UNCHANGED args

\* argc < 2
NoArguments ==
  /\ outcome = "parsing" /\ args = 0
  /\ outcome' = "usage failure"
  /\ UNCHANGED <<config, args, seed>>

Init ==
  /\ config = Default /\ args = 0 /\ seed = NULL
  /\ outcome = "parsing"

Next == Option \/ Run \/ NoArguments

Spec == Init /\ [][Next]_vars

-----------------------------------------------------------------------------
(* Properties.                                                             *)

\* Fewer than 30 words are those of a negative number that was written.
RoomAsAsked(n_insts) == n_insts < N_PROLOGUE => n_insts - N_PROLOGUE \in Numbers

(***************************************************************************)
(* One test is run, the one whose options were given: with bin, is_random  *)
(* is off, which in test_instructions gives up what the golden model does  *)
(* not map; a random test has flags that random_instruction knows, and     *)
(* only of a negative number on the line less room than its first 30 words *)
(* need; and there is something to run it on (main, lines 1387 to 1413).   *)
(***************************************************************************)
OneTest ==
  /\ outcome = "bin" => ~config.is_random /\ config.bin_path \in Paths
  /\ outcome = "random" =>
       /\ config.is_random /\ ~config.is_bin
       /\ config.inst_flags \subseteq AllFlags
       /\ RoomAsAsked(config.n_insts)
  /\ outcome \in {"bin", "random"} => config.is_vsoc \/ config.is_vcpu \/ config.is_gold

\* Of the options that say which test is run and how, no later one replaces
\* an earlier one: a line with two has an error or means the first (the
\* "second ..." errors of main).  A number that is 0 counts as not given.
FirstHolds ==
  [][\A f \in {"trace_path", "bin_path", "max_cycles", "seed", "max_tests", "n_insts",
                "inst_flags", "mem_delay_min", "mem_delay_max"} :
       config[f] # Default[f] => config'[f] = config[f]]_config
=============================================================================
