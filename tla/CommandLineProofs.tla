------------------------- MODULE CommandLineProofs --------------------------
(***************************************************************************)
(* What is proved of the command line: for lines of any length, whatever   *)
(* integers, paths and letters are written on them.                        *)
(***************************************************************************)
EXTENDS CommandLine, TLAPS

Fields ==
  [is_vsoc : BOOLEAN, is_vcpu : BOOLEAN, is_gold : BOOLEAN, is_memcmp : BOOLEAN,
   is_check : BOOLEAN, is_trace : BOOLEAN, trace_path : Paths \cup {NULL},
   measure_path : Paths \cup {NULL}, is_bin : BOOLEAN, bin_path : Paths \cup {NULL},
   is_random : BOOLEAN, max_tests : Nat, n_insts : Nat, inst_flags : SUBSET AllFlags,
   max_cycles : Nat, mem_delay_min : Nat, mem_delay_max : Nat, seed : Nat, verbose : Nat]

\* What a test needs is set with the switch that chooses the test, and by
\* nothing else.
Together(c) ==
  /\ c.is_trace \/ c.trace_path = NULL
  /\ IF c.is_bin THEN c.bin_path \in Paths ELSE c.bin_path = NULL
  /\ c.is_random => RoomAsAsked(c.n_insts)
  /\ c.max_tests # 0 \/ c.n_insts # 0 \/ c.inst_flags # {} => c.is_random

\* main turns is_random off only when the line is done with.
Parsed ==
  /\ config \in Fields
  /\ outcome = "parsing" => Together(config)

IInv == Parsed /\ OneTest

LEMMA FlagsAreKnown ==
  ASSUME NEW word, FlagsKnown(FlagsOf(word))
  PROVE  FlagsOf(word) \subseteq AllFlags
<1>1. CASE word = {"all"}
  BY <1>1 DEF FlagsOf
<1>2. CASE word # {"all"}
  <2>1. \A letter : FlagOf(letter) \in AllFlags \cup {"unknown"}
    BY DEF FlagOf, AllFlags
  <2> QED  BY <1>2, <2>1 DEF FlagsOf, FlagsKnown
<1> QED  BY <1>1, <1>2

\* A number that is taken, by a field of either kind.
LEMMA Taken ==
  ASSUME NEW n \in Numbers
  PROVE  /\ IsUint64(n) => stoull(n) \in Nat
         /\ IsInt32(n) => /\ AsUint32(n + N_PROLOGUE) \in Nat
                          /\ RoomAsAsked(AsUint32(n + N_PROLOGUE))
<1>1. Int32 \in Nat /\ Int32 >= 30 /\ Uint64 \in Nat
  BY CommandLineAssumption DEF N_PROLOGUE
<1>2. ASSUME IsUint64(n) PROVE stoull(n) \in Nat
  <2>1. n \in Int /\ -Uint64 < n
    BY <1>2, CommandLineAssumption DEF IsUint64
  <2> QED  BY <1>1, <2>1 DEF stoull
<1>3. ASSUME IsInt32(n)
      PROVE  AsUint32(n + N_PROLOGUE) \in Nat /\ RoomAsAsked(AsUint32(n + N_PROLOGUE))
  <2>1. n \in Int /\ -Int32 <= n
    BY <1>3, CommandLineAssumption DEF IsInt32
  <2>2. PICK i \in Int : i = n
    BY <2>1
  <2>3. CASE i + 30 < 0
    \* The field wraps, to more than the prologue.
    <3>1. AsUint32(n + N_PROLOGUE) = (i + 30) + 2 * Int32
      BY <2>2, <2>3 DEF AsUint32, N_PROLOGUE
    <3>2. (i + 30) + 2 * Int32 \in Nat /\ ~((i + 30) + 2 * Int32 < 30)
      BY <1>1, <2>1, <2>2, <2>3
    <3> QED  BY <3>1, <3>2 DEF RoomAsAsked, N_PROLOGUE
  <2>4. CASE ~(i + 30 < 0)
    <3>1. AsUint32(n + N_PROLOGUE) = i + 30
      BY <2>2, <2>4 DEF AsUint32, N_PROLOGUE
    <3>2. i + 30 \in Nat /\ (i + 30) - 30 = n
      BY <2>2, <2>4
    <3> QED  BY <3>1, <3>2 DEF RoomAsAsked, N_PROLOGUE
  <2> QED  BY <2>3, <2>4
<1> QED  BY <1>2, <1>3

\* The fields that FirstHolds is about.
FirstOnes == {"trace_path", "bin_path", "max_cycles", "seed", "max_tests", "n_insts",
              "inst_flags", "mem_delay_min", "mem_delay_max"}

\* What an option leaves of the configuration.
Keeps(c) ==
  /\ c \in Fields
  /\ Together(c)
  /\ \A f \in FirstOnes : config[f] # Default[f] => c[f] = config[f]

LEMMA OptionKeeps ==
  ASSUME config \in Fields, Together(config), Option
  PROVE  /\ Keeps(config')
         /\ outcome' \in {"parsing", "usage failure", "abort"}
<1>1. ASSUME Fail \/ Abort PROVE Keeps(config') /\ outcome' \in {"usage failure", "abort"}
  BY <1>1 DEF Fail, Abort, Keeps
<1>2. ASSUME NEW c, Set(c), Keeps(c) PROVE Keeps(config') /\ outcome' \in {"parsing"}
  BY <1>2 DEF Set, Parsing
<1>3. CASE Switch
  <2>1. PICK field \in {"is_vsoc", "is_vcpu", "is_gold", "is_memcmp", "is_check"} :
          Set([config EXCEPT ![field] = TRUE])
    BY <1>3 DEF Switch
  <2>2. Keeps([config EXCEPT ![field] = TRUE])
    BY DEF Keeps, Fields, Together, FirstOnes
  <2> QED  BY <1>2, <2>1, <2>2
<1>4. CASE Trace
  <2>1. ASSUME NEW path \in Paths, ~config.is_trace
        PROVE  Keeps([config EXCEPT !.is_trace = TRUE, !.trace_path = path])
    <3> DEFINE c == [config EXCEPT !.is_trace = TRUE, !.trace_path = path]
    <3>1. c \in Fields
      BY DEF Fields
    <3>2. Together(c)
      BY <2>1 DEF Fields, Together
    <3>3. \A f \in FirstOnes : f \notin {"trace_path"} => c[f] = config[f]
      BY DEF Fields, FirstOnes
    <3>4. \A f \in {"trace_path"} : config[f] = Default[f]
      BY <2>1 DEF Together, Default
    <3> QED  BY <3>1, <3>2, <3>3, <3>4 DEF Keeps
  <2> QED  BY <1>1, <1>2, <1>4, <2>1 DEF Trace
<1>5. CASE MaxCycles
  <2>1. ASSUME NEW n \in Nat, config.max_cycles = 0
        PROVE  Keeps([config EXCEPT !["max_cycles"] = n])
    BY <2>1 DEF Keeps, Fields, Together, Default, FirstOnes
  <2> QED  BY <1>1, <1>2, <1>5, <2>1, Taken DEF MaxCycles, Once
<1>6. CASE Seed
  <2>1. ASSUME NEW n \in Nat, config.seed = 0
        PROVE  Keeps([config EXCEPT !["seed"] = n])
    BY <2>1 DEF Keeps, Fields, Together, Default, FirstOnes
  <2> QED  BY <1>1, <1>2, <1>6, <2>1, Taken DEF Seed, Once
<1>7. CASE Delay
  <2>1. ASSUME NEW lo \in Nat, NEW hi \in Nat, DelayUnset
        PROVE  Keeps([config EXCEPT !.mem_delay_min = lo, !.mem_delay_max = hi])
    <3> DEFINE c == [config EXCEPT !.mem_delay_min = lo, !.mem_delay_max = hi]
    <3>1. c \in Fields
      BY DEF Fields
    <3>2. Together(c)
      BY <2>1 DEF Fields, Together
    <3>3. \A f \in FirstOnes : f \notin {"mem_delay_min", "mem_delay_max"} => c[f] = config[f]
      BY DEF Fields, FirstOnes
    <3>4. \A f \in {"mem_delay_min", "mem_delay_max"} : config[f] = Default[f]
      BY <2>1 DEF Together, Default, DelayUnset
    <3> QED  BY <3>1, <3>2, <3>3, <3>4 DEF Keeps
  <2> QED  BY <1>1, <1>2, <1>7, <2>1, Taken DEF Delay
<1>8. CASE Verbose
  <2>1. ASSUME NEW n \in Nat PROVE Keeps([config EXCEPT !.verbose = n])
    BY DEF Keeps, Fields, Together, FirstOnes
  <2> QED  BY <1>1, <1>2, <1>8, <2>1, Taken DEF Verbose
<1>9. CASE Measure
  <2>1. ASSUME NEW path \in Paths PROVE Keeps([config EXCEPT !.measure_path = path])
    BY DEF Keeps, Fields, Together, FirstOnes
  <2> QED  BY <1>1, <1>2, <1>9, <2>1 DEF Measure
<1>10. CASE Random
  <2>1. ASSUME NEW tests \in Nat, NEW n \in Nat, NEW flags \in SUBSET AllFlags,
               RoomAsAsked(n), ~config.is_random
        PROVE  Keeps([config EXCEPT !.is_random = TRUE, !.max_tests = tests,
                                    !.n_insts = n, !.inst_flags = flags])
    <3> DEFINE c == [config EXCEPT !.is_random = TRUE, !.max_tests = tests,
                               !.n_insts = n, !.inst_flags = flags]
    <3>1. c \in Fields
      BY DEF Fields
    <3>2. Together(c)
      BY <2>1 DEF Fields, Together
    <3>3. \A f \in FirstOnes : f \notin {"max_tests", "n_insts", "inst_flags"} => c[f] = config[f]
      BY DEF Fields, FirstOnes
    <3>4. \A f \in {"max_tests", "n_insts", "inst_flags"} : config[f] = Default[f]
      BY <2>1 DEF Together, Default
    <3> QED  BY <3>1, <3>2, <3>3, <3>4 DEF Keeps
  <2>2. CASE Fail
    BY <1>1, <2>2
  <2>3. CASE ~Fail
    <3>1. PICK tests \in Numbers, n \in Numbers, word \in FlagWords :
            /\ ~config.is_random
            /\ IF ~(IsUint64(tests) /\ IsInt32(n)) THEN Abort
               ELSE IF ~FlagsKnown(FlagsOf(word)) THEN Fail
               ELSE Set([config EXCEPT !.is_random = TRUE, !.max_tests = stoull(tests),
                                       !.n_insts = AsUint32(n + N_PROLOGUE),
                                       !.inst_flags = FlagsOf(word)])
      BY <1>10, <2>3 DEF Random
    <3>2. CASE ~(IsUint64(tests) /\ IsInt32(n))
      BY <1>1, <2>3, <3>1, <3>2
    <3>3. CASE IsUint64(tests) /\ IsInt32(n)
      <4>1. /\ FlagsKnown(FlagsOf(word))
            /\ Set([config EXCEPT !.is_random = TRUE, !.max_tests = stoull(tests),
                                  !.n_insts = AsUint32(n + N_PROLOGUE),
                                  !.inst_flags = FlagsOf(word)])
        BY <2>3, <3>1, <3>3
      <4>2. /\ stoull(tests) \in Nat /\ FlagsOf(word) \in SUBSET AllFlags
            /\ AsUint32(n + N_PROLOGUE) \in Nat /\ RoomAsAsked(AsUint32(n + N_PROLOGUE))
        BY <3>3, <4>1, FlagsAreKnown, Taken
      <4> QED  BY <1>2, <2>1, <3>1, <4>1, <4>2
    <3> QED  BY <3>2, <3>3
  <2> QED  BY <2>2, <2>3
<1>11. CASE Bin
  <2>1. ASSUME NEW path \in Paths, ~config.is_bin
        PROVE  Keeps([config EXCEPT !.is_bin = TRUE, !.bin_path = path])
    <3> DEFINE c == [config EXCEPT !.is_bin = TRUE, !.bin_path = path]
    <3>1. c \in Fields
      BY DEF Fields
    <3>2. Together(c)
      BY <2>1 DEF Fields, Together
    <3>3. \A f \in FirstOnes : f \notin {"bin_path"} => c[f] = config[f]
      BY DEF Fields, FirstOnes
    <3>4. \A f \in {"bin_path"} : config[f] = Default[f]
      BY <2>1 DEF Together, Default
    <3> QED  BY <3>1, <3>2, <3>3, <3>4 DEF Keeps
  <2> QED  BY <1>1, <1>2, <1>11, <2>1 DEF Bin
<1>12. CASE UnknownMode
  BY <1>1, <1>12 DEF UnknownMode
<1> QED  BY <1>3, <1>4, <1>5, <1>6, <1>7, <1>8, <1>9, <1>10, <1>11, <1>12 DEF Option

LEMMA OptionParses == Option => outcome = "parsing"
BY DEF Option, Switch, Trace, MaxCycles, Seed, Once, Delay, Verbose, Measure, Random, Bin,
   UnknownMode, Fail, Abort, Set, Parsing

LEMMA RunKeeps ==
  ASSUME config \in Fields, Together(config), Run
  PROVE  /\ config' \in Fields /\ OneTest' /\ outcome' # "parsing"
         /\ \A f \in FirstOnes : config'[f] = config[f]
<1>1. config' = IF config.is_bin THEN [config EXCEPT !.is_random = FALSE] ELSE config
  BY DEF Run, Only
<1>2. outcome' = IF ~(config.is_gold \/ config.is_vcpu \/ config.is_vsoc) THEN "no cpu"
                 ELSE IF config'.is_bin THEN "bin"
                 ELSE IF config'.is_random THEN "random"
                 ELSE "no test"
  BY DEF Run
<1>3. config' \in Fields
  BY <1>1 DEF Fields
<1>4. OneTest'
  <2>1. outcome' \in {"bin", "random"} => config'.is_vsoc \/ config'.is_vcpu \/ config'.is_gold
    <3>1. outcome' \in {"bin", "random"} => config.is_vsoc \/ config.is_vcpu \/ config.is_gold
      BY <1>2
    <3>2. /\ config'.is_vsoc = config.is_vsoc /\ config'.is_vcpu = config.is_vcpu
          /\ config'.is_gold = config.is_gold
      BY <1>1 DEF Fields
    <3> QED  BY <3>1, <3>2, Zenon
  <2>2. outcome' = "bin" => config.is_bin /\ ~config'.is_random /\ config'.bin_path = config.bin_path
    BY <1>1, <1>2 DEF Fields
  <2>3. outcome' = "random" => ~config.is_bin /\ config' = config /\ config.is_random
    BY <1>1, <1>2 DEF Fields
  <2>4. config.is_bin => config.bin_path \in Paths
    BY DEF Together
  <2>5. config.is_random => RoomAsAsked(config.n_insts) /\ config.inst_flags \subseteq AllFlags
    BY DEF Together, Fields
  <2> QED  BY <2>1, <2>2, <2>3, <2>4, <2>5 DEF OneTest
<1>5. outcome' # "parsing"
  BY <1>2
<1>6. \A f \in FirstOnes : config'[f] = config[f]
  BY <1>1 DEF Fields, FirstOnes
<1> QED  BY <1>3, <1>4, <1>5, <1>6

LEMMA Invariance == Spec => []IInv
<1>1. Init => IInv
  BY DEF Init, IInv, Parsed, OneTest, Default, Fields, Together, AllFlags
<1>2. IInv /\ [Next]_vars => IInv'
  <2> SUFFICES ASSUME IInv, [Next]_vars PROVE IInv'
    OBVIOUS
  <2>1. CASE Option
    <3>1. config \in Fields /\ Together(config)
      BY <2>1, OptionParses DEF IInv, Parsed
    <3> QED  BY <2>1, <3>1, OptionKeeps DEF IInv, Parsed, Keeps, OneTest
  <2>2. CASE Run
    <3>1. config \in Fields /\ Together(config)
      BY <2>2 DEF Run, IInv, Parsed
    <3> QED  BY <2>2, <3>1, RunKeeps DEF IInv, Parsed
  <2>3. CASE NoArguments
    BY <2>3 DEF NoArguments, IInv, Parsed, OneTest
  <2>4. CASE UNCHANGED vars
    BY <2>4 DEF vars, IInv, Parsed, OneTest
  <2> QED  BY <2>1, <2>2, <2>3, <2>4 DEF Next
<1> QED  BY <1>1, <1>2, PTL DEF Spec

(***************************************************************************)
(* Whatever is on the line, main runs at most one test, the one whose      *)
(* options it has read (soc_main.cpp:1387), and a random test is short of  *)
(* room for its first 30 words only if the line has the negative number    *)
(* that 1341 adds 30 to: a field that wraps does not make it short.        *)
(***************************************************************************)
THEOREM RunsOneTest == Spec => []OneTest
BY Invariance, PTL DEF IInv

(***************************************************************************)
(* On a line of any length, an option that was given keeps its arguments   *)
(* whatever follows it (the "second ..." errors of main).                  *)
(***************************************************************************)
THEOREM FirstOptionHolds == Spec => FirstHolds
<1> DEFINE Held == \A f \in FirstOnes : config[f] # Default[f] => config'[f] = config[f]
<1>1. IInv /\ [Next]_vars => [Held]_config
  <2> SUFFICES ASSUME IInv, [Next]_vars PROVE Held \/ UNCHANGED config
    OBVIOUS
  <2>1. CASE Option
    <3>1. config \in Fields /\ Together(config)
      BY <2>1, OptionParses DEF IInv, Parsed
    <3> QED  BY <2>1, <3>1, OptionKeeps DEF Keeps
  <2>2. CASE Run
    <3>1. config \in Fields /\ Together(config)
      BY <2>2 DEF Run, IInv, Parsed
    <3> QED  BY <2>2, <3>1, RunKeeps
  <2>3. CASE NoArguments \/ UNCHANGED vars
    BY <2>3 DEF NoArguments, vars
  <2> QED  BY <2>1, <2>2, <2>3 DEF Next
<1> QED  BY <1>1, Invariance, PTL DEF Spec, FirstHolds, FirstOnes
=============================================================================
