# A TLA+ model of the chip_design_bootcamp CPU and its test bench

The repository holds a small RV32E processor in SystemVerilog (`soc/*.sv`), a golden model of
the same instruction set in C++ (`soc/gcpu.cpp`) and a test bench (`soc/soc_main.cpp`) that runs
one beside the other on random programs and on programs from a file, with the processor either
inside a SoC (`vsoc`, Verilator, the ysyxSoC submodule) or alone on a memory bus that the bench
plays itself (`vcpu`). This directory models the processor's units, their handshakes, the bench's
bus and comparison, its random programs, its command line and the cache simulator beside it, checks
them with TLC, and proves the main invariants with TLAPS.

## The system

| part | state | operations | talks to |
|---|---|---|---|
| `cpu.sv`, `pc.sv`, `rf.sv` | `is_start`, `ifu_reqValid`, pc, registers | next pc, write-back, start of a fetch | all units, by wires |
| `ifu.sv` | `curr_state` of four states | ask the cache, ask the bus, pass on the answer, fill the cache | core (`reqValid`/`respValid`), cache, instruction bus |
| `icache.sv` | 256 lines of one word, `writeValid` | lookup in the same cycle, write at the edge | IFU |
| `idu.sv` | the instruction, `respValid` | latch the fetched word; decode it combinationally | IFU, EXU |
| `exu.sv` | `curr_state` of five states | retire at once, or wait for the LSU; event counts for the bench | IDU, LSU, register file, bench (DPI) |
| `lsu.sv` | `curr_state` of four states, `first_rdata_q`, `io_reqValid_q` | one bus transaction, or two for an access that crosses a word | EXU, data bus |
| `alu.sv`, `com.sv` | none | arithmetic and comparisons | EXU |
| `csr.sv` | `mcycle` | read four registers | EXU |
| `gcpu.cpp` | `struct Gcpu`: pc, registers, memory, flash, `ebreak`, `is_not_mapped` | `cpu_eval`: one instruction at once; `g_reset` | bench, by calls |
| `soc_main.cpp`, vcpu bus | latched requests, delay counters, answer lines, memory, UART, clock phases | `vcpu_subtick`, `vcpu_tick`, `v_mem_read`, `v_mem_write` | both buses of the CPU |
| `soc_main.cpp`, tests | `instrets`, `minstret_start`, `is_test_success`, the event counts | reset, run until an instruction retires, evaluate the golden model, compare, next | everything |
| `soc_main.cpp`, `main` | `TestBenchConfig` | one block per option; the choice of the test | scripts |
| `riscv.cpp` | a random generator | encoders, `inst_info`, `random_instruction`, printing | bench |
| `cachesim.cpp` | two simulated caches, a table of the lines seen | replay a trace of pcs | none |

What is hard here: every unit is a state machine of its own; an answer can come in the cycle of
its request or in any later one; the bench samples requests on rising edges only, in half cycles,
and holds an answer for two of them; a request line that stays up for two cycles may be served
twice; a misaligned access is two transactions and only one of them may be mapped; nothing
invalidates the cache; the reset leaves the decoder's registers alone; the memories live on from
test to test; the event counts by which the bench decides that an instruction has retired do not
all change in the same cycle. `PROJECT.json` lists each such place with its line under `hazards`.

What makes each part correct:

* LSU: a load returns, and a store changes, exactly the bytes the golden model says, once.
* IFU and cache: the word decoded is the one at pc; every fetch is answered.
* Core: one instruction at a time, each retired once; a reset leaves nothing behind.
* Bench: the CPU is never reported wrong when it is right, nor right when it is wrong, and the
  bench comes to an end.
* Random programs: both decoders and the printer take each word for what was drawn, and all that
  was asked for can be drawn.
* Event counts: the cycles and instructions that the measurements are made from add up.
* Command line: the test that runs is the one asked for.
* Cache simulator: each miss is in the class that the caches' contents say.

## The modules

| module | models |
|---|---|
| `MemMap` | the address map, `v_mem_read` and `v_mem_write` |
| `BusPort` | one memory port of `vcpu_subtick`: sampling, countdown, answer |
| `Lsu` | `lsu.sv`: its wires as state functions, `Edge` the rising clock edge |
| `GoldMem` | abstract specification: loads and stores of `gcpu.cpp`, which happen at once |
| `VcpuLsu` | `Lsu` + `BusPort` + `MemMap` and the core that drives the LSU; refines `GoldMem` |
| `ICache`, `Ifu` | `icache.sv`, `ifu.sv` |
| `VcpuIfu` | `Ifu` + `ICache` + `BusPort`, the core that asks for instructions, and stores to code |
| `Isa` | what CPU and golden model share: instructions by their fields, and arithmetic and memory as operators without a meaning, with the assumptions under which the two sides agree |
| `Core` | `cpu.sv` with `idu.sv`, `exu.sv`, `pc.sv`, `rf.sv`, by clock cycles; IFU and LSU by their handshakes |
| `Gold` | `gcpu.cpp`: `decode`, `cpu_eval`, `g_reset` |
| `VsocGold` | the bench's loop with `vsoc` and `gold` selected: `Core` beside `Gold` |
| `EventCounts` | `VsocGold` with `mcycle` and the counts of `exu_perf_measure` and `exu_perf_reset` |
| `FetchCounts` | `VcpuIfu` with the counts of `icache_perf_measure` |
| `TestHarness` | `test_instructions`, its three comparisons, `vsoc_fetch_exec` and `vcpu_fetch_exec`, `test_random`: every choice of CPUs and options, around CPUs and programs that do anything |
| `Encoding` | the encoders of `riscv.cpp`, and its, the golden model's and the CPU's ways of taking a word apart, by bits |
| `RandomInst` | `random_instruction` and the loop of `test_random` that fills a program |
| `CommandLine` | `main`: an action for each option |
| `MissClasses` | abstract specification of the cache simulator, in terms of the lines read so far: a cache of n ways holds a line since whose last use fewer than n others of its set were read |
| `CacheSim` | `cachesim.cpp`: time stamps, scans and a hash table; refines `MissClasses` |
| `Alu` | `alu.sv`, `com.sv`, `alu_eval`, `compare`, `sra32`, on words of W bits, each the set of its 1 bits |
| `MC_*` | small instances for TLC |
| `*Proofs` | theorems with their proofs |

A wire is an operator over registers and input ports, a register is a variable, and one `Edge`
action changes all registers of a unit together, as a clock edge does; its disjuncts are the
branches of the code's `case` on the state. In `VcpuLsu` and `VcpuIfu` the bench's loop is
`Subtick` (a call of `vcpu_subtick`, one of whose two halves is the port modelled) in turn with
`Fall` or `Rise` (a call of `vcpu_tick`). `VsocGold` counts whole cycles, since the SoC, and not
the bench, answers there. `VsocGold` and `TestHarness` model the same
loop from two sides. The first has the CPU that the code is, and asks whether the bench finds
nothing wrong with it; the second replaces CPU and golden model by outcomes (a pc, one register,
the memory, an ebreak or not) and asks what the bench notices, with the timing of the counts and
flags that it reads (`exu.sv:174`: an ebreak a cycle late). Operators whose names end in `_Word` after a `Slip:` comment are
plausible mistakes in the definition below them; nothing uses them but the mutation entries of
`PROJECT.json`, which record that each property notices one.

### Decisions of abstraction

* A byte is a model value with a sign (`NegByte`); the memory system does no arithmetic on it.
  An address is a word number and a byte offset, since the code only looks at `addr[31:2]` and
  `addr[1:0]`.
* The delays of the bus are a set that the command line chooses once (`delays`, one of
  `DelayRanges`); each request draws one of it.
* In `VcpuLsu` and `VcpuIfu` the core is its handshake: which access comes next, which pc comes
  next, is arbitrary. `Core` has the handshakes from the other side.
* In `Isa` the arithmetic and the memory of both sides are constants. `ArithmeticAssumption` is
  what `VsocGoldProofs!ArithmeticOf32Bits` proves of `Alu`'s operators; `MemoryAssumption` is what `vcpu_lsu` checks
  of the LSU (its one exception, a store across the end of the RAM, is excluded by it).
  `IsaAssumption` leaves out the encodings the golden model silently takes for something else;
  `RandomInst!SameInstruction`, proved in `RandomInstProofs`, says that no random program has one.
* `VsocGold` executes no word its program stores to: that is `VcpuIfu`'s subject. It has the
  options `random` and `memcmp`; `max` and `check` are `TestHarness`'s.
* The registers of the UART read as any value on both sides, and so does a csr.
* In `Encoding` a word is the set of its 1 bits: shifts and masks are exact, and no arithmetic is
  done on it. The encoders of branches and of `jal` take the immediate in the order in which it
  stands in the word, not as an offset, as the code does; `vand` has the alternative `funct7`
  (`riscv.cpp:292`). `random_bits` draws from a set of patterns, all 2^n being out of reach;
  the proofs hold for every set of patterns.
* `RandomInst` takes `n_insts` to be at least 30, the length of the prologue: below, the code
  writes past its array. The command line lets less through (see `soc_main.cpp:1341` below).
* Stores to code in `VcpuIfu` come while an instruction is in execution (`stall`). In the code the
  second cycle of a store's request line may also be served during the next fetch; that writes the
  same bytes again, so it changes nothing the fetch path reads.
* In `TestHarness` a CPU that has not retired within `MaxWait` cycles does; a program that no
  limit ends leaves the code after `MaxInstrets` instructions. With gold alone `max` has no effect.
* `CommandLine` reads an integer, or what is no number. `std::stoull` and `std::stoi` abort on the
  latter and on what is out of range; `std::stoull` takes a minus sign and negates modulo `Uint64`, and
  the sum with 30 is stored in an unsigned field, where a negative one wraps. `Int32` and `Uint64`
  stand for 2^31 and 2^64: the proofs hold for every value from 30 and from 0 on, and the runs have
  small ones, with numbers on both sides of each. What follows `bin` is a path; the file is not read. `new_testbench` comes after the options.
* `cachesim.cpp` is a draft that does not compile. It is read as follows: `SetSeen` is `SeenSet`,
  `hash32_64` is any function of the line, `s->` in `cache_access` is the cache passed, `time` is
  the index in the trace, `itrace_len` has been stored by the caller, `total_bytes` is that of
  `new_cachesim`, and the stray word `new_cachesim` after that function is not there. The
  full cache has `total_bytes / line_bytes` ways over an array of `sets * ways`, so the model
  assumes the first is no larger; it assumes that the trace is no longer than a `uint32_t` counts,
  and that the table is no larger than 2^30 (`TableAssumption`), so that the loop of `next_pow2`
  ends.
  Capacity and conflict misses are named the other way round than is usual (a line that the fully
  associative cache holds, and the real one not, is counted as a capacity miss); the model has
  the code's names.

## The runs

| run | question | bounds |
|---|---|---|
| `vcpu_lsu` | are loads and stores those of the golden model (`GoldSpec`), is the latched request the current one, does every access retire; on a bus of two cycles or more, is no request repeated and does a UART store print one character? | delays drawn from 0..3 or from 2, 3; 7 words, 11 addresses: every offset in a RAM word, both sides of both ends of the RAM, flash, UART, wrap-around; all sizes; two accesses, any after any |
| `vcpu_ifu` | is the cache coherent, the right word decoded, every instruction counted as one hit or one read; on a bus of two cycles or more, is no answer lost and every fetch answered? | delays drawn from 0..3 or from 2, 3; 5 words on 2 lines, 3 instructions, one writable word; counters of 3 values |
| `vcpu_ifu_undelayed` | is every fetch answered without a delay: no | delay 0 |
| `vcpu_ifu_stored_code` | is a stored word executed as stored: no | delays 2, 3 |
| `vsoc_gold` | do all tests pass, is there one instruction at a time, does a reset find the decoder empty, does `vsoc_fetch_exec` return; does the arithmetic agree? | 96 programs of 2 instructions, 2-bit words, 2 registers, tests without end; all operations on all pairs of 4-bit words |
| `vsoc_gold_bin` | does a program from a file pass: no | `is_random = FALSE` |
| `event_counts` | do cycles, instructions, waits and kinds add up; are LSU waits those of loads and stores? | 24 programs of 2 instructions, one of each kind counted, and one that is none; 14 cycles a test |
| `random_inst` | is each word decoded, printed and put together again as it was drawn; can all be drawn but bgeu; are the bases in memory? | one instruction after the prologue; each flag, all, none; 11 patterns of bits for each field |
| `test_harness` | does the bench pass only what agrees, in time, with a0 = 0 at an ebreak; does it stop, at the first failure or after as many tests as asked? | programs of 2 words, 80 configurations, limits before, at and after the end of an instruction, 0 and 2 tests, 3 instructions where nothing else ends a program |
| `test_harness_vcpu` | does the loop that runs the vcpu return: no | the vcpu without a limit |
| `command_line` | is the test that runs the one asked for, with the options given first? | every line of 3 options; 5 integers, two of them negative and one out of range, and no number; 2 paths, 6 lists of flags |
| `cache_sim` | are the misses those of caches that evict the least recently used (`MissClasses`); is the table sound? | every trace of 6 accesses to 6 lines; 3 shapes; a hash by which all lines collide at the table's end |

Why the bounds are enough. A delay of n keeps the answer back for 2n half cycles; from 2 on the
unit has left the state in which it asked and its request line is down, and a longer delay only
adds cycles in which nothing changes. Two accesses let anything the first leaves behind (a request
line, a latched request, `first_rdata_q`, an answer line still up) meet the second. Three words
share a cache line in `vcpu_ifu`, and two lines are filled in any order; its counters wrap around
many times. In `vsoc_gold` the
immediates of the five formats are told apart, each opcode and both signs occur, x0 and the
number of a register that does not exist are written, and a test begins in every state another
can leave. In `event_counts` 14 cycles are two instructions with two waits each for fetch and LSU,
reset included; tests follow one another without end. In `random_inst` an encoder moves each bit of
a field by itself, so that none, all and single bits show where each lands; the theorem on decoders
covers all 2^32 words. In `test_harness` a limit of 5 cycles is met one instruction before, in and
after the one that ends the test, and two words are a first, a last and a place after the last. Three
options are a CPU, a test and one more, or one twice with another between. Six accesses fill the
largest cache of three lines, evict from it and come back to what was evicted.

**Fairness.** The bench's loops (`vcpu_fetch_exec`, `vsoc_fetch_exec`) call the next half cycle
until the instruction has retired, so a step is always taken: `WF_vars(Next)` in `VcpuLsu` and
`VcpuIfu`. Nothing is assumed of the bus there: its answers follow from the countdown. In
`VsocGold` the SoC is external, so in addition it is assumed to answer, in the end, a request it
has been given (`WF` of the cycles that carry the answer). `TestHarness` has `WF_vars(Next)`: the bench
is one thread. Its properties that speak of an end use nothing else; that a CPU in the SoC retires
within `MaxWait` cycles is a bound, which `FetchExecReturns` justifies.

### What the violations show

1. `vcpu_ifu_undelayed`, `ifu.sv:65`. An answer in the cycle of the request is not seen in
   `IFU_IDLE`, and the fetch never ends; the default delay is 0. `readme.md:72`: "Instruction
   fetches  in 1-N cycle."
2. `vcpu_ifu_stored_code`, `icache.sv:46`. The cache is never invalidated, while the bench lets
   programs jump into the RAM they store to (`soc_main.cpp:366`) and compares with a golden model
   that reads its memory.
3. `vsoc_gold_bin`, `exu.sv:174`. The ebreak flag follows the instruction count by a cycle; the
   bench compares at the count. A random test is abandoned at an ebreak (the golden model has no
   SYSTEM instructions), a program from a file is reported as failed.
4. `test_harness_vcpu`, `soc_main.cpp:420`. `exu_perf_measure` counts into `vsoc_cpu`, whichever CPU
   calls it; `vcpu_fetch_exec` waits for a count of `vcpu_cpu` to change. Without `max` it never
   returns, with it the test fails. `readme.md:34` and `random_test.sh` offer it.

Where a property has an exception, the code has a divergence of its own there:

* `lsu.sv:149`: the request line is up for two cycles. On a bus that answers in one (delays 0 and
  1, all that `random_test.sh:23` draws) the bench latches the request again and performs it a
  second time. The unit ends up in the right state (`GoldSpec` holds for every delay), but a store
  to the UART prints twice: hence `SlowBus` in `NoOrphanRequest` and `PrintedOnce`.
* `lsu.sv:43`: of a misaligned store that begins just below the RAM the bench performs the second
  part; the golden model maps none of it (`gcpu.cpp:162`). `GoldMem` lets such a store change what
  it likes. A random test ends there as passed, but the memories go on into the next
  (`gcpu.cpp:122`).
* `riscv.cpp:513`: `random_range` excludes its upper end and is called with 5 for an array of six,
  so no random test has a `bgeu`: hence `AllButBgeuDrawable`.
* `riscv.cpp:362`: a format with two conversions gets three arguments, and what is printed after a
  jal's `rd=` is `rs1`: hence the exception in `PrintedAsExecuted`.
* `soc_main.cpp:1341`: `std::stoi` takes a minus sign and nothing checks the sum. `random 1 -5 all` has
  25 words, of which `test_random` writes 30 before it looks, and `n_insts - 30` (line 1173) wraps,
  although line 1340 adds the 30 "to accomodate random register updates at start". The model does this,
  so `OneTest` cannot say that a random test has its room. Its `RoomAsAsked` says that only a negative
  number on the line takes it: a sum below zero wraps to more than 30.
* `soc_main.cpp:1187`: `random 0 ...` runs one test, as `AsManyAsAsked` says.
* `soc_main.cpp:1396`, `1410`: two messages that begin with `[ERROR]` end with `EXIT_SUCCESS`; exit
  codes are not modelled.
* `soc_main.cpp:1205` and `readme.md:18` call an option `timeout` that the code calls `max` (line
  1261); seed 0 is taken for none (line 1148).

## The proofs

Eight modules hold them. A theorem speaks of every value of the constants that the named assumptions
of its modules allow; what these leave out is said under *Decisions of abstraction*. Most proofs have
one shape: an inductive invariant (`IInv`, checked by TLC before it was proved), a lemma that `Init`
implies it, lemmas that a step preserves it, with a step of the proof for each action, and the
theorems, which follow from it. `PROJECT.json` lists the theorems that a reader should know of.

### Fetch path: `VcpuIfuProofs`

`TypeOK`, `CacheCoherent`, `DecodesCode` and `CacheNeverAwaited` of `VcpuIfu!Spec`, for every size of
cache and memory, every set of instructions and all delays. They are not inductive: that a line is
filled with the right word needs that the word on the bus is the one for the pc of now, which needs
that a request is pending or answered only while the IFU waits, and that the core changes the pc
only when an instruction is in execution. `IInv` states this.

On a slow bus (`SlowBus`: every delay of the range chosen is at least 2) no answer is lost
(`NoneLost`): `Slow` bounds the countdown from below while the request line is up. `FetchTime` says
how long a fetch takes there: one that hits is decoded at the next edge, and one that misses exactly
the delay drawn for it later. `StepsLeft` counts the steps of the bench, and each step takes one off;
the countdown is even before an edge and odd after it (`Timed`).

`HitsAddUp` proves `HitOrRead` of `FetchCounts!CountSpec` from the same invariant, for every width of
the counters: the sum of hits and reads grows exactly when the instruction at pc has been looked up.
The counters wrap around, so the equation holds up to one wrap (`WithinOneWrap`).

### Load/store path: `VcpuLsuProofs`

`TypeOK` and `LatchedIsCurrent` for every address map and all delays, from an invariant that relates
the LSU's state, the request line, the clock phase and the latched request. On a slow bus no request
outlives its access (`NoneOrphaned`) and a store to the UART prints once (`PrintsOnce`): the count
of the delay is odd after a rising edge and even before one, so a request is answered just before an
edge, the LSU sees each answer once, and the second part is asked for when the first answer has been
seen. `Printing` follows the character through the access.

How long an access takes is proved for every bus. `AccessTime`: each step takes one off what is left of
the part awaited, unless the request is sampled at it, from which the delay counts anew; and the line
that `io_reqValid_q` repeats is sampled at most once while the LSU stays in one state. `AccessBound`:
if no delay exceeds D, an access retires within 1 + D cycles, and a misaligned one within 1 + 2D.
`Budget` is the number of steps it may still take, which each step lowers.

`IsGoldMemory` is the refinement `Spec => GoldSpec`: for every address map, memory and delay, repeated
requests included, the LSU with the bench's bus does what the golden model's loads and stores do, each
at one moment. A store takes effect when the bench performs its first part (`Begun`), and until the
second is performed the abstract memory is the bench's with that part written too; a load takes effect
when it retires. The second invariant `RInv` says which part an answer belongs to, what its data is
(`Served`), and what remains of the first part while the second is awaited (`FirstStored`,
`FirstLoaded`); `Done` says that a store performed again, after it has retired, changes nothing. That
the two parts put together are the golden model's bytes (`WholeIsGold`, `LoadIsGold`) is shown lane by
lane for each size and offset. A store across the end of the RAM is the one case in which `GoldMem`
leaves the outcome open.

### CPU beside golden model: `VsocGoldProofs`

`TypeOK` of both sides, `OneInstruction`, `ResetFindsNothing` and, when the tests are random
(`is_random`), `EveryTestPasses`: for every set of words and of programs, every number of
registers, every arithmetic and memory that satisfy `Isa`'s assumptions, and however long the SoC
takes. So these are theorems about decoders, register files and sequencing. The first part of the
module shows that one instruction does the same on both sides (`EvalAgree`, `StoreAgree`), from the
two decoders, operand by operand. The second is `IInv`: while the CPU runs the instruction is in one
of five places and the two sides agree, after it the CPU has what `cpu_eval` will return unless that
is not mapped, and between tests the pipeline is empty and the memories are equal, which is why the
reset may leave `idu.sv` and the memory as they are. In tests that are not random the comparison may
fail (`vsoc_gold_bin`). There the places are proved without the agreement (`PInv`): of the golden model
it needs the pc, which the bench has compared. A test from a file may go on past a retired `ecall`,
which `exu.sv` takes for an `ebreak`: the bench then compares while the next instruction is being fetched
(`Doomed`). It finds the flags different or, if the next is an `ebreak` too, the pcs, as `pc + 4` is not
`pc` (assumed of `Plus4`); so the test fails and no reset follows.

`EveryEdgeAdvances` is the safety half of `FetchExecReturns`: every edge in `vsoc_fetch_exec` brings the
instruction at least a stage nearer to its retirement (`StagesLeft`), unless it is at the IFU or at the
LSU and the SoC has not answered.

Other parts show that the code meets the assumptions:

* programs of `Comparable` instructions only: `RandomInstProofs!RandomProgramsComparable`;
* arithmetic that agrees: `ArithmeticOf32Bits`, at the end of the module. On 32-bit words `sra32` sets
  exactly the bits into which `>>>` shifts the sign, and the order of words is total, so that the
  golden model's `!slt` is the `>=` of `com.sv`. `ArithmeticAgrees` is the same of 4-bit words;
* loads and stores that agree: `VcpuLsuProofs!IsGoldMemory`, for the LSU on the bench's bus. That the
  SoC's bus serves it as well is an assumption: the SoC is outside the repository.

### Random programs: `RandomInstProofs`

For every generator (`Patterns` is arbitrary unless said), every set of flags and every length of program:

* `RandomProgramsComparable`: the masks and shifts of the two decoders select the same bits of every
  word (`WordsAlike`), and each encoder leaves opcode and function code where they are looked for,
  whatever its operands; so both sides execute every word of a program alike.
* `FieldsAsDrawn`, `WordsReassemble`, `PrinterAgrees`: the decoders find the operands that were drawn,
  the named encoders rebuild the word from them, and the printer, which looks at the whole of funct7,
  names what is executed.
* `BasesInMemory`: after the prologue each register it sets holds an address in flash or memory.
* `BgeuNeverTested`: no word of a program is a `bgeu`.
* `ExactlyTheKindsAsked`: `random_instruction` returns one of the words of `Returnable` and can return
  each of them (`ReturnsReturnable`), and their kinds are those the flags ask for, all but `bgeu`. The
  generator must be able to draw all zeros, all ones and every function code (`Varied`; the patterns
  of the run are).

`FieldsAsDrawn` to `BgeuNeverTested` need a second invariant, `MadeInv`: the word that has just been
made was put together from the operands drawn for it, by the encoder of one of five formats, or is one
of the two that the prologue makes for a register, and between these two the page is remembered in
which the address lies.

### Bench: `TestHarnessProofs`, `CommandLineProofs`

`PassesInStep`, `ChecksEbreak`, `LateFails` and `RunsAsAsked` of `TestHarness!Spec`: whatever CPUs,
golden model and programs do, for every configuration and limit, the bench passes nothing that it
compared and found different, nothing that ends in an ebreak that `check` is to reject and nothing that
is late, and it runs as many tests as asked or stops at the first failure. The invariant says at each
place of the bench's loop what `is_test_success` stands for there: for the vcpu, that its turn is still
to come (`VcpuFails`: no test of the vcpu passes, see `test_harness_vcpu`); for vsoc, that it was in time (`VsocFound`).

`RunsOneTest` and `FirstOptionHolds` of `CommandLine!Spec`, for every line, integer and path: `main`
runs one test and it is the one asked for, and of an option given twice the first holds. That a random
test has 30 words is not proved, for it is not so; what is proved is that one with fewer has a
negative number on its line. The blocks
of `main` are an else-if chain in which more than one condition may hold; the proofs need that order,
so `Random` and `Run` take the first that does, as the code.

### Cache simulator: `CacheSimProofs`

For every trace no longer than `TimeWrap`, every shape of the caches that fits its array and every hash
function (`MC_CacheSim` has one by which all lines collide). That the full cache's ways are inside its
array is an assumption, `CacheSimAssumption`, and no theorem.

* `ProbesEnd`: a probe for any line of the trace ends within one turn of the table, at a slot in use
  exactly if the line was read before, though only misses are entered;
* `NeverHalfFull`: the table is never half full, so that a probe comes to a free slot and ends;
* `EachLineOnce`: a line is a compulsory miss at its first access and at no other;
* `IsMissClasses`: `Spec => ImplementsMissClasses`. Time stamps, scans for the oldest way and a table
  with open addressing do what `MissClasses` says in terms of the lines read between two uses.

The invariant has two halves. `LRU`, of either cache: a way in use has the time at which its line was
read last (`Stamped`), no two ways of a set have the same line (`Single`), and of a line read before
that is not held every way of its set has been used since (`Gone`). `TableKeeps`: the slots in use hold
the lines read, no more slots than reads, and all slots that a probe for a line passes before its own
are in use (`Chained`). That a probe stops where it should, and that the way found is the oldest, rests
on the least element of a set of numbers (`Least`, from the well-foundedness of the naturals), which is
all the induction there is.

### Event counts: `EventCountsProofs`

`CountInv` gives `CyclesAccounted`, `InstructionsClassified` and `CountsOK` from the EXU's edges alone,
for any program; `WaitInv` says which wait has been counted for the instruction in each of the five
places of `VsocGoldProofs!PInv`, and gives `FetchWaits` and `LsuWaitsAreMemory` in every test.

### Only model-checked

* Liveness (`EveryFetchAnswered`, `EveryAccessRetires`, `FetchExecReturns`, `Terminates`): that fairness
  makes a step happen is said with ENABLED, which is out of the prover's reach. What the steps
  achieve is proved of the first three, as numbers that go down (`FetchTime`, `AccessBound`, `EveryEdgeAdvances`).
* `AllButBgeuDrawable`, which has ENABLED. `ExactlyTheKindsAsked` says the same of the words
  that can be returned.
* `ArithmeticAgrees`, whose 32-bit counterpart is proved.
* What the runs that end in a violation show.

The other way round, `TypeOK` of `VcpuLsu` and `CountsOK` are proved and in no run.

## Not modelled

* `cpu_main.cpp`, the first test bench: it drives ports that `cpu.sv` no longer has and includes a
  header that is not in the repository, and no script compiles it. What it does lives on in
  `soc_main.cpp`.
* The scripts: command lines and the parsing of reports. `random_test.sh` gives the delays that the
  runs include.
* The external parts: the SoC of ysyxSoC (its answers are an input of `Core`'s `Edge`), the programs
  of am-kernels, Verilator.
* Exit codes, trace files and messages of the bench, reading the file of a `bin` test, and the values of the
  UART's registers. (With gold alone a read of them follows a null pointer, `soc_main.cpp:217`.)
