--------------------------- MODULE VcpuIfuProofs ----------------------------
(***************************************************************************)
(* What is proved of the fetch path for every address space, cache size,   *)
(* instruction set, set of stored words and set of delays.                 *)
(***************************************************************************)
EXTENDS FetchCounts, TLAPS

LEMMA IndexTag ==
  ASSUME NEW w \in WordNo
  PROVE  /\ index(w) \in 0 .. LINE_N - 1
         /\ tag(w) \in 0 .. NWords
         /\ tag(w) * LINE_N + index(w) = w
  BY CacheAssumption DEF index, tag, WordNo

-----------------------------------------------------------------------------
(***************************************************************************)
(* The inductive invariant.  The stages of an instruction exclude each     *)
(* other; a latched request is for the current pc and awaited; the answer  *)
(* line, while up, carries the word at pc to whoever waits for it, and     *)
(* what is left of it when the core asks anew is nothing.                  *)
(***************************************************************************)
Stages ==
  /\ CacheNeverAwaited
  /\ is_start => ~reqValid /\ ~Executing /\ curr_state = "IDLE"
  /\ reqValid => ~Executing /\ curr_state = "IDLE"
  /\ Executing => curr_state = "IDLE"

Awaited == reqValid \/ curr_state = "WAIT_IO"

Latched ==
  pend # NoRequest =>
    /\ pend = pc
    /\ curr_state = "WAIT_IO" \/ (reqValid /\ ~Hit(pc))
    /\ ~io_respValid

Answered ==
  /\ Awaited /\ io_respValid /\ pc \notin Writable => io_rdata = mem[pc]
  /\ clock = 1 /\ turn = "subtick" /\ reqValid => ~io_respValid
  /\ clock = 0 /\ turn = "tick" /\ io_respValid => Awaited
  /\ ~(clock = 1 /\ turn = "subtick") /\ io_respValid /\ respValid_ticks = 2 => Awaited

IInv == TypeOK /\ Stages /\ Latched /\ Answered /\ CacheCoherent /\ DecodesCode

LEMMA InitIInv == Init => IInv
<1> SUFFICES ASSUME Init PROVE IInv
  OBVIOUS
<1> USE DEF Init, IfuReset, CacheReset, PortReset
<1>1. TypeOK
  <2>1. /\ {reqValid, is_start, stall, idu_respValid} \subseteq BOOLEAN
        /\ {io_respValid, writeValid} \subseteq BOOLEAN
    BY Zenon
  <2>2. waitRespValid \in Nat /\ respValid_ticks \in 0 .. 2
    OBVIOUS
  <2> QED  BY <2>1, <2>2 DEF TypeOK, IfuState
<1>2. Stages /\ Latched /\ Answered
  BY DEF Stages, Latched, Answered, CacheNeverAwaited, Executing
<1>3. CacheCoherent /\ DecodesCode
  BY DEF CacheCoherent, LineCoherent, DecodesCode
<1> QED  BY <1>1, <1>2, <1>3 DEF IInv

LEMMA SubtickIInv == IInv /\ Subtick => IInv'
<1> SUFFICES ASSUME IInv, Subtick PROVE IInv'
  OBVIOUS
<1> USE DEF IInv, Stages, Executing, Awaited, Latched, Answered, CacheNeverAwaited
<1>0. UNCHANGED <<coreVars, ifuVars, delays, clock>> /\ turn = "subtick" /\ turn' = "tick"
  BY DEF Subtick
<1>1. PICK d \in delays :
        LET s == Sampled(io_reqValid /\ clock = 1, pc, d) IN
        \/ Answer(s) /\ io_rdata' = mem[s.pend]
        \/ NoAnswer(s) /\ UNCHANGED io_rdata
  BY DEF Subtick
<1> DEFINE s == Sampled(io_reqValid /\ clock = 1, pc, d)
<1>2. mem' \in [WordNo -> Inst] /\ \A w \in WordNo : w \notin Writable => mem'[w] = mem[w]
  BY DEF Subtick, Store, TypeOK
<1>3. s.wait \in Nat /\ s.pend \in WordNo \cup {NoRequest}
  BY IfuAssumption DEF Sampled, Down, TypeOK
<1>4. s.pend # NoRequest =>
        s.pend = pc /\ (curr_state = "WAIT_IO" \/ (reqValid /\ ~Hit(pc)))
  <2>1. io_reqValid => reqValid /\ ~Hit(pc)
    BY DEF io_reqValid, Looked, icache_hit, icache_reqValid, icache_wen, IfuState, TypeOK
  <2> QED  BY <2>1 DEF Sampled
<1>5. NoAnswer(s) /\ s.pend # NoRequest => ~io_respValid'
  <2>1. io_reqValid /\ clock = 1 => ~io_respValid
    BY <1>0 DEF io_reqValid, Looked, TypeOK
  <2> QED  BY <2>1 DEF Sampled, NoAnswer
<1>6. TypeOK'
  <2>1. io_rdata' \in Inst
    BY <1>1, <1>3 DEF Answer, TypeOK
  <2>2. pend' \in WordNo \cup {NoRequest} /\ waitRespValid' \in Nat
    BY <1>1, <1>3 DEF Answer, NoAnswer
  <2>3. respValid_ticks' \in 0 .. 2
    BY <1>1 DEF Answer, NoAnswer, Down, TypeOK
  <2>4. io_respValid' \in BOOLEAN
    BY <1>1, Zenon DEF Answer, NoAnswer
  <2> QED  BY <1>0, <1>2, <2>1, <2>2, <2>3, <2>4 DEF TypeOK, coreVars, ifuVars, cacheVars
<1>7. Stages'
  BY <1>0 DEF coreVars, ifuVars
<1>8. Latched'
  BY <1>0, <1>1, <1>4, <1>5 DEF coreVars, ifuVars, cacheVars, Answer, NoAnswer, Hit
<1>9. Answered'
  <2>1. CASE Answer(s) /\ io_rdata' = mem[s.pend]
    BY <1>0, <1>2, <1>4, <2>1 DEF Answer, coreVars, ifuVars, TypeOK
  <2>2. CASE NoAnswer(s) /\ UNCHANGED io_rdata
    BY <1>0, <1>2, <2>2 DEF NoAnswer, Down, coreVars, ifuVars, TypeOK
  <2> QED  BY <1>1, <2>1, <2>2
<1>10. CacheCoherent'
  BY <1>0, <1>2 DEF CacheCoherent, LineCoherent, coreVars, ifuVars, cacheVars
<1>11. DecodesCode'
  BY <1>0, <1>2 DEF DecodesCode, coreVars, TypeOK
<1> QED  BY <1>6, <1>7, <1>8, <1>9, <1>10, <1>11

LEMMA FallIInv == IInv /\ Fall => IInv'
  BY DEF IInv, Fall, TypeOK, Stages, Latched, Answered, CacheCoherent, LineCoherent,
     DecodesCode, CacheNeverAwaited, Executing, Awaited, Hit, coreVars, ifuVars,
     cacheVars, portVars

(* What the IFU does at a rising edge, by what it finds.                   *)

LEMMA FetchNone ==
  ASSUME TypeOK, Edge, curr_state = "IDLE", ~reqValid
  PROVE  ~respValid /\ curr_state' = "IDLE" /\ lines' = lines
  BY DEF Edge, CacheEdge, respValid, Looked, icache_wen, icache_hit, next_state

LEMMA FetchHit ==
  ASSUME TypeOK, Edge, curr_state = "IDLE", reqValid, Hit(pc)
  PROVE  respValid /\ inst = CacheData(pc) /\ curr_state' = "IDLE" /\ lines' = lines
  BY DEF Edge, CacheEdge, respValid, inst, Looked, icache_wen, icache_hit, next_state,
         icache_reqValid, icache_respValid, CacheResp

LEMMA FetchMiss ==
  ASSUME TypeOK, Edge, curr_state = "IDLE", reqValid, ~Hit(pc)
  PROVE  ~respValid /\ curr_state' = "WAIT_IO" /\ lines' = lines
  BY DEF Edge, CacheEdge, respValid, Looked, icache_wen, icache_hit, next_state,
         icache_reqValid, icache_respValid, CacheResp

LEMMA FetchAnswer ==
  ASSUME TypeOK, Edge, curr_state = "WAIT_IO", io_respValid
  PROVE  /\ respValid /\ inst = io_rdata /\ curr_state' = "IDLE"
         /\ lines' = [lines EXCEPT ![index(pc)] =
                        [valid |-> TRUE, tag |-> tag(pc), data |-> io_rdata]]
  BY DEF Edge, CacheEdge, respValid, inst, Looked, icache_wen, next_state

LEMMA FetchWait ==
  ASSUME TypeOK, Edge, curr_state = "WAIT_IO", ~io_respValid
  PROVE  ~respValid /\ curr_state' = "WAIT_IO" /\ lines' = lines
  BY DEF Edge, CacheEdge, respValid, Looked, icache_wen, next_state

LEMMA RiseIInv == IInv /\ Rise => IInv'
<1> SUFFICES ASSUME IInv, Rise PROVE IInv'
  OBVIOUS
<1> USE DEF IInv, Stages, Executing, Awaited, Latched, Answered, CacheNeverAwaited
<1>0. /\ UNCHANGED <<portVars, io_rdata, mem>>
      /\ clock = 0 /\ turn = "tick" /\ clock' = 1 /\ turn' = "subtick"
      /\ Edge /\ Idu /\ (CoreStart \/ CoreWait \/ CoreStall \/ CoreRetire)
  BY DEF Rise, CoreEdge
<1>s. \/ curr_state = "IDLE" /\ ~reqValid
      \/ curr_state = "IDLE" /\ reqValid /\ Hit(pc)
      \/ curr_state = "IDLE" /\ reqValid /\ ~Hit(pc)
      \/ curr_state = "WAIT_IO" /\ io_respValid
      \/ curr_state = "WAIT_IO" /\ ~io_respValid
  BY DEF TypeOK, IfuState
<1>i. /\ index(pc) \in 0 .. LINE_N - 1 /\ tag(pc) \in 0 .. NWords
      /\ tag(pc) * LINE_N + index(pc) = pc
  BY IndexTag DEF TypeOK
<1>1. TypeOK'
  <2>1. curr_state' \in IfuState
    BY <1>0, <1>s, FetchNone, FetchHit, FetchMiss, FetchAnswer, FetchWait DEF IfuState
  <2>5. lines' \in Lines
    <3>1. CASE curr_state = "WAIT_IO" /\ io_respValid
      <4>1. [valid |-> TRUE, tag |-> tag(pc), data |-> io_rdata] \in Line
        BY <1>i DEF TypeOK, Line
      <4> QED  BY <1>0, <1>i, <3>1, <4>1, FetchAnswer DEF TypeOK, Lines
    <3> QED  BY <1>0, <1>s, <3>1, FetchNone, FetchHit, FetchMiss, FetchWait DEF TypeOK
  <2>2. idu_inst' \in Inst
    BY <1>0, <1>s, <1>i, FetchNone, FetchHit, FetchMiss, FetchAnswer, FetchWait
    DEF Idu, TypeOK, Lines, Line, CacheData
  <2>3. idu_respValid' \in BOOLEAN /\ writeValid' \in BOOLEAN
    BY <1>0, Zenon DEF Idu, Edge, CacheEdge, respValid, icache_wen
  <2>4. /\ reqValid' \in BOOLEAN /\ is_start' \in BOOLEAN /\ stall' \in BOOLEAN
        /\ pc' \in WordNo
    BY <1>0, Zenon DEF CoreStart, CoreWait, CoreStall, CoreRetire, TypeOK
  <2> QED  BY <1>0, <2>1, <2>2, <2>3, <2>4, <2>5 DEF TypeOK, portVars
<1>2. Stages'
  BY <1>0, <1>s, FetchNone, FetchHit, FetchMiss, FetchAnswer, FetchWait
  DEF Idu, CoreStart, CoreWait, CoreStall, CoreRetire
<1>3. Latched'
  <2>1. pend # NoRequest =>
          /\ curr_state' = "WAIT_IO"
          /\ ~Executing /\ ~is_start /\ pend = pc
    BY <1>0, <1>s, FetchMiss, FetchWait
  <2> QED  BY <1>0, <2>1 DEF portVars, CoreStart, CoreWait, CoreStall, CoreRetire
<1>4. Answered'
  <2>1. io_respValid => ~reqValid'
    BY <1>0 DEF CoreStart, CoreWait, CoreStall, CoreRetire
  <2>2. curr_state' = "WAIT_IO" /\ io_respValid => Awaited /\ pc' = pc
    BY <1>0, <1>s, FetchNone, FetchHit, FetchMiss, FetchAnswer, FetchWait
    DEF CoreStart, CoreWait, CoreStall, CoreRetire
  <2> QED  BY <1>0, <2>1, <2>2 DEF portVars
<1>5. CacheCoherent'
  <2> SUFFICES ASSUME NEW i \in 0 .. LINE_N - 1 PROVE LineCoherent(i)'
    BY DEF CacheCoherent
  <2>1. CASE lines' = lines
    BY <1>0, <2>1 DEF CacheCoherent, LineCoherent
  <2>2. CASE curr_state = "WAIT_IO" /\ io_respValid
    <3>1. pc \in WordNo /\ (pc \notin Writable => io_rdata = mem[pc])
      BY <2>2 DEF TypeOK
    <3>2. CASE i = index(pc)
      <4>1. lines'[i] = [valid |-> TRUE, tag |-> tag(pc), data |-> io_rdata]
        BY <1>0, <1>i, <2>2, <3>2, FetchAnswer DEF TypeOK, Lines
      <4> QED  BY <1>0, <1>i, <3>1, <3>2, <4>1 DEF LineCoherent
    <3>3. CASE i # index(pc)
      <4>1. lines'[i] = lines[i]
        BY <1>0, <1>i, <2>2, <3>3, FetchAnswer DEF TypeOK, Lines
      <4> QED  BY <1>0, <4>1 DEF CacheCoherent, LineCoherent
    <3> QED  BY <3>2, <3>3
  <2> QED  BY <1>0, <1>s, <2>1, <2>2, FetchNone, FetchHit, FetchMiss, FetchWait
<1>6. DecodesCode'
  <2>1. idu_respValid' => ~Executing /\ ~is_start
    BY <1>0, <1>s, FetchNone, FetchHit, FetchMiss, FetchAnswer, FetchWait DEF Idu
  <2>2. idu_respValid' => pc' = pc
    BY <1>0, <2>1 DEF CoreStart, CoreWait, CoreStall, CoreRetire
  <2>3. CASE reqValid /\ Hit(pc)
    <3>1. pc \notin Writable => CacheData(pc) = mem[pc]
      BY <1>i, <2>3 DEF Hit, CacheData, CacheCoherent, LineCoherent
    <3> QED  BY <1>0, <2>2, <2>3, <3>1, FetchHit DEF Idu, DecodesCode
  <2>4. CASE curr_state = "WAIT_IO" /\ io_respValid
    BY <1>0, <2>2, <2>4, FetchAnswer DEF Idu, DecodesCode
  <2> QED  BY <1>0, <1>s, <2>3, <2>4, FetchNone, FetchMiss, FetchWait DEF Idu, DecodesCode
<1> QED  BY <1>1, <1>2, <1>3, <1>4, <1>5, <1>6

-----------------------------------------------------------------------------

LEMMA StutterIInv == IInv /\ UNCHANGED vars => IInv'
  BY DEF IInv, TypeOK, Stages, Latched, Answered, CacheCoherent, LineCoherent,
     DecodesCode, CacheNeverAwaited, Executing, Awaited, Hit, vars, coreVars, ifuVars,
     cacheVars, portVars

LEMMA Invariance == Spec => []IInv
<1>1. IInv /\ [Next]_vars => IInv'
  BY StutterIInv, SubtickIInv, FallIInv, RiseIInv DEF Next
<1> QED  BY <1>1, InitIInv, PTL DEF Spec

(***************************************************************************)
(* The fetch path's variables keep their types.                            *)
(***************************************************************************)
THEOREM TypeCorrect == Spec => []TypeOK
<1>1. IInv => TypeOK
  BY DEF IInv
<1> QED  BY <1>1, Invariance, PTL

(***************************************************************************)
(* No valid line of the cache differs from the word of memory it stands    *)
(* for, whatever the size of the cache and the delays of the bus, if       *)
(* stores do not reach that word.                                          *)
(***************************************************************************)
THEOREM Coherence == Spec => []CacheCoherent
<1>1. IInv => CacheCoherent
  BY DEF IInv
<1> QED  BY <1>1, Invariance, PTL

(***************************************************************************)
(* The core decodes the instruction that is in memory at its pc, if stores *)
(* do not reach that word.                                                 *)
(***************************************************************************)
THEOREM FetchCorrect == Spec => []DecodesCode
<1>1. IInv => DecodesCode
  BY DEF IInv
<1> QED  BY <1>1, Invariance, PTL

(***************************************************************************)
(* The IFU never waits for its cache.                                      *)
(***************************************************************************)
THEOREM CacheAtOnce == Spec => []CacheNeverAwaited
<1>1. IInv => CacheNeverAwaited
  BY DEF IInv, Stages
<1> QED  BY <1>1, Invariance, PTL

-----------------------------------------------------------------------------
(***************************************************************************)
(* On a bus that takes two cycles or more.  A request is latched in the    *)
(* subtick after the edge that raised reqValid; when the line falls, two   *)
(* subticks later, the count that began at four or more has not run out,   *)
(* and from then on the IFU waits.                                         *)
(***************************************************************************)
Fresh == clock = 1 /\ turn = "subtick"

Slow ==
  reqValid =>
    /\ ~io_respValid
    /\ Fresh => pend = NoRequest
    /\ ~Fresh /\ pend # NoRequest =>
         waitRespValid >= IF clock = 0 /\ turn = "tick" THEN 2 ELSE 3

LEMMA SlowSubtick ==
  ASSUME SlowBus, IInv, Slow, Subtick
  PROVE  Slow'
<1>1. PICK d \in delays :
        LET s == Sampled(io_reqValid /\ clock = 1, pc, d) IN Answer(s) \/ NoAnswer(s)
  BY DEF Subtick
<1>2. d \in Nat /\ d >= 2 /\ waitRespValid \in Nat
  BY IfuAssumption DEF SlowBus, IInv, TypeOK
<1>3. /\ reqValid' = reqValid /\ clock' = clock
      /\ turn = "subtick" /\ turn' = "tick" /\ clock \in {0, 1}
  BY DEF Subtick, coreVars, IInv, TypeOK
<1> DEFINE s == Sampled(io_reqValid /\ clock = 1, pc, d)
<1>4. reqValid /\ s.pend # NoRequest => s.wait >= IF clock = 1 THEN 3 ELSE 2
  <2>1. CASE clock = 1
    BY <1>2, <1>3, <2>1 DEF Slow, Fresh, Sampled, Down
  <2>2. CASE clock = 0
    BY <1>2, <1>3, <2>2 DEF Slow, Fresh, Sampled, Down
  <2> QED  BY <1>3, <2>1, <2>2
<1>5. reqValid => ~io_respValid' /\ pend' = s.pend /\ waitRespValid' = s.wait
  <2>1. CASE Answer(s)
    BY <1>3, <1>4, <2>1 DEF Answer
  <2>2. CASE NoAnswer(s)
    BY <2>2 DEF NoAnswer, Slow
  <2> QED  BY <1>1, <2>1, <2>2
<1> HIDE DEF s
<1> QED  BY <1>3, <1>4, <1>5 DEF Slow, Fresh

LEMMA SlowRise ==
  ASSUME IInv, Slow, Rise
  PROVE  Slow'
<1>1. CoreEdge /\ UNCHANGED portVars /\ clock = 0 /\ turn = "tick" /\ clock' = 1 /\ turn' = "subtick"
  BY DEF Rise
<1>2. reqValid' => ~reqValid /\ curr_state = "IDLE"
  BY <1>1 DEF CoreEdge, CoreStart, CoreWait, CoreStall, CoreRetire, IInv, Stages
<1>3. reqValid' => ~io_respValid /\ pend = NoRequest
  BY <1>1, <1>2 DEF IInv, Latched, Answered, Awaited
<1> QED  BY <1>1, <1>3 DEF Slow, Fresh, portVars

LEMMA SlowInvariance == Spec => [](IInv /\ (SlowBus => Slow))
<1> DEFINE SInv == IInv /\ (SlowBus => Slow)
<1>1. Init => SInv
  BY InitIInv DEF Init, Slow
<1>2. SInv /\ [Next]_vars => SInv'
  <2> SUFFICES ASSUME SInv, [Next]_vars PROVE SInv'
    OBVIOUS
  <2>0. SlowBus' <=> SlowBus
    BY DEF Next, Subtick, Fall, Rise, SlowBus, vars, portVars
  <2>1. CASE ~SlowBus
    BY <2>0, <2>1, StutterIInv, SubtickIInv, FallIInv, RiseIInv DEF Next
  <2>2. CASE SlowBus /\ Subtick
    BY <2>2, SubtickIInv, SlowSubtick
  <2>3. CASE SlowBus /\ Fall
    <3>1. Slow'
      BY <2>3 DEF Fall, Slow, Fresh, coreVars, portVars, IInv, TypeOK
    <3> QED  BY <2>3, <3>1, FallIInv
  <2>4. CASE SlowBus /\ Rise
    BY <2>4, RiseIInv, SlowRise
  <2>5. CASE SlowBus /\ UNCHANGED vars
    <3>1. Slow'
      BY <2>5 DEF Slow, Fresh, vars, coreVars, portVars
    <3> QED  BY <2>5, <3>1, StutterIInv
  <2> QED  BY <2>1, <2>2, <2>3, <2>4, <2>5 DEF Next
<1> QED  BY <1>1, <1>2, PTL DEF Spec

(***************************************************************************)
(* On a bus that takes two cycles or more the IFU sees every answer.       *)
(***************************************************************************)
THEOREM NoneLost == Spec => []NoLostAnswer
<1>1. IInv /\ (SlowBus => Slow) => NoLostAnswer
  BY DEF IInv, Answered, Awaited, Slow, NoLostAnswer
<1> QED  BY <1>1, SlowInvariance, PTL

-----------------------------------------------------------------------------
(***************************************************************************)
(* How long such a fetch takes, in steps of the bench: a subtick and a     *)
(* tick are half a cycle.  The parity of the count is the clock's level,   *)
(* so that it runs out just before a rising edge.                          *)
(***************************************************************************)
Even == {2 * k : k \in Nat}
Odd  == {2 * k + 1 : k \in Nat}

Low == clock = 0 /\ turn = "tick"

\* The bench's next subtick latches a request.
Missing == Fresh /\ reqValid /\ ~Hit(pc)

StepsToEdge == (IF clock = 1 THEN 2 ELSE 0) + (IF turn = "subtick" THEN 2 ELSE 1)

\* The steps to the edge at which the IDU takes the instruction.
StepsLeft ==
  IF pend = NoRequest THEN StepsToEdge
  ELSE 2 * waitRespValid + (IF turn = "tick" THEN 1 ELSE 0)

(***************************************************************************)
(* On such a bus a fetch that hits the cache takes one cycle, the four     *)
(* steps to the next rising edge, and one that misses takes exactly the    *)
(* delay the bench draws for it, that many cycles after the one in which   *)
(* the core asks: every step brings the instruction one step nearer, the   *)
(* request is latched once, and the instruction is decoded when no step is *)
(* left (icache.sv:69, ifu.sv:65-81, soc_main.cpp:703-721).                *)
(***************************************************************************)
FetchTimed ==
  SlowBus /\ Awaited =>
    IF Missing THEN Awaited' /\ \E d \in delays : StepsLeft' = 4 * d - 1
    ELSE IF StepsLeft = 1 THEN idu_respValid'
    ELSE Awaited' /\ StepsLeft' = StepsLeft - 1

Timed ==
  /\ pend # NoRequest => waitRespValid \in IF Low \/ Fresh THEN Even \ {0} ELSE Odd
  /\ curr_state = "WAIT_IO" /\ pend = NoRequest => Low /\ io_respValid
  /\ reqValid /\ ~Fresh /\ ~Hit(pc) => pend # NoRequest

TInv == IInv /\ Slow /\ Timed

LEMMA Parity ==
  ASSUME NEW n \in Nat
  PROVE  /\ n \in Odd => n > 0 /\ n - 1 \in Even
         /\ n \in Even \ {0} => n > 1 /\ n - 1 \in Odd
<1>1. ASSUME NEW k \in Nat, n = 2 * k + 1 PROVE n > 0 /\ n - 1 \in Even
  BY <1>1 DEF Even
<1>2. ASSUME NEW k \in Nat, n = 2 * k, n # 0 PROVE n > 1 /\ n - 1 \in Odd
  <2>1. k - 1 \in Nat /\ n - 1 = 2 * (k - 1) + 1
    BY <1>2
  <2> QED  BY <1>2, <2>1 DEF Odd
<1> QED  BY <1>1, <1>2 DEF Even, Odd

LEMMA Asking == IInv => (io_reqValid <=> reqValid /\ ~Hit(pc))
  BY DEF IInv, TypeOK, IfuState, Stages, CacheNeverAwaited, io_reqValid, Looked, icache_hit,
     icache_reqValid, icache_respValid, icache_wen, CacheResp

\* What a subtick does to the port, by what it finds.
LEMMA PortSteps ==
  ASSUME SlowBus, TInv, Subtick
  PROVE  /\ Missing =>
              pend' = pc /\ \E d \in delays : d \in Nat /\ d >= 2 /\ waitRespValid' = 2 * d - 1
         /\ ~Missing /\ pend = NoRequest => pend' = NoRequest
         /\ ~Missing /\ pend # NoRequest /\ waitRespValid > 1 =>
              pend' = pend /\ waitRespValid' = waitRespValid - 1
         /\ ~Missing /\ pend # NoRequest /\ waitRespValid = 1 =>
              pend' = NoRequest /\ io_respValid'
<1>1. PICK d \in delays :
        LET s == Sampled(io_reqValid /\ clock = 1, pc, d) IN Answer(s) \/ NoAnswer(s)
  BY DEF Subtick
<1> DEFINE s == Sampled(io_reqValid /\ clock = 1, pc, d)
<1>2. d \in Nat /\ d >= 2 /\ waitRespValid \in Nat
  BY IfuAssumption DEF SlowBus, TInv, IInv, TypeOK
<1>3. (io_reqValid /\ clock = 1) <=> Missing
  BY Asking DEF Missing, Fresh, TInv, Subtick
<1>4. pc # NoRequest
  BY IfuAssumption DEF TInv, IInv, TypeOK
<1>5. ASSUME Missing PROVE s.pend = pc /\ s.wait = 2 * d - 1 /\ s.wait > 0
  BY <1>2, <1>3, <1>5 DEF Sampled, Down
<1>6. ASSUME ~Missing PROVE s.pend = pend /\ s.wait = Down(waitRespValid)
  BY <1>3, <1>6 DEF Sampled
<1>7. CASE Missing
  <2>1. NoAnswer(s) /\ pend' = pc /\ waitRespValid' = 2 * d - 1
    BY <1>1, <1>5, <1>7 DEF Answer, NoAnswer
  <2> QED  BY <1>2, <1>7, <2>1
<1>8. CASE ~Missing /\ pend = NoRequest
  BY <1>1, <1>6, <1>8 DEF Answer, NoAnswer
<1>9. CASE ~Missing /\ pend # NoRequest /\ waitRespValid > 1
  <2>1. s.pend = pend /\ s.wait = waitRespValid - 1 /\ s.wait > 0
    BY <1>2, <1>6, <1>9 DEF Down
  <2> QED  BY <1>1, <1>9, <2>1 DEF Answer, NoAnswer
<1>10. CASE ~Missing /\ pend # NoRequest /\ waitRespValid = 1
  <2>1. s.pend = pend /\ s.wait = 0
    BY <1>6, <1>10 DEF Down
  <2>2. Answer(s)
    BY <1>1, <1>10, <2>1 DEF NoAnswer
  <2> QED  BY <1>10, <2>2 DEF Answer
<1> HIDE DEF s
<1> QED  BY <1>2, <1>7, <1>8, <1>9, <1>10

LEMMA TimedSubtick ==
  ASSUME SlowBus, TInv, Subtick
  PROVE  Timed' /\ FetchTimed
<1>0. /\ UNCHANGED <<coreVars, ifuVars, clock>>
      /\ turn = "subtick" /\ turn' = "tick" /\ clock \in {0, 1}
  BY DEF Subtick, TInv, IInv, TypeOK
<1>1. /\ Hit(pc)' <=> Hit(pc)
      /\ Awaited' <=> Awaited
      /\ reqValid' = reqValid /\ curr_state' = curr_state
      /\ ~Low /\ ~Fresh' /\ (Low' <=> clock = 0) /\ (Fresh <=> clock = 1)
  BY <1>0 DEF Hit, Awaited, Low, Fresh, coreVars, ifuVars, cacheVars
<1>2. waitRespValid \in Nat /\ pc # NoRequest
  BY IfuAssumption DEF TInv, IInv, TypeOK
<1>3. CASE Missing
  <2>1. PICK d \in delays : d \in Nat /\ d >= 2 /\ waitRespValid' = 2 * d - 1
    BY <1>3, PortSteps
  <2>2. pend' # NoRequest /\ waitRespValid' \in Odd
    <3>1. d - 1 \in Nat /\ waitRespValid' = 2 * (d - 1) + 1
      BY <2>1
    <3> QED  BY <1>2, <1>3, <3>1, PortSteps DEF Odd
  <2>3. ~Low'
    BY <1>1, <1>3 DEF Missing
  <2>4. Timed'
    BY <1>1, <2>2, <2>3 DEF Timed
  <2>5. StepsLeft' = 4 * d - 1
    BY <1>0, <2>1, <2>2 DEF StepsLeft
  <2> QED  BY <1>1, <1>3, <2>4, <2>5 DEF FetchTimed
<1>4. CASE ~Missing /\ pend = NoRequest
  <2>1. pend' = NoRequest /\ curr_state # "WAIT_IO" /\ (reqValid => Hit(pc))
    BY <1>1, <1>4, PortSteps DEF TInv, Timed, Missing
  <2>2. Timed'
    BY <1>1, <2>1 DEF Timed
  <2>3. StepsLeft = StepsToEdge /\ StepsLeft' = StepsToEdge' /\ clock' = clock
    BY <1>0, <1>4, <2>1 DEF StepsLeft
  <2>4. StepsLeft' = StepsLeft - 1 /\ StepsLeft # 1
    <3>1. CASE clock = 0
      BY <1>0, <2>3, <3>1 DEF StepsToEdge
    <3>2. CASE clock = 1
      BY <1>0, <2>3, <3>2 DEF StepsToEdge
    <3> QED  BY <1>0, <3>1, <3>2
  <2> QED  BY <1>1, <1>4, <2>2, <2>4 DEF FetchTimed
<1>5. CASE ~Missing /\ pend # NoRequest /\ waitRespValid > 1
  <2>1. pend' = pend /\ waitRespValid' = waitRespValid - 1
    BY <1>5, PortSteps
  <2>2. /\ clock = 1 => waitRespValid' \in Odd
        /\ clock = 0 => waitRespValid' \in Even \ {0}
    BY <1>1, <1>2, <1>5, <2>1, Parity DEF TInv, Timed
  <2>3. Timed'
    BY <1>0, <1>1, <1>5, <2>1, <2>2 DEF TInv, Timed
  <2>4. StepsLeft' = StepsLeft - 1 /\ StepsLeft # 1
    BY <1>0, <1>2, <1>5, <2>1 DEF StepsLeft
  <2> QED  BY <1>1, <1>5, <2>3, <2>4 DEF FetchTimed
<1>6. CASE ~Missing /\ pend # NoRequest /\ waitRespValid = 1
  <2>1. pend' = NoRequest /\ io_respValid'
    BY <1>6, PortSteps
  <2>2. clock = 0
    BY <1>0, <1>1, <1>6, Parity DEF TInv, Timed
  <2>3. ~reqValid
    BY <1>0, <1>1, <1>6, <2>2 DEF TInv, Slow
  <2>4. Timed'
    BY <1>1, <2>1, <2>2, <2>3 DEF Timed
  <2>5. StepsLeft = 2 /\ StepsLeft' = 1
    BY <1>0, <1>6, <2>1, <2>2 DEF StepsLeft, StepsToEdge, coreVars
  <2> QED  BY <1>1, <1>6, <2>4, <2>5 DEF FetchTimed
<1> QED  BY <1>2, <1>3, <1>4, <1>5, <1>6, Parity DEF TInv, Timed

LEMMA TimedFall ==
  ASSUME TInv, Fall
  PROVE  Timed' /\ FetchTimed
<1>0. /\ UNCHANGED <<coreVars, ifuVars, portVars>>
      /\ turn = "tick" /\ turn' = "subtick" /\ clock = 1 /\ clock' = 0
  BY DEF Fall
<1>1. /\ Hit(pc)' <=> Hit(pc)
      /\ Awaited' <=> Awaited
      /\ reqValid' = reqValid /\ curr_state' = curr_state
      /\ pend' = pend /\ waitRespValid' = waitRespValid
      /\ ~Low /\ ~Fresh /\ ~Low' /\ ~Fresh'
  BY <1>0 DEF Hit, Awaited, Low, Fresh, coreVars, ifuVars, portVars, cacheVars
<1>2. Timed'
  BY <1>1 DEF TInv, Timed
<1>3. StepsLeft' = StepsLeft - 1 /\ StepsLeft # 1
  <2>1. waitRespValid \in Nat /\ (pend # NoRequest => waitRespValid > 0)
    BY <1>1, Parity DEF TInv, Timed, IInv, TypeOK
  <2>2. CASE pend = NoRequest
    BY <1>0, <1>1, <2>2 DEF StepsLeft, StepsToEdge
  <2>3. CASE pend # NoRequest
    BY <1>0, <1>1, <2>1, <2>3 DEF StepsLeft
  <2> QED  BY <2>2, <2>3
<1> QED  BY <1>1, <1>2, <1>3 DEF FetchTimed, Missing

LEMMA TimedRise ==
  ASSUME TInv, Rise
  PROVE  Timed' /\ FetchTimed
<1>0. /\ UNCHANGED portVars
      /\ clock = 0 /\ turn = "tick" /\ clock' = 1 /\ turn' = "subtick"
      /\ Edge /\ Idu /\ CoreEdge
  BY DEF Rise, CoreEdge
<1>1. Low /\ ~Fresh /\ Fresh' /\ pend' = pend /\ waitRespValid' = waitRespValid
  BY <1>0 DEF Low, Fresh, portVars
<1>2. TypeOK /\ Stages /\ Latched
  BY DEF TInv, IInv
<1>3. waitRespValid \in Nat /\ (pend # NoRequest => waitRespValid > 1)
  BY <1>1, <1>2, Parity DEF TInv, Timed, TypeOK
<1>4. CASE pend # NoRequest
  <2>1. curr_state' = "WAIT_IO"
    <3>1. CASE reqValid
      BY <1>0, <1>2, <1>4, <3>1, FetchMiss DEF Stages, Latched
    <3>2. CASE ~reqValid
      BY <1>0, <1>2, <1>4, <3>2, FetchWait DEF Latched
    <3> QED  BY <3>1, <3>2
  <2>2. Timed'
    BY <1>1, <1>4, <2>1 DEF TInv, Timed
  <2>3. StepsLeft' = StepsLeft - 1 /\ StepsLeft # 1
    BY <1>0, <1>1, <1>3, <1>4 DEF StepsLeft
  <2> QED  BY <1>1, <2>1, <2>2, <2>3 DEF FetchTimed, Missing, Awaited
<1>5. CASE pend = NoRequest
  <2>1. reqValid => curr_state = "IDLE" /\ Hit(pc)
    BY <1>1, <1>2, <1>5 DEF TInv, Timed, Stages
  <2>2. Awaited => respValid
    BY <1>0, <1>2, <1>5, <2>1, FetchHit, FetchAnswer DEF TInv, Timed, Awaited
  <2>3. curr_state' # "WAIT_IO"
    <3>1. CASE curr_state = "WAIT_IO"
      BY <1>0, <1>2, <1>5, <3>1, FetchAnswer DEF TInv, Timed
    <3>2. CASE curr_state = "IDLE"
      BY <1>0, <1>2, <2>1, <3>2, FetchHit, FetchNone
    <3> QED  BY <1>2, <3>1, <3>2 DEF TypeOK, IfuState, Stages, CacheNeverAwaited
  <2>4. Timed'
    BY <1>1, <1>5, <2>3 DEF Timed
  <2>5. StepsLeft = 1
    BY <1>0, <1>5 DEF StepsLeft, StepsToEdge
  <2>6. idu_respValid' = respValid
    BY <1>0 DEF Idu
  <2> QED  BY <1>1, <2>2, <2>4, <2>5, <2>6 DEF FetchTimed, Missing
<1> QED  BY <1>4, <1>5

(***************************************************************************)
(* Every fetch on a bus that takes two cycles or more takes the time that  *)
(* FetchTimed says, whatever the delays drawn and the size of the cache.   *)
(***************************************************************************)
THEOREM FetchTime == Spec => [][FetchTimed]_vars
<1> DEFINE T == SlowBus => Timed
<1> DEFINE S == IInv /\ (SlowBus => Slow)
<1>1. Init => T
  BY DEF Init, Timed, IfuReset, PortReset
<1>2. S /\ T /\ [Next]_vars => T' /\ [FetchTimed]_vars
  <2> SUFFICES ASSUME S, T, [Next]_vars PROVE T' /\ [FetchTimed]_vars
    OBVIOUS
  <2>0. SlowBus' <=> SlowBus
    BY DEF Next, Subtick, Fall, Rise, SlowBus, vars, portVars
  <2>1. CASE ~SlowBus
    BY <2>0, <2>1 DEF FetchTimed
  <2>2. CASE SlowBus /\ UNCHANGED vars
    BY <2>0, <2>2 DEF Timed, vars, coreVars, ifuVars, cacheVars, portVars, Low, Fresh, Hit
  <2>3. CASE SlowBus /\ Next
    <3>1. TInv
      BY <2>3 DEF TInv
    <3> QED  BY <2>3, <3>1, TimedSubtick, TimedFall, TimedRise DEF Next
  <2> QED  BY <2>1, <2>2, <2>3
<1> QED  BY <1>1, <1>2, SlowInvariance, PTL DEF Spec

-----------------------------------------------------------------------------
(***************************************************************************)
(* What the counts of the fetch path add up to, for every address space,   *)
(* cache size, set of delays and width of the counters.                    *)
(***************************************************************************)
CountsInv ==
  {micache_hits, minstret, io_reads} \subseteq 0 .. CountSize - 1 /\ HitOrRead

LEMMA IncWraps ==
  ASSUME NEW n \in 0 .. CountSize - 1, NEW b
  PROVE  /\ Inc(n, b) \in 0 .. CountSize - 1
         /\ \E c \in {0, CountSize} : Inc(n, b) = n + Bit(b) - c
  BY FetchCountsAssumption DEF Inc, Bit

\* Four counts within their ranges are less than two wraps apart.
LEMMA WithinOneWrap ==
  ASSUME NEW h \in 0 .. CountSize - 1, NEW r \in 0 .. CountSize - 1,
         NEW m \in 0 .. CountSize - 1, NEW b \in {0, 1},
         NEW w \in {-CountSize, 0, CountSize},
         NEW v \in {-CountSize, 0, CountSize}, h + r = m + b + w + v
  PROVE  \E wraps \in {-CountSize, 0, CountSize} : h + r = m + b + wraps
<1>1. CountSize \in Nat /\ w + v < 2 * CountSize /\ w + v > -2 * CountSize
  BY FetchCountsAssumption
<1>2. w + v \in {-CountSize, 0, CountSize}
  BY <1>1
<1> QED  BY <1>1, <1>2

LEMMA CountSubtick ==
  ASSUME IInv, CountsInv, Subtick, CountRead
  PROVE  CountsInv'
<1>1. /\ UNCHANGED <<coreVars, ifuVars, clock>>
      /\ turn = "subtick" /\ turn' = "tick" /\ clock \in {0, 1}
  BY DEF Subtick, IInv, TypeOK
<1>2. io_reqValid <=> reqValid /\ ~Hit(pc)
  BY Asking
<1>3. Hit(pc)' <=> Hit(pc)
  BY <1>1 DEF Hit, coreVars, ifuVars, cacheVars
<1>4. Bit(LookedUp)' = Bit(LookedUp) + Bit(io_reqValid /\ clock = 1)
  BY <1>1, <1>2, <1>3 DEF IInv, Stages, Executing, LookedUp, Bit, coreVars, ifuVars
<1>5. Bit(io_reqValid /\ clock = 1) \in {0, 1} /\ Bit(LookedUp) \in {0, 1}
  BY DEF Bit
<1>6. /\ io_reads' \in 0 .. CountSize - 1
      /\ \E c \in {0, CountSize} : io_reads' = io_reads + Bit(io_reqValid /\ clock = 1) - c
  BY IncWraps DEF CountsInv, CountRead
<1>7. PICK w \in {-CountSize, 0, CountSize} :
        micache_hits + io_reads = minstret + Bit(LookedUp) + w
  BY DEF CountsInv, HitOrRead
<1>8. PICK c \in {0, CountSize} : io_reads' = io_reads + Bit(io_reqValid /\ clock = 1) - c
  BY <1>6
<1>9. micache_hits + io_reads' = minstret + Bit(LookedUp)' + w + (0 - c)
  BY <1>4, <1>5, <1>7, <1>8, FetchCountsAssumption DEF CountsInv
<1>10. UNCHANGED <<micache_hits, minstret>> /\ Bit(LookedUp)' \in {0, 1}
  BY DEF CountRead, Bit
<1>11. \E v \in {-CountSize, 0, CountSize} :
         micache_hits' + io_reads' = minstret' + Bit(LookedUp)' + w + v
  BY <1>9, <1>10, FetchCountsAssumption
<1>12. HitOrRead'
  BY <1>6, <1>10, <1>11, WithinOneWrap DEF CountsInv, HitOrRead
<1> QED  BY <1>6, <1>10, <1>12 DEF CountsInv

LEMMA CountRise ==
  ASSUME IInv, CountsInv, Rise, Measure
  PROVE  CountsInv'
<1>1. /\ clock = 0 /\ turn = "tick" /\ clock' = 1 /\ turn' = "subtick"
      /\ Edge /\ Idu /\ (CoreStart \/ CoreWait \/ CoreStall \/ CoreRetire)
  BY DEF Rise, CoreEdge
<1>2. TypeOK /\ Stages
  BY DEF IInv
<1> DEFINE hit == icache_hit
           retired == Executing /\ reqValid'
<1>3. Bit(LookedUp)' + Bit(retired) = Bit(LookedUp) + Bit(hit)
  <2> USE <1>1, <1>2 DEF Stages, Executing, LookedUp, Bit, Idu
  <2>1. CASE curr_state = "IDLE" /\ ~reqValid
    <3>1. ~hit
      BY <2>1 DEF icache_hit, icache_reqValid, icache_wen
    <3> QED  BY <2>1, <3>1, FetchNone DEF CoreStart, CoreWait, CoreStall, CoreRetire
  <2>2. CASE curr_state = "IDLE" /\ reqValid /\ Hit(pc)
    <3>1. hit
      BY <2>2 DEF icache_hit, icache_reqValid, icache_wen
    <3> QED  BY <2>2, <3>1, FetchHit
  <2>3. CASE curr_state = "IDLE" /\ reqValid /\ ~Hit(pc)
    <3>1. ~hit
      BY <2>3 DEF icache_hit
    <3> QED  BY <2>3, <3>1, FetchMiss
  <2>4. CASE curr_state = "WAIT_IO" /\ io_respValid
    <3>1. ~hit
      BY <2>4 DEF icache_hit, icache_wen
    <3> QED  BY <2>4, <3>1, FetchAnswer
  <2>5. CASE curr_state = "WAIT_IO" /\ ~io_respValid
    <3>1. ~hit
      BY <2>5 DEF icache_hit, icache_reqValid, icache_wen
    <3> QED  BY <2>5, <3>1, FetchWait
  <2> QED  BY <2>1, <2>2, <2>3, <2>4, <2>5 DEF TypeOK, IfuState, CacheNeverAwaited
<1>4. /\ Bit(LookedUp) \in {0, 1} /\ Bit(LookedUp)' \in {0, 1}
      /\ Bit(hit) \in {0, 1} /\ Bit(retired) \in {0, 1}
  BY DEF Bit
<1>5. /\ micache_hits' \in 0 .. CountSize - 1 /\ minstret' \in 0 .. CountSize - 1
      /\ \E c \in {0, CountSize} : micache_hits' = micache_hits + Bit(hit) - c
      /\ \E c \in {0, CountSize} : minstret' = minstret + Bit(retired) - c
  BY IncWraps DEF CountsInv, Measure
<1>6. PICK w \in {-CountSize, 0, CountSize} :
        micache_hits + io_reads = minstret + Bit(LookedUp) + w
  BY DEF CountsInv, HitOrRead
<1>7. PICK c \in {0, CountSize} : micache_hits' = micache_hits + Bit(hit) - c
  BY <1>5
<1>8. PICK e \in {0, CountSize} : minstret' = minstret + Bit(retired) - e
  BY <1>5
<1> HIDE DEF hit, retired
<1>9. micache_hits' + io_reads = minstret' + Bit(LookedUp)' + w + (e - c)
  <2>1. {micache_hits, io_reads, minstret, c, e, w} \subseteq Int
    BY FetchCountsAssumption DEF CountsInv
  <2>2. {Bit(LookedUp), Bit(LookedUp)', Bit(hit), Bit(retired)} \subseteq Int
    BY <1>4
  <2> QED  BY <1>3, <1>6, <1>7, <1>8, <2>1, <2>2
<1>10. e - c \in {-CountSize, 0, CountSize} /\ io_reads' = io_reads
  BY FetchCountsAssumption DEF Measure
<1>11. \E v \in {-CountSize, 0, CountSize} :
         micache_hits' + io_reads' = minstret' + Bit(LookedUp)' + w + v
  BY <1>9, <1>10
<1>12. HitOrRead'
  BY <1>4, <1>5, <1>10, <1>11, WithinOneWrap DEF CountsInv, HitOrRead
<1> QED  BY <1>5, <1>10, <1>12 DEF CountsInv

(***************************************************************************)
(* Every instruction costs one hit or one read of the bus, whatever the    *)
(* size of the cache and the delays: the measured hits are exactly the     *)
(* instructions that made no read.                                         *)
(***************************************************************************)
THEOREM HitsAddUp == CountSpec => []HitOrRead
<1>1. CountInit => IInv /\ CountsInv
  BY InitIInv, FetchCountsAssumption DEF CountInit, CountsInv, HitOrRead, LookedUp, Bit, Init, IfuReset, Executing
<1>2. IInv /\ CountsInv /\ [CountNext]_<<vars, counts>> => IInv' /\ CountsInv'
  <2> SUFFICES ASSUME IInv, CountsInv, [CountNext]_<<vars, counts>> PROVE IInv' /\ CountsInv'
    OBVIOUS
  <2>1. CASE Subtick /\ CountRead
    BY <2>1, SubtickIInv, CountSubtick
  <2>2. CASE Fall /\ UNCHANGED counts
    <3>1. CountsInv'
      BY <2>2 DEF Fall, CountsInv, HitOrRead, LookedUp, Bit, Executing, Hit, counts, coreVars,
         ifuVars, cacheVars, IInv, TypeOK
    <3> QED  BY <2>2, <3>1, FallIInv
  <2>3. CASE Rise /\ Measure
    BY <2>3, RiseIInv, CountRise
  <2>4. CASE UNCHANGED <<vars, counts>>
    <3>1. IInv'
      BY <2>4, StutterIInv
    <3>2. CountsInv'
      BY <2>4 DEF CountsInv, HitOrRead, LookedUp, Bit, Executing, Hit, vars, counts, coreVars,
         ifuVars, cacheVars
    <3> QED  BY <3>1, <3>2
  <2> QED  BY <2>1, <2>2, <2>3, <2>4 DEF CountNext
<1>3. CountsInv => HitOrRead
  BY DEF CountsInv
<1> QED  BY <1>1, <1>2, <1>3, PTL DEF CountSpec
=============================================================================
