--------------------------- MODULE VcpuLsuProofs ----------------------------
(***************************************************************************)
(* What is proved of the load/store path for every address map, every set  *)
(* of stored words and every set of delays.                                *)
(***************************************************************************)
EXTENDS VcpuLsu, TLAPS

-----------------------------------------------------------------------------
(* Types of the wires and of the memory port.                              *)

LEMMA PartType ==
  ASSUME NEW o \in Operands, NEW second \in BOOLEAN
  PROVE  part(o, second) \in Request
<1>1. part_addr(o, second) \in Address
  BY MapAssumption DEF part_addr, Operands, Address, WordNo, Lane
<1>2. part_wdata(o) \in Word
  <2>1. \A l \in Lane : (l + 4 - o.addr.off) % 4 \in Lane
    BY DEF Operands, Address, Lane
  <2> QED  BY <2>1 DEF part_wdata, Operands, Word
<1>3. part_wmask(o, second) \subseteq Lane
  <2>1. o.addr.off \in Lane
    BY DEF Operands, Address
  <2> QED  BY <2>1 DEF part_wmask, Lane
<1> QED  BY <1>1, <1>2, <1>3 DEF part, Request, Operands

LEMMA WriteType ==
  ASSUME NEW m \in Memory, NEW r \in Request
  PROVE  v_mem_write(m, r.addr, r.wmask, r.wdata) \in Memory
<1>1. CASE InRam(r.addr)
  <2>1. r.addr.word \in Stored
    BY <1>1, MapAssumption DEF InRam, InRegion, Stored, RamWords, Request, Address, WordNo
  <2>2. [l \in Lane |-> IF l \in r.wmask THEN r.wdata[l] ELSE m[r.addr.word][l]] \in Word
    BY <2>1 DEF Request, Word, Memory
  <2> QED  BY <1>1, <2>1, <2>2 DEF v_mem_write, Memory
<1>2. CASE ~InRam(r.addr)
  BY <1>2 DEF v_mem_write
<1> QED  BY <1>1, <1>2

LEMMA ReadType ==
  ASSUME NEW m \in Memory, NEW r \in Request, NEW w \in v_mem_read(m, r.addr)
  PROVE  w \in Word
<1>1. InFlash(r.addr) \/ InRam(r.addr) => r.addr.word \in Stored
  BY MapAssumption
  DEF InRam, InFlash, InRegion, Stored, RamWords, FlashWords, Request, Address, WordNo
<1> QED  BY <1>1, ByteAssumption DEF v_mem_read, Memory, Word

LEMMA LoadType ==
  ASSUME TypeOK PROVE rdata \in Word
<1>1. op.addr.off \in Lane /\ io_rdata \in Word
  BY DEF TypeOK, Operands, Address
<1>2. \A k \in 1 .. 3 : first_rdata[k] \in Byte
  BY <1>1 DEF TypeOK, first_rdata, Word, Lane
<1>3. align_rdata \in Word
  <2> SUFFICES ASSUME NEW l \in Lane PROVE align_rdata[l] \in Byte
    BY DEF align_rdata, Word
  <2> DEFINE k == l + op.addr.off
  <2>1. CASE op.addr.off = 0
    BY <1>1, <2>1 DEF align_rdata, Word
  <2>2. CASE op.addr.off # 0 /\ k < 4
    BY <1>1, <1>2, <2>2 DEF align_rdata, Lane
  <2>3. CASE op.addr.off # 0 /\ ~(k < 4)
    <3>1. k - 4 \in Lane
      BY <1>1, <2>3 DEF Lane
    <3> QED  BY <1>1, <2>3, <3>1 DEF align_rdata, Word
  <2> QED  BY <2>1, <2>2, <2>3
<1>4. ASSUME NEW n \in {1, 2}, NEW s PROVE Extend(align_rdata, n, s) \in Word
  BY <1>3, ByteAssumption DEF Extend, Word, Lane
<1> QED  BY <1>3, <1>4 DEF rdata, Sized

-----------------------------------------------------------------------------
(***************************************************************************)
(* The inductive invariant.  An access is presented to an idle LSU and     *)
(* awaited by a busy one; when the clock has just risen no answer is up    *)
(* for a first part, so none of its states is mistaken for the second part *)
(* when the bench samples; and a latched request that the coming subtick   *)
(* will not replace is the one awaited.                                    *)
(***************************************************************************)
Sampling == clock = 1 /\ turn = "subtick" /\ io_reqValid

Stages ==
  /\ reqValid => curr_state = "IDLE" /\ ~stall
  /\ stall <=> curr_state # "IDLE"

FirstPartFresh ==
  /\ clock = 1 /\ turn = "subtick"
  /\ curr_state \in {"WAIT_ONE", "WAIT_MIS_ONE"}
  => ~io_respValid

Latched ==
  InFlight /\ pend # NoRequest /\ ~Sampling => pend = part(op, curr_state = "WAIT_MIS_TWO")

IInv == TypeOK /\ Stages /\ FirstPartFresh /\ Latched

LEMMA InitIInv == Init => IInv
<1> SUFFICES ASSUME Init PROVE IInv
  OBVIOUS
<1> USE DEF Init, LsuReset, PortReset
<1>1. TypeOK
  <2>1. {reqValid, stall, io_reqValid_q, io_respValid} \subseteq BOOLEAN
    BY Zenon
  <2>2. NoData \in Word /\ first_rdata_q \in [1 .. 3 -> Byte]
    BY ByteAssumption DEF NoData, Word
  <2>3. op \in Operands
    BY <2>2, CoreAssumption DEF CoreOps, Operands
  <2> QED  BY <2>1, <2>2, <2>3 DEF TypeOK, LsuState
<1>2. Stages /\ FirstPartFresh /\ Latched
  BY DEF Stages, FirstPartFresh, Latched, InFlight
<1> QED  BY <1>1, <1>2 DEF IInv

LEMMA SubtickIInv == IInv /\ Subtick => IInv'
<1> SUFFICES ASSUME IInv, Subtick PROVE IInv'
  OBVIOUS
<1>0. UNCHANGED <<coreVars, lsuRegs, delays, clock>> /\ turn = "subtick" /\ turn' = "tick"
  BY DEF Subtick
<1> DEFINE s(d) == Sampled(io_reqValid /\ clock = 1, io_request, d)
<1>1. PICK d \in delays : \/ Answer(s(d)) /\ Perform(s(d).pend)
                          \/ NoAnswer(s(d)) /\ UNCHANGED memVars
  BY DEF Subtick
<1>2. io_request \in Request
  BY PartType DEF io_request, IInv, TypeOK, is_second_part
<1>3. s(d).wait \in Nat /\ s(d).pend \in Request \cup {NoRequest}
  BY <1>2, DelaysAssumption DEF Sampled, Down, IInv, TypeOK
<1>4. TypeOK'
  <2>1. mem' \in Memory /\ printed' \in Nat /\ io_rdata' \in Word
    <3>1. CASE Answer(s(d)) /\ Perform(s(d).pend)
      <4>1. s(d).pend \in Request
        BY <1>3, <3>1 DEF Answer
      <4> HIDE DEF s
      <4>2. mem' \in Memory
        BY <3>1, <4>1, WriteType DEF Perform, IInv, TypeOK
      <4>3. printed' \in Nat
        BY <3>1 DEF Perform, IInv, TypeOK
      <4>4. io_rdata' \in v_mem_read(mem', s(d).pend.addr)
        BY <3>1 DEF Perform
      <4> QED  BY <4>1, <4>2, <4>3, <4>4, ReadType
    <3> QED  BY <1>1, <3>1 DEF memVars, IInv, TypeOK
  <2>2. pend' \in Request \cup {NoRequest} /\ waitRespValid' \in Nat
    BY <1>1, <1>3 DEF Answer, NoAnswer
  <2>3. respValid_ticks' \in 0 .. 2
    BY <1>1 DEF Answer, NoAnswer, Down, IInv, TypeOK
  <2>4. io_respValid' \in BOOLEAN
    BY <1>1, Zenon DEF Answer, NoAnswer
  <2> QED  BY <1>0, <2>1, <2>2, <2>3, <2>4 DEF IInv, TypeOK, coreVars, lsuRegs
<1>5. Stages' /\ FirstPartFresh'
  BY <1>0 DEF IInv, Stages, FirstPartFresh, coreVars, lsuRegs
<1>6. Latched'
  <2>1. Sampling => io_request = part(op, curr_state = "WAIT_MIS_TWO")
    <3>1. Sampling => (is_second_part <=> curr_state = "WAIT_MIS_TWO")
      BY DEF Sampling, IInv, FirstPartFresh, is_second_part
    <3>2. is_second_part \in BOOLEAN /\ (curr_state = "WAIT_MIS_TWO") \in BOOLEAN
      BY Zenon DEF is_second_part
    <3> QED  BY <3>1, <3>2, Zenon DEF io_request
  <2>2. InFlight /\ s(d).pend # NoRequest => s(d).pend = part(op, curr_state = "WAIT_MIS_TWO")
    BY <1>0, <2>1 DEF Sampled, Sampling, IInv, Latched
  <2>3. pend' # NoRequest => pend' = s(d).pend
    BY <1>1 DEF Answer, NoAnswer
  <2> HIDE DEF s
  <2> QED  BY <1>0, <2>2, <2>3 DEF Latched, InFlight, coreVars, lsuRegs, part,
             part_addr, part_wdata, part_wmask
<1> QED  BY <1>4, <1>5, <1>6 DEF IInv

LEMMA FallIInv == IInv /\ Fall => IInv'
<1> SUFFICES ASSUME IInv, Fall PROVE IInv'
  OBVIOUS
<1>1. TypeOK'
  BY DEF IInv, TypeOK, Fall, coreVars, memVars, portVars, lsuRegs
<1>2. Stages' /\ FirstPartFresh' /\ Latched'
  BY DEF IInv, Stages, FirstPartFresh, Latched, Sampling, Fall, InFlight, coreVars,
         memVars, portVars, lsuRegs, part, part_addr, part_wdata, part_wmask
<1> QED  BY <1>1, <1>2 DEF IInv

LEMMA RiseIInv == IInv /\ Rise => IInv'
<1> SUFFICES ASSUME IInv, Rise PROVE IInv'
  OBVIOUS
<1>0. /\ UNCHANGED <<mem, io_rdata, portVars>>
      /\ clock = 0 /\ clock' = 1 /\ turn = "tick" /\ turn' = "subtick"
      /\ Edge /\ (CoreQuiet \/ CoreIssue \/ CoreStall \/ CoreRetireStore \/ CoreRetireLoad)
  BY DEF Rise, CoreEdge
<1>1. Stages'
  BY <1>0 DEF IInv, Stages, TypeOK, LsuState, Edge, Idle, Accept, AcceptAnswered, SecondPart,
     Finish, Wait, CoreQuiet, CoreIssue, CoreStall, CoreRetireStore, CoreRetireLoad, coreVars,
     respValid
<1>2. TypeOK'
  <2>1. curr_state' \in LsuState
    BY <1>0 DEF IInv, TypeOK, LsuState, Edge, Idle, Accept, AcceptAnswered, SecondPart,
       Finish, Wait
  <2>2. io_reqValid_q' \in BOOLEAN
    BY <1>0, Zenon DEF Edge, io_reqValid_d
  <2>3. first_rdata_q' \in [1 .. 3 -> Byte]
    BY <1>0 DEF IInv, TypeOK, Edge, Word, Lane
  <2>4. op' \in Operands
    <3>1. CASE CoreIssue
      <4>1. NoData \in Word
        BY ByteAssumption DEF NoData, Word
      <4> QED  BY <3>1, <4>1, CoreAssumption DEF CoreIssue, CoreOps, Operands
    <3>2. CASE CoreRetireLoad
      BY <3>2, CoreAssumption DEF CoreRetireLoad, IInv, TypeOK, Operands
    <3> QED  BY <1>0, <3>1, <3>2 DEF CoreQuiet, CoreStall, CoreRetireStore, coreVars,
                IInv, TypeOK
  <2>5. result' \in Word
    <3>1. NoData \in Word /\ rdata \in Word
      BY ByteAssumption, LoadType DEF NoData, Word, IInv
    <3> QED  BY <1>0, <3>1 DEF CoreQuiet, CoreIssue, CoreStall, CoreRetireStore,
                CoreRetireLoad, coreVars, IInv, TypeOK
  <2>6. reqValid' \in BOOLEAN /\ stall' \in BOOLEAN
    BY <1>0, Zenon DEF CoreQuiet, CoreIssue, CoreStall, CoreRetireStore, CoreRetireLoad,
       coreVars, IInv, TypeOK
  <2>7. printed' \in Nat
    BY <1>0 DEF CoreQuiet, CoreIssue, CoreStall, CoreRetireStore, CoreRetireLoad, IInv, TypeOK
  <2> QED  BY <1>0, <2>1, <2>2, <2>3, <2>4, <2>5, <2>6, <2>7 DEF IInv, TypeOK, portVars
<1>3. FirstPartFresh'
  BY <1>0 DEF FirstPartFresh, Edge, Idle, Accept, AcceptAnswered, SecondPart, Finish, Wait,
     portVars
<1>4. Latched'
  <2> SUFFICES ASSUME InFlight', pend # NoRequest, ~io_reqValid'
               PROVE  pend = part(op, curr_state = "WAIT_MIS_TWO")'
    BY <1>0 DEF Latched, Sampling, portVars
  <2>1. ~io_reqValid_d /\ ~reqValid'
    BY <1>0, <1>1 DEF io_reqValid, io_reqValid_d, Edge, Stages
  <2>2. CoreStall /\ stall /\ ~reqValid /\ ~respValid
    BY <1>0, <2>1 DEF InFlight, CoreQuiet, CoreIssue, CoreStall, CoreRetireStore,
       CoreRetireLoad, coreVars, io_reqValid_d, IInv, Stages
  <2>3. UNCHANGED <<op, curr_state>>
    BY <1>0, <2>1, <2>2 DEF CoreStall, Edge, Idle, Accept, AcceptAnswered, SecondPart, Finish,
       Wait, respValid, io_reqValid_d, IInv, Stages, TypeOK, LsuState
  <2>4. pend = part(op, curr_state = "WAIT_MIS_TWO")
    BY <1>0, <2>2 DEF IInv, Latched, Sampling, InFlight
  <2> QED  BY <2>3, <2>4 DEF part, part_addr, part_wdata, part_wmask
<1> QED  BY <1>1, <1>2, <1>3, <1>4 DEF IInv

-----------------------------------------------------------------------------

LEMMA StutterIInv == IInv /\ UNCHANGED vars => IInv'
<1> SUFFICES ASSUME IInv, UNCHANGED vars PROVE IInv'
  OBVIOUS
<1>1. TypeOK'
  BY DEF IInv, TypeOK, vars, coreVars, memVars, portVars, lsuRegs
<1>2. Stages' /\ FirstPartFresh' /\ Latched'
  BY DEF IInv, Stages, FirstPartFresh, Latched, Sampling, InFlight, io_reqValid,
     io_reqValid_d, part, part_addr, part_wdata, part_wmask, vars, coreVars, memVars,
     portVars, lsuRegs
<1> QED  BY <1>1, <1>2 DEF IInv

LEMMA Invariance == Spec => []IInv
<1>1. IInv /\ [Next]_vars => IInv'
  BY StutterIInv, SubtickIInv, FallIInv, RiseIInv DEF Next
<1> QED  BY <1>1, InitIInv, PTL DEF Spec

(***************************************************************************)
(* The load/store path's variables keep their types: no access, however    *)
(* misaligned, puts a lane mask, a word or an address on the bus or into   *)
(* the memory that is not one.                                             *)
(***************************************************************************)
THEOREM TypeCorrect == Spec => []TypeOK
<1>1. IInv => TypeOK
  BY DEF IInv
<1> QED  BY <1>1, Invariance, PTL

(***************************************************************************)
(* For every delay the bench may draw, 0 and 1 included, the request it    *)
(* answers while an access is in flight is that access's, of the part the  *)
(* LSU awaits.                                                             *)
(***************************************************************************)
THEOREM ServesCurrent == Spec => []LatchedIsCurrent
<1>1. IInv => LatchedIsCurrent
  BY DEF IInv, Latched, LatchedIsCurrent, Sampling
<1> QED  BY <1>1, Invariance, PTL

-----------------------------------------------------------------------------
(***************************************************************************)
(* On a bus that takes two cycles or more.  The count of a latched request *)
(* begins odd, since a request is sampled in the subtick after a rising    *)
(* edge, and so runs out in the subtick before the next one; the LSU sees  *)
(* each answer once and, while the request line is up, none.               *)
(***************************************************************************)
Even == {2 * k : k \in Nat}
Odd  == {2 * k + 1 : k \in Nat}

Fresh == clock = 1 /\ turn = "subtick"
Low   == clock = 0 /\ turn = "tick"

Unasked == ~InFlight => pend = NoRequest

Counted ==
  pend # NoRequest => waitRespValid \in IF Low \/ Fresh THEN Even \ {0} ELSE Odd

AnswerTimely ==
  /\ Low /\ io_respValid => pend = NoRequest /\ curr_state # "IDLE"
  /\ ~Low /\ ~Fresh /\ io_respValid => respValid_ticks <= 1

FirstCycle ==
  reqValid =>
    /\ ~io_respValid
    /\ Fresh => pend = NoRequest
    /\ ~Fresh /\ pend # NoRequest => waitRespValid >= IF Low THEN 2 ELSE 3

AskedAgain == io_reqValid_q => curr_state # "IDLE"

Slow == Unasked /\ Counted /\ AnswerTimely /\ FirstCycle /\ AskedAgain

\* What a store to the transmit register has printed: the character of the
\* access in flight only once its answer is up.
Printing ==
  /\ ~op.is_write => printed = 0
  /\ op.is_write /\ op.addr = UartData
       => printed = IF InFlight /\ ~(Low /\ io_respValid) THEN 0 ELSE 1
  /\ curr_state \in {"WAIT_MIS_ONE", "WAIT_MIS_TWO"} => is_misalign

LEMMA Parity ==
  ASSUME NEW n \in Nat
  PROVE  /\ n \in Odd => n > 0 /\ n - 1 \in Even
         /\ n \in Even \ {0} => n > 1 /\ n - 1 \in Odd
<1>1. ASSUME NEW k \in Nat, n = 2 * k + 1 PROVE n > 0 /\ n - 1 \in Even
  BY <1>1 DEF Even
<1>2. ASSUME NEW k \in Nat, n = 2 * k, n # 0 PROVE n > 1 /\ n - 1 \in Odd
  <2>1. k - 1 \in Nat /\ n - 1 = 2 * (k - 1) + 1
    BY <1>2
  <2> QED  BY <1>2, <2>1 DEF Odd
<1> QED  BY <1>1, <1>2 DEF Even, Odd

LEMMA SlowSubtick ==
  ASSUME SlowBus, IInv, Slow, Subtick
  PROVE  /\ Slow'
         /\ \/ UNCHANGED memVars /\ ~(clock = 0 /\ io_respValid')
            \/ /\ clock = 0 /\ io_respValid'
               /\ InFlight /\ pend # NoRequest /\ Perform(pend)
<1> DEFINE s(d) == Sampled(io_reqValid /\ clock = 1, io_request, d)
<1>1. PICK d \in delays : \/ Answer(s(d)) /\ Perform(s(d).pend)
                          \/ NoAnswer(s(d)) /\ UNCHANGED memVars
  BY DEF Subtick
<1>2. d \in Nat /\ d >= 2 /\ waitRespValid \in Nat /\ respValid_ticks \in 0 .. 2
  BY DelaysAssumption DEF SlowBus, IInv, TypeOK
<1>3. /\ UNCHANGED <<coreVars, lsuRegs>> /\ clock' = clock
      /\ turn = "subtick" /\ turn' = "tick" /\ clock \in {0, 1}
  BY DEF Subtick, IInv, TypeOK
<1>4. 2 * d - 1 \in Odd /\ 2 * d - 1 >= 3 /\ 2 * d > 0
  <2>1. d - 1 \in Nat /\ 2 * d - 1 = 2 * (d - 1) + 1
    BY <1>2
  <2> QED  BY <1>2, <2>1 DEF Odd
\* After a rising edge nothing is answered.
<1>5. CASE clock = 1
  <2>1. io_reqValid => InFlight
    BY DEF io_reqValid, io_reqValid_d, Slow, AskedAgain, IInv, Stages, InFlight
  <2>2. s(d).pend # NoRequest => s(d).wait \in Odd /\ s(d).wait > 0 /\ InFlight
    <3>1. CASE io_reqValid
      BY <1>2, <1>4, <1>5, <2>1, <3>1 DEF Sampled, Down
    <3>2. CASE ~io_reqValid
      BY <1>2, <1>3, <1>5, <3>2, Parity DEF Sampled, Down, Slow, Counted, Fresh, Unasked
    <3> QED  BY <3>1, <3>2
  <2>3. reqValid /\ s(d).pend # NoRequest => s(d).wait >= 3
    BY <1>2, <1>3, <1>4, <1>5 DEF Sampled, Down, Slow, FirstCycle, Fresh, io_reqValid,
       io_reqValid_d, IInv, Stages
  <2> HIDE DEF s
  <2>4. NoAnswer(s(d)) /\ UNCHANGED memVars
    BY <1>1, <2>2 DEF Answer, Odd
  <2>5. pend' = s(d).pend /\ waitRespValid' = s(d).wait /\ (io_respValid' => io_respValid)
    BY <2>4 DEF NoAnswer
  <2>6. respValid_ticks' <= 1
    BY <1>2, <2>4 DEF NoAnswer, Down
  <2> QED  BY <1>3, <1>5, <2>2, <2>3, <2>4, <2>5, <2>6 DEF Slow, Unasked, Counted,
             AnswerTimely, FirstCycle, AskedAgain, Fresh, Low, InFlight, coreVars, lsuRegs, memVars
\* Before one the answer that was up falls, and a new one may come.
<1>6. CASE clock = 0
  <2>1. s(d).pend = pend /\ s(d).wait = Down(waitRespValid)
    BY <1>6 DEF Sampled
  <2>2. pend # NoRequest => /\ InFlight /\ waitRespValid > 0
                            /\ s(d).wait = waitRespValid - 1 /\ s(d).wait \in Even
    BY <1>2, <1>3, <1>6, <2>1, Parity DEF Down, Slow, Counted, Unasked, Fresh, Low
  <2>3. reqValid /\ pend # NoRequest => s(d).wait >= 2
    BY <1>2, <1>3, <1>6, <2>2 DEF Slow, FirstCycle, Fresh, Low
  <2> HIDE DEF s
  <2>4. CASE Answer(s(d)) /\ Perform(s(d).pend)
    <3>1. pend # NoRequest /\ ~reqValid /\ InFlight /\ curr_state # "IDLE"
      BY <2>1, <2>2, <2>3, <2>4 DEF Answer, IInv, Stages, InFlight
    <3> QED  BY <1>3, <1>6, <2>1, <2>4, <3>1 DEF Answer, Slow, Unasked, Counted,
               AnswerTimely, FirstCycle, AskedAgain, Fresh, Low, InFlight, coreVars, lsuRegs
  <2>5. CASE NoAnswer(s(d)) /\ UNCHANGED memVars
    <3>1. ~io_respValid'
      <4>1. io_respValid => respValid_ticks <= 1
        BY <1>3, <1>6 DEF Slow, AnswerTimely, Fresh, Low
      <4>2. respValid_ticks <= 1 => ~(Down(respValid_ticks) > 0)
        BY <1>2 DEF Down
      <4> QED  BY <2>5, <4>1, <4>2, Zenon DEF NoAnswer
    <3>2. pend' = pend /\ waitRespValid' = s(d).wait /\ (pend # NoRequest => s(d).wait # 0)
      BY <2>1, <2>2, <2>5 DEF NoAnswer, Even
    <3> QED  BY <1>3, <1>6, <2>2, <2>3, <2>5, <3>1, <3>2 DEF Slow, Unasked, Counted,
               AnswerTimely, FirstCycle, AskedAgain, Fresh, Low, InFlight, coreVars, lsuRegs,
               memVars
  <2> QED  BY <1>1, <2>4, <2>5
<1> QED  BY <1>3, <1>5, <1>6

LEMMA SlowFall == IInv /\ Slow /\ Fall => Slow'
<1> SUFFICES ASSUME IInv, Slow, Fall PROVE Slow'
  OBVIOUS
<1> QED  BY DEF Slow, Unasked, Counted, AnswerTimely, FirstCycle, AskedAgain, Fresh,
            Low, InFlight, Fall, coreVars, memVars, portVars, lsuRegs

LEMMA SlowRise ==
  ASSUME IInv, Slow, Rise
  PROVE  Slow'
<1>1. /\ UNCHANGED <<mem, io_rdata, portVars>>
      /\ clock = 0 /\ clock' = 1 /\ turn = "tick" /\ turn' = "subtick"
      /\ Edge /\ (CoreQuiet \/ CoreIssue \/ CoreStall \/ CoreRetireStore \/ CoreRetireLoad)
  BY DEF Rise, CoreEdge
<1>2. Unasked'
  BY <1>1 DEF Slow, Unasked, AnswerTimely, Low, InFlight, CoreQuiet, CoreIssue,
     CoreStall, CoreRetireStore, CoreRetireLoad, respValid, portVars, coreVars
<1>3. Counted' /\ AnswerTimely'
  BY <1>1 DEF Slow, Counted, AnswerTimely, Fresh, Low, portVars
<1>4. reqValid' => ~io_respValid' /\ pend' = NoRequest
  <2>1. reqValid' => ~reqValid /\ ~stall
    BY <1>1 DEF CoreQuiet, CoreIssue, CoreStall, CoreRetireStore, CoreRetireLoad, coreVars
  <2> QED  BY <1>1, <2>1 DEF Slow, Unasked, AnswerTimely, Low, InFlight, IInv, Stages,
             portVars
<1>5. AskedAgain'
  BY <1>1 DEF Slow, FirstCycle, AskedAgain, Edge, Idle, Accept, AcceptAnswered, SecondPart,
     Finish, Wait, io_reqValid_d
<1> QED  BY <1>1, <1>2, <1>3, <1>4, <1>5 DEF Slow, FirstCycle, Fresh

LEMMA PrintingSubtick ==
  ASSUME SlowBus, IInv, Slow, Printing, Subtick
  PROVE  Printing'
<1>1. /\ UNCHANGED <<coreVars, lsuRegs>> /\ clock' = clock
      /\ turn = "subtick" /\ turn' = "tick"
  BY DEF Subtick
<1>2. curr_state' = curr_state /\ op' = op /\ (is_misalign' <=> is_misalign)
  BY <1>1 DEF is_misalign, Misaligned, coreVars, lsuRegs
<1>3. CASE UNCHANGED memVars /\ ~(clock = 0 /\ io_respValid')
  BY <1>1, <1>2, <1>3 DEF Printing, Low, InFlight, memVars, coreVars
<1>4. CASE clock = 0 /\ io_respValid' /\ InFlight /\ pend # NoRequest /\ Perform(pend)
  <2>1. pend = part(op, curr_state = "WAIT_MIS_TWO")
    BY <1>4 DEF IInv, Latched, Sampling
  <2>2. pend.wen = op.is_write /\ pend.addr = part_addr(op, curr_state = "WAIT_MIS_TWO")
    BY <2>1 DEF part
  <2>3. ~op.is_write => printed' = printed
    BY <1>4, <2>2 DEF Perform
  <2>4. op.is_write /\ op.addr = UartData => printed' = 1
    <3> SUFFICES ASSUME op.is_write, op.addr = UartData PROVE printed' = 1
      OBVIOUS
    <3>1. curr_state # "WAIT_MIS_TWO"
      BY DEF Printing, is_misalign, Misaligned, UartData, LSU_HALF, LSU_WORD
    <3>2. pend.addr = UartData
      BY <2>2, <3>1 DEF part_addr
    <3>3. Prints(UartData)
      BY MapAssumption DEF Prints, InUart, InRegion, UartData, WordNo
    <3>4. printed = 0
      BY <1>1, <1>4 DEF Printing, Low
    <3> QED  BY <1>4, <2>2, <3>2, <3>3, <3>4 DEF Perform
  <2> QED  BY <1>1, <1>2, <1>4, <2>3, <2>4 DEF Printing, Low
<1> QED  BY <1>3, <1>4, SlowSubtick

LEMMA PrintingRise ==
  ASSUME IInv, Slow, Printing, Rise
  PROVE  Printing'
<1>1. /\ UNCHANGED <<mem, io_rdata, portVars>>
      /\ clock = 0 /\ clock' = 1 /\ turn = "tick" /\ turn' = "subtick"
      /\ Edge /\ (CoreQuiet \/ CoreIssue \/ CoreStall \/ CoreRetireStore \/ CoreRetireLoad)
  BY DEF Rise, CoreEdge
<1>2. op.addr = UartData => ~is_misalign
  BY DEF is_misalign, Misaligned, UartData, LSU_HALF, LSU_WORD
<1>3. io_respValid /\ ~respValid /\ InFlight => curr_state = "WAIT_MIS_ONE"
  BY <1>1 DEF respValid, Slow, AnswerTimely, Low, IInv, TypeOK, LsuState
<1>4. /\ ~op'.is_write => printed' = 0
      /\ op'.is_write /\ op'.addr = UartData => printed' = IF InFlight' THEN 0 ELSE 1
  <2>1. CASE CoreQuiet
    BY <2>1 DEF CoreQuiet, Printing, InFlight, coreVars
  <2>2. CASE CoreIssue
    BY <2>2 DEF CoreIssue, InFlight
  <2>3. CASE CoreStall
    <3>1. op.addr = UartData => ~io_respValid
      BY <1>2, <1>3, <2>3 DEF CoreStall, InFlight, Printing
    <3> QED  BY <2>3, <3>1 DEF CoreStall, InFlight, Printing
  <2>4. CASE CoreRetireStore
    BY <1>1, <2>4 DEF CoreRetireStore, InFlight, Printing, Low, respValid
  <2>5. CASE CoreRetireLoad
    <3>1. op'.is_write = op.is_write
      BY <2>5 DEF CoreRetireLoad, IInv, TypeOK, Operands
    <3> QED  BY <2>5, <3>1 DEF CoreRetireLoad, Printing
  <2> QED  BY <1>1, <2>1, <2>2, <2>3, <2>4, <2>5
<1>5. curr_state' \in {"WAIT_MIS_ONE", "WAIT_MIS_TWO"} => is_misalign'
  <2> SUFFICES ASSUME curr_state' \in {"WAIT_MIS_ONE", "WAIT_MIS_TWO"} PROVE is_misalign'
    OBVIOUS
  <2>1. InFlight /\ is_misalign /\ ~respValid
    BY <1>1 DEF Edge, Idle, Accept, AcceptAnswered, SecondPart, Finish, Wait, InFlight,
       Printing, respValid, IInv, Stages
  <2>2. CoreStall
    BY <1>1, <2>1 DEF CoreQuiet, CoreIssue, CoreRetireStore, CoreRetireLoad, InFlight
  <2> QED  BY <2>1, <2>2 DEF CoreStall, is_misalign, Misaligned
<1> QED  BY <1>1, <1>4, <1>5 DEF Printing, Low

LEMMA SlowInvariance == Spec => [](SlowBus => Slow /\ Printing)
<1> DEFINE SInv == IInv /\ (SlowBus => Slow /\ Printing)
<1>1. Init => SInv
  <2> SUFFICES ASSUME Init PROVE Slow /\ Printing
    BY InitIInv
  <2>1. Slow
    BY DEF Init, LsuReset, PortReset, Slow, Unasked, Counted, AnswerTimely, FirstCycle,
       AskedAgain
  <2>2. Printing
    BY DEF Init, LsuReset, Printing
  <2> QED  BY <2>1, <2>2
<1>2. SInv /\ [Next]_vars => SInv'
  <2> SUFFICES ASSUME SInv, [Next]_vars PROVE SInv'
    OBVIOUS
  <2>0. SlowBus' <=> SlowBus
    BY DEF Next, Subtick, Fall, Rise, SlowBus, vars, portVars
  <2>s. CASE ~SlowBus
    BY <2>0, <2>s, StutterIInv, SubtickIInv, FallIInv, RiseIInv DEF Next
  <2> SUFFICES ASSUME SlowBus PROVE SInv'
    BY <2>s
  <2>1. CASE Subtick
    BY <2>1, SubtickIInv, SlowSubtick, PrintingSubtick
  <2>2. CASE Fall
    <3>1. Printing'
      BY <2>2 DEF Fall, Printing, Low, InFlight, is_misalign, Misaligned, coreVars, memVars,
         portVars, lsuRegs
    <3> QED  BY <2>2, <3>1, FallIInv, SlowFall
  <2>3. CASE Rise
    BY <2>3, RiseIInv, SlowRise, PrintingRise
  <2>4. CASE UNCHANGED vars
    <3>1. Slow'
      BY <2>4 DEF Slow, Unasked, Counted, AnswerTimely, FirstCycle, AskedAgain, Fresh,
         Low, InFlight, vars, coreVars, memVars, portVars, lsuRegs
    <3>2. Printing'
      BY <2>4 DEF Printing, Low, InFlight, is_misalign, Misaligned, vars, coreVars, memVars,
         portVars, lsuRegs
    <3> QED  BY <2>4, <3>1, <3>2, StutterIInv
  <2> QED  BY <2>1, <2>2, <2>3, <2>4 DEF Next
<1> QED  BY <1>1, <1>2, PTL DEF Spec

(***************************************************************************)
(* On a bus that takes two cycles or more, whatever the delays, no request *)
(* outlives its access (lsu.sv:149, soc_main.cpp:736-750).                 *)
(***************************************************************************)
THEOREM NoneOrphaned == Spec => []NoOrphanRequest
<1>1. (SlowBus => Slow /\ Printing) => NoOrphanRequest
  BY DEF Slow, Unasked, NoOrphanRequest
<1> QED  BY <1>1, SlowInvariance, PTL

(***************************************************************************)
(* On such a bus a store to the UART prints its character once, and a load *)
(* prints none, wherever the address map puts the UART.                    *)
(***************************************************************************)
THEOREM PrintsOnce == Spec => []PrintedOnce
<1>1. (SlowBus => Slow /\ Printing) => PrintedOnce
  BY DEF Printing, PrintedOnce
<1> QED  BY <1>1, SlowInvariance, PTL

-----------------------------------------------------------------------------
(***************************************************************************)
(* The load/store unit and the bench's bus implement the golden memory.    *)
(* First, stores: what a part writes, byte by byte.  A part written again  *)
(* changes nothing and the parts may be written in either order, which is  *)
(* why a request the unit repeats, or leaves behind, does no harm.         *)
(***************************************************************************)

LEMMA NextWord ==
  ASSUME NEW w \in WordNo
  PROVE  (w + 1) % NWords = IF w + 1 < NWords THEN w + 1 ELSE 0
<1>1. NWords \in Nat \ {0}
  BY MapAssumption
<1>2. CASE w + 1 < NWords
  BY <1>1, <1>2 DEF WordNo
<1>3. CASE ~(w + 1 < NWords)
  <2>1. w + 1 = NWords
    BY <1>1, <1>3 DEF WordNo
  <2> QED  BY <1>1, <2>1
<1> QED  BY <1>2, <1>3

LEMMA InStored ==
  ASSUME NEW a \in Address, InRam(a) \/ InFlash(a)
  PROVE  a.word \in Stored
BY MapAssumption
DEF InRam, InFlash, InRegion, Stored, RamWords, FlashWords, Address, WordNo

\* Which bytes a write leaves behind.
LEMMA Written ==
  ASSUME NEW m \in Memory, NEW a \in Address, NEW mask, NEW data, NEW w \in Stored, NEW l \in Lane
  PROVE  v_mem_write(m, a, mask, data)[w][l] =
           IF InRam(a) /\ w = a.word /\ l \in mask THEN data[l] ELSE m[w][l]
<1>1. CASE InRam(a)
  <2>1. a.word \in Stored
    BY <1>1, InStored
  <2>2. DOMAIN m = Stored
    BY DEF Memory
  <2> QED  BY <1>1, <2>1, <2>2 DEF v_mem_write
<1>2. CASE ~InRam(a)
  BY <1>2 DEF v_mem_write
<1> QED  BY <1>1, <1>2

\* Memories that agree on every byte are equal.
LEMMA SameMemory ==
  ASSUME NEW m1 \in Memory, NEW m2 \in Memory,
         \A w \in Stored, l \in Lane : m1[w][l] = m2[w][l]
  PROVE  m1 = m2
<1>1. \A w \in Stored : m1[w] = m2[w]
  <2> SUFFICES ASSUME NEW w \in Stored PROVE m1[w] = m2[w]
    OBVIOUS
  <2>1. m1[w] \in [Lane -> Byte] /\ m2[w] \in [Lane -> Byte]
    BY DEF Memory, Word
  <2> QED  BY <2>1
<1> QED  BY <1>1 DEF Memory

LEMMA PartWrittenType ==
  ASSUME op \in Operands, NEW m \in Memory, NEW second \in BOOLEAN
  PROVE  PartWritten(m, second) \in Memory
BY PartType, WriteType DEF PartWritten

LEMMA PartBytes ==
  ASSUME op \in Operands, NEW m \in Memory, NEW second \in BOOLEAN, NEW w \in Stored, NEW l \in Lane
  PROVE  PartWritten(m, second)[w][l] =
           IF InRam(part_addr(op, second)) /\ w = part_addr(op, second).word
                /\ l \in part_wmask(op, second)
           THEN part_wdata(op)[l] ELSE m[w][l]
<1>1. part_addr(op, second) \in Address
  BY PartType DEF part, Request
<1> QED  BY <1>1, Written DEF PartWritten, part

LEMMA PartsApart ==
  ASSUME op \in Operands
  PROVE  part_addr(op, TRUE).word # part_addr(op, FALSE).word
<1>1. op.addr.word \in WordNo /\ NWords > 1
  BY MapAssumption DEF Operands, Address, WordNo
<1> QED  BY <1>1, NextWord DEF part_addr, WordNo

\* Writing a part again changes nothing, and the parts can be written in
\* either order.
LEMMA PartAgain ==
  ASSUME op \in Operands, NEW m \in Memory, NEW second \in BOOLEAN
  PROVE  PartWritten(PartWritten(m, second), second) = PartWritten(m, second)
<1> DEFINE m1 == PartWritten(m, second)
           m2 == PartWritten(m1, second)
<1>1. m1 \in Memory
  BY PartWrittenType
<1> HIDE DEF m1
<1>2. m2 \in Memory
  BY <1>1, PartWrittenType
<1>3. \A w \in Stored, l \in Lane : m2[w][l] = m1[w][l]
  <2> TAKE w \in Stored, l \in Lane
  <2>1. m2[w][l] = IF InRam(part_addr(op, second)) /\ w = part_addr(op, second).word
                       /\ l \in part_wmask(op, second) THEN part_wdata(op)[l] ELSE m1[w][l]
    BY <1>1, PartBytes
  <2>2. m1[w][l] = IF InRam(part_addr(op, second)) /\ w = part_addr(op, second).word
                       /\ l \in part_wmask(op, second) THEN part_wdata(op)[l] ELSE m[w][l]
    BY PartBytes DEF m1
  <2> QED  BY <2>1, <2>2
<1> HIDE DEF m2
<1>4. m2 = m1
  BY <1>1, <1>2, <1>3, SameMemory
<1> QED  BY <1>4 DEF m1, m2

LEMMA PartsCommute ==
  ASSUME op \in Operands, NEW m \in Memory
  PROVE  PartWritten(PartWritten(m, TRUE), FALSE) = PartWritten(PartWritten(m, FALSE), TRUE)
<1> DEFINE t  == PartWritten(m, TRUE)
           f  == PartWritten(m, FALSE)
           tf == PartWritten(t, FALSE)
           ft == PartWritten(f, TRUE)
<1>1. t \in Memory /\ f \in Memory
  BY PartWrittenType
<1> HIDE DEF t, f
<1>2. tf \in Memory /\ ft \in Memory
  BY <1>1, PartWrittenType
<1>3. \A w \in Stored, l \in Lane : tf[w][l] = ft[w][l]
  <2> TAKE w \in Stored, l \in Lane
  <2> DEFINE In(s) == InRam(part_addr(op, s)) /\ w = part_addr(op, s).word /\ l \in part_wmask(op, s)
  <2>1. tf[w][l] = IF In(FALSE) THEN part_wdata(op)[l] ELSE t[w][l]
    BY <1>1, PartBytes
  <2>2. ft[w][l] = IF In(TRUE) THEN part_wdata(op)[l] ELSE f[w][l]
    BY <1>1, PartBytes
  <2>3. /\ t[w][l] = IF In(TRUE) THEN part_wdata(op)[l] ELSE m[w][l]
        /\ f[w][l] = IF In(FALSE) THEN part_wdata(op)[l] ELSE m[w][l]
    BY PartBytes DEF t, f
  <2> QED  BY <2>1, <2>2, <2>3
<1> HIDE DEF tf, ft
<1>4. tf = ft
  BY <1>2, <1>3, SameMemory
<1> QED  BY <1>4 DEF t, f, tf, ft

-----------------------------------------------------------------------------
(***************************************************************************)
(* Both parts of a store write what the golden model's g_mem_write writes. *)
(***************************************************************************)

\* The golden memory's operators on the same map.
LEMMA SameMap ==
  /\ Gold!Lane = Lane /\ Gold!Stored = Stored /\ Gold!RamWords = RamWords
  /\ Gold!Word = Word /\ Gold!Memory = Memory
  /\ \A a : (Gold!InRam(a) <=> InRam(a)) /\ (Gold!InFlash(a) <=> InFlash(a))
BY DEF Gold!Lane, Lane, Gold!Stored, Stored, Gold!RamWords, RamWords, Gold!FlashWords, FlashWords,
  Gold!Word, Word, Gold!Memory, Memory, Gold!InRam, InRam, Gold!InFlash, InFlash, Gold!InRegion, InRegion

\* The whole of a store.
Whole(m) == IF is_misalign THEN PartWritten(PartWritten(m, FALSE), TRUE) ELSE PartWritten(m, FALSE)

LEMMA WholeType ==
  ASSUME op \in Operands, NEW m \in Memory
  PROVE  Whole(m) \in Memory
BY PartWrittenType DEF Whole

LEMMA Offset == 
  ASSUME NEW off \in Lane, NEW l \in Lane
  PROVE  (l + 4 - off) % 4 = IF off <= l THEN l - off ELSE l + 4 - off
BY DEF Lane

\* The byte i of the data goes to lane l of word w.
LEMMA Distances ==
  ASSUME NEW w \in Int, NEW aw \in Int, NEW off \in Lane, NEW l \in Lane
  PROVE  LET i == 4 * (w - aw) + l - off IN
         /\ w = aw => i = l - off
         /\ w = aw + 1 => i = 4 + l - off
         /\ w # aw /\ w # aw + 1 => i < 0 \/ i > 4
BY DEF Lane

LEMMA WDataBytes ==
  ASSUME op \in Operands, NEW l \in Lane
  PROVE  part_wdata(op)[l] =
           op.wdata[IF op.addr.off <= l THEN l - op.addr.off ELSE l + 4 - op.addr.off]
<1>1. op.addr.off \in Lane
  BY DEF Operands, Address
<1>2. (l + 4 - op.addr.off) % 4 = IF op.addr.off <= l THEN l - op.addr.off ELSE l + 4 - op.addr.off
  BY <1>1, Offset
<1>3. part_wdata(op)[l] = op.wdata[(l + 4 - op.addr.off) % 4]
  BY DEF part_wdata
<1> QED  BY <1>2, <1>3

LEMMA WholeBytes ==
  ASSUME op \in Operands, op.is_write, InRam(op.addr), NEW m \in Memory,
         NEW w \in Stored, NEW l \in Lane
  PROVE  LET i == 4 * (w - op.addr.word) + l - op.addr.off IN
         Whole(m)[w][l] = IF w \in RamWords /\ 0 <= i /\ i < Gold!Size(op)
                          THEN op.wdata[i] ELSE m[w][l]
<1>0. /\ op.addr.word \in Int /\ op.addr.off \in Lane /\ w \in Int
      /\ op.data_size \in {0, 1, 2} /\ Gold!Size(op) \in {1, 2, 4}
      /\ RamLo \in Int /\ RamHi \in Int
  BY MapAssumption DEF Operands, Address, Stored, RamWords, FlashWords, WordNo, LSU_BYTE,
     LSU_HALF, LSU_WORD, Gold!Size
<1>a. PICK aw \in Int : aw = op.addr.word
  BY <1>0
<1>o. PICK off \in Lane : off = op.addr.off
  BY <1>0
<1>n. PICK n \in {1, 2, 4} : n = Gold!Size(op)
  BY <1>0
<1>i. PICK i \in Int : i = 4 * (w - aw) + l - off
  BY <1>0 DEF Lane
<1>w. PICK wdata : wdata = op.wdata
  OBVIOUS
<1> SUFFICES Whole(m)[w][l] = IF w \in RamWords /\ 0 <= i /\ i < n THEN wdata[i] ELSE m[w][l]
  BY <1>a, <1>o, <1>n, <1>i, <1>w
<1>1. /\ w = aw => i = l - off
      /\ w = aw + 1 => i = 4 + l - off
      /\ w # aw /\ w # aw + 1 => i < 0 \/ i > 4
      /\ l \in 0 .. 3 /\ off \in 0 .. 3
  BY <1>0, <1>i, Distances DEF Lane
<1>2. PICK pw : pw = part_wdata(op)[l]
  OBVIOUS
<1>3. pw = wdata[IF off <= l THEN l - off ELSE l + 4 - off]
  BY <1>2, <1>o, <1>w, WDataBytes
<1>4. PICK f : f = PartWritten(m, FALSE)[w][l]
  OBVIOUS
<1>5. f = IF w = aw /\ off <= l /\ l < off + n THEN wdata[l - off] ELSE m[w][l]
  <2>1. l \in part_wmask(op, FALSE) <=> off <= l /\ l < off + n
    BY <1>0, <1>1, <1>n, <1>o DEF part_wmask, Gold!Size, LSU_BYTE, LSU_HALF, LSU_WORD, Lane
  <2>2. f = IF InRam(part_addr(op, FALSE)) /\ w = part_addr(op, FALSE).word
                 /\ l \in part_wmask(op, FALSE)
            THEN pw ELSE m[w][l]
    <3>1. PartWritten(m, FALSE)[w][l] =
            IF InRam(part_addr(op, FALSE)) /\ w = part_addr(op, FALSE).word
                 /\ l \in part_wmask(op, FALSE)
            THEN part_wdata(op)[l] ELSE m[w][l]
      BY PartBytes
    <3> QED  BY <3>1, <1>2, <1>4, Zenon
  <2>3. InRam(part_addr(op, FALSE)) /\ part_addr(op, FALSE).word = aw
    BY <1>a DEF part_addr
  <2> QED  BY <1>3, <2>1, <2>2, <2>3
<1>6. RamLo <= aw /\ aw <= RamHi /\ (off # 0 => aw + 1 <= RamHi)
  BY <1>0, <1>a, <1>o, <1>1 DEF InRam, InRegion
<1>7. w \in RamWords <=> RamLo <= w /\ w <= RamHi
  BY <1>0 DEF RamWords
<1>8. CASE is_misalign
  <2>1. off # 0 /\ n \in {2, 4} /\ (n = 2 => off = 3)
    BY <1>0, <1>1, <1>8, <1>n, <1>o DEF is_misalign, Misaligned, LSU_HALF, LSU_WORD, Gold!Size
  <2>2. /\ part_addr(op, TRUE) = [word |-> aw + 1, off |-> 0]
        /\ part_addr(op, TRUE).word = aw + 1
    <3>1. aw \in WordNo /\ aw + 1 < NWords
      BY <1>0, <1>6, <2>1, MapAssumption DEF WordNo
    <3>2. (aw + 1) % NWords = aw + 1
      BY <3>1, NextWord
    <3> QED  BY <1>a, <3>2 DEF part_addr
  <2>3. InRam(part_addr(op, TRUE))
    <3>1. RamLo <= aw + 1 /\ aw + 1 <= RamHi
      BY <1>0, <1>6, <2>1
    <3>2. InRam([word |-> aw + 1, off |-> 0])
      BY <1>0, <3>1 DEF InRam, InRegion
    <3> QED  BY <2>2, <3>2
  <2>4. l \in part_wmask(op, TRUE) <=> 4 + l - off < n
    BY <1>0, <1>1, <2>1, <1>n, <1>o DEF part_wmask, Gold!Size, LSU_BYTE, LSU_HALF, LSU_WORD, Lane
  <2>5. Whole(m) = PartWritten(PartWritten(m, FALSE), TRUE)
    BY <1>8 DEF Whole
  <2>6. PartWritten(m, FALSE) \in Memory
    BY PartWrittenType
  <2>7. Whole(m)[w][l] =
          IF InRam(part_addr(op, TRUE)) /\ w = part_addr(op, TRUE).word /\ l \in part_wmask(op, TRUE)
          THEN pw ELSE f
    <3>1. PICK m1 \in Memory : m1 = PartWritten(m, FALSE)
      BY <2>6
    <3>2. PartWritten(m1, TRUE)[w][l] =
            IF InRam(part_addr(op, TRUE)) /\ w = part_addr(op, TRUE).word /\ l \in part_wmask(op, TRUE)
            THEN part_wdata(op)[l] ELSE m1[w][l]
      BY PartBytes
    <3>3. Whole(m)[w][l] = PartWritten(m1, TRUE)[w][l] /\ m1[w][l] = f
      BY <2>5, <3>1, <1>4
    <3>4. m1[w][l] = f
      BY <3>3
    <3>5. Whole(m)[w][l] = PartWritten(m1, TRUE)[w][l]
      BY <3>3
    <3> HIDE DEF Whole
    <3> QED  BY <3>2, <3>4, <3>5, <1>2
  <2>8. Whole(m)[w][l] = IF w = aw + 1 /\ 4 + l - off < n THEN pw ELSE f
    <3> QED  BY <2>2, <2>3, <2>4, <2>7, Zenon
  <2> QED  BY <1>0, <1>1, <1>3, <1>5, <1>6, <1>7, <2>1, <2>8
<1>9. CASE ~is_misalign
  <2>1. off + n <= 4
    BY <1>0, <1>1, <1>9, <1>n, <1>o DEF Gold!Size, is_misalign, Misaligned, LSU_HALF, LSU_WORD
  <2>2. Whole(m)[w][l] = f
    BY <1>4, <1>9 DEF Whole
  <2> QED  BY <1>0, <1>1, <1>5, <1>6, <1>7, <2>1, <2>2
<1> QED  BY <1>8, <1>9

LEMMA WholeIsGold ==
  ASSUME op \in Operands, op.is_write, InRam(op.addr), NEW m \in Memory
  PROVE  Whole(m) = Gold!g_mem_write(m, op.addr, Gold!Size(op), op.wdata)
<1> DEFINE g == Gold!g_mem_write(m, op.addr, Gold!Size(op), op.wdata)
           i(w, l) == 4 * (w - op.addr.word) + l - op.addr.off
<1>1. g = [w \in Stored |-> [l \in Lane |->
             IF w \in RamWords /\ 0 <= i(w, l) /\ i(w, l) < Gold!Size(op)
             THEN op.wdata[i(w, l)] ELSE m[w][l]]]
  BY SameMap DEF Gold!g_mem_write, Gold!Distance
<1>2. \A w \in Stored, l \in Lane : Whole(m)[w][l] = g[w][l]
  BY <1>1, WholeBytes
<1>3. g = [w \in Stored |-> [l \in Lane |-> Whole(m)[w][l]]]
  BY <1>1, WholeBytes
<1>4. Whole(m) \in [Stored -> [Lane -> Byte]]
  BY WholeType DEF Memory, Word
<1> HIDE DEF g, Whole
<1>5. \A w \in Stored : Whole(m)[w] = [l \in Lane |-> Whole(m)[w][l]]
  BY <1>4
<1> QED  BY <1>3, <1>4, <1>5 DEF g

\* Where the golden model has no memory a store may still change bytes it names.
LEMMA WholeNamed ==
  ASSUME op \in Operands, op.is_write, ~InRam(op.addr), NEW m \in Memory,
         NEW w \in Stored, NEW l \in Lane
  PROVE  Whole(m)[w][l] = m[w][l] \/ (w \in RamWords /\ Gold!Named(op, w, l))
<1> DEFINE a == op.addr
<1>0. a \in Address /\ a.word \in WordNo /\ a.off \in Lane /\ op.data_size \in {0, 1, 2}
  BY DEF Operands, Address, LSU_BYTE, LSU_HALF, LSU_WORD
<1>1. PartWritten(m, FALSE)[w][l] = m[w][l]
  BY PartBytes DEF part_addr
<1>2. CASE ~is_misalign
  BY <1>1, <1>2 DEF Whole
<1>3. CASE is_misalign
  <2> DEFINE b == part_addr(op, TRUE)
  <2>1. Whole(m)[w][l] = IF InRam(b) /\ w = b.word /\ l \in part_wmask(op, TRUE)
                         THEN part_wdata(op)[l] ELSE PartWritten(m, FALSE)[w][l]
    BY <1>3, PartBytes, PartWrittenType DEF Whole
  <2>2. CASE InRam(b) /\ w = b.word /\ l \in part_wmask(op, TRUE)
    <3>1. w \in RamWords
      BY <2>2, MapAssumption, NextWord, <1>0 DEF part_addr, InRam, InRegion, RamWords, WordNo
    <3>2. 4 + l - a.off \in 0 .. Gold!Size(op) - 1 /\ l < a.off
      BY <1>0, <1>3, <2>2
      DEF part_wmask, is_misalign, Misaligned, Gold!Size, LSU_BYTE, LSU_HALF, LSU_WORD, Lane
    <3>3. (a.off + (4 + l - a.off)) \div 4 = 1 /\ (a.off + (4 + l - a.off)) % 4 = l
      BY <1>0 DEF Lane
    <3>4. Gold!Plus(a, 4 + l - a.off) = [word |-> w, off |-> l]
      BY <2>2, <3>3 DEF Gold!Plus, part_addr
    <3> QED  BY <3>1, <3>2, <3>4 DEF Gold!Named
  <2>3. CASE ~(InRam(b) /\ w = b.word /\ l \in part_wmask(op, TRUE))
    BY <1>1, <2>1, <2>3
  <2> QED  BY <2>2, <2>3
<1> QED  BY <1>2, <1>3

-----------------------------------------------------------------------------
(***************************************************************************)
(* Loads: the lanes lsu.sv puts together from the kept word of the first   *)
(* part and the word on the bus are the bytes g_mem_read returns.          *)
(***************************************************************************)

Mapped(a) == InRam(a) \/ InFlash(a)

\* The bytes an access to memory names: those of its word up to the last
\* lane, and then those of the next, which is mapped too.
Source(m, l) ==
  LET k == op.addr.off + l IN
  IF k < 4 THEN m[op.addr.word][k] ELSE m[op.addr.word + 1][k - 4]

LEMMA NextMapped ==
  ASSUME op \in Operands, Mapped(op.addr), op.addr.off # 0
  PROVE  /\ op.addr.word + 1 \in WordNo
         /\ (op.addr.word + 1) % NWords = op.addr.word + 1
         /\ Mapped([word |-> op.addr.word + 1, off |-> 0])
<1>0. op.addr.word \in WordNo /\ op.addr.off \in Lane /\ NWords \in Nat
      /\ {RamLo, RamHi, FlashLo, FlashHi} \subseteq WordNo
  BY MapAssumption DEF Operands, Address
<1>a. PICK aw \in WordNo : aw = op.addr.word
  BY <1>0
<1>1. \/ RamLo <= aw /\ aw < RamHi
      \/ FlashLo <= aw /\ aw < FlashHi
  BY <1>0, <1>a DEF Mapped, InRam, InFlash, InRegion
<1>2. aw + 1 \in WordNo /\ aw + 1 < NWords
  BY <1>0, <1>1 DEF WordNo
<1>3. (aw + 1) % NWords = aw + 1
  BY <1>2, NextWord
<1>4. InRegion([word |-> aw + 1, off |-> 0], RamLo, RamHi)
      \/ InRegion([word |-> aw + 1, off |-> 0], FlashLo, FlashHi)
  BY <1>0, <1>1 DEF InRegion, WordNo
<1> QED  BY <1>a, <1>2, <1>3, <1>4 DEF Mapped, InRam, InFlash

LEMMA LaneBytes ==
  ASSUME NEW l \in Lane, NEW off \in Lane, off = op.addr.off,
         NEW k \in Int, k = off + l, NEW j \in Int, j = k - 4
  PROVE  align_rdata[l] = IF off = 0 THEN io_rdata[l]
                          ELSE IF k < 4 THEN first_rdata[k] ELSE io_rdata[j]
<1>1. align_rdata[l] =
     LET q == l + off IN
     IF off = 0 THEN io_rdata[l]
     ELSE IF q < 4 THEN first_rdata[q] ELSE io_rdata[q - 4]
  BY DEF align_rdata, Lane
<1>2. l + off = k /\ k - 4 = j
  BY DEF Lane
<1> QED  BY <1>1, <1>2, Zenon
LEMMA SourceBytes ==
  ASSUME NEW m, NEW l \in Lane, NEW aw \in WordNo, NEW off \in Lane,
         aw = op.addr.word, off = op.addr.off,
         NEW k \in Int, k = off + l, NEW j \in Int, j = k - 4
  PROVE  Source(m, l) = IF k < 4 THEN m[aw][k] ELSE m[aw + 1][j]
<1>1. Source(m, l) =
  LET q == off + l IN
  IF q < 4 THEN m[aw][q] ELSE m[aw + 1][q - 4]
  BY DEF Source, Lane, WordNo
<1> QED  BY <1>1, Zenon
LEMMA GoldBytes ==
  ASSUME op \in Operands, Mapped(op.addr), NEW m, NEW l \in Lane, l < Gold!Size(op)
  PROVE  Gold!g_mem_read(m, op.addr)[l] = Source(m, l)
<1>0. op.addr.word \in WordNo /\ op.addr.off \in Lane
  BY DEF Operands, Address
<1>a. PICK aw \in WordNo : aw = op.addr.word
  BY <1>0
<1>o. PICK off \in Lane : off = op.addr.off
  BY <1>0
<1>k. PICK k \in Int : k = off + l
  BY DEF Lane
<1>j. PICK j \in Int : j = k - 4
  OBVIOUS
<1>1. Gold!g_mem_read(m, op.addr)[l] = m[(aw + k \div 4) % NWords][k % 4]
  BY <1>a, <1>o, <1>k, SameMap DEF Gold!g_mem_read, Gold!Plus
<1>2. Source(m, l) = IF k < 4 THEN m[aw][k] ELSE m[aw + 1][j]
  BY <1>a, <1>o, <1>k, <1>j, SourceBytes
<1>3. CASE k < 4
  <2>1. k \div 4 = 0 /\ k % 4 = k
    BY <1>k, <1>3 DEF Lane
  <2>2. (aw + 0) % NWords = aw
    BY MapAssumption DEF WordNo
  <2>3. Gold!g_mem_read(m, op.addr)[l] = m[aw][k]
    BY <1>1, <2>1, <2>2, Zenon
  <2> QED  BY <1>2, <1>3, <2>3, Zenon
<1>4. CASE ~(k < 4)
  <2>1. k \div 4 = 1 /\ k % 4 = j /\ off # 0
    BY <1>k, <1>j, <1>4 DEF Lane
  <2>2. (aw + 1) % NWords = aw + 1
    BY <1>a, <1>o, <2>1, NextMapped
  <2>3. Gold!g_mem_read(m, op.addr)[l] = m[aw + 1][j]
    BY <1>1, <2>1, <2>2, Zenon
  <2> QED  BY <1>2, <1>4, <2>3, Zenon
<1> QED  BY <1>3, <1>4

LEMMA AlignedBytes ==
  ASSUME op \in Operands, mem \in Memory, Mapped(op.addr), io_respValid,
         curr_state = "WAIT_MIS_TWO" <=> is_misalign,
         io_rdata \in v_mem_read(mem, part_addr(op, curr_state = "WAIT_MIS_TWO")),
         curr_state = "WAIT_MIS_TWO" =>
           \A k \in 1 .. 3 : first_rdata_q[k] = mem[op.addr.word][k],
         NEW l \in Lane, l < Gold!Size(op)
  PROVE  align_rdata[l] = Source(mem, l)
<1>0. op.addr.word \in WordNo /\ op.addr.off \in Lane /\ op.data_size \in {0, 1, 2}
  BY DEF Operands, Address, LSU_BYTE, LSU_HALF, LSU_WORD
<1>a. PICK aw \in WordNo : aw = op.addr.word
  BY <1>0
<1>o. PICK off \in Lane : off = op.addr.off
  BY <1>0
<1>k. PICK k \in Int : k = off + l
  BY DEF Lane
<1>j. PICK j \in Int : j = k - 4
  OBVIOUS
<1>1. align_rdata[l] = IF off = 0 THEN io_rdata[l] ELSE IF k < 4 THEN first_rdata[k] ELSE io_rdata[j]
  BY <1>o, <1>k, <1>j, LaneBytes
<1>b. Source(mem, l) = IF k < 4 THEN mem[aw][k] ELSE mem[aw + 1][j]
  BY <1>a, <1>o, <1>k, <1>j, SourceBytes
<1>2. CASE is_misalign
  <2>1. off # 0 /\ curr_state = "WAIT_MIS_TWO"
    BY <1>0, <1>2, <1>o DEF is_misalign, Misaligned, LSU_HALF, LSU_WORD
  <2>2. Mapped([word |-> aw + 1, off |-> 0])
        /\ part_addr(op, TRUE) = [word |-> aw + 1, off |-> 0]
    BY <1>a, <1>o, <2>1, NextMapped DEF part_addr
  <2>3. io_rdata = mem[aw + 1]
    <3>1. PICK b : b = [word |-> aw + 1, off |-> 0]
      OBVIOUS
    <3>2. b.word = aw + 1
      BY <3>1
    <3>3. io_rdata \in v_mem_read(mem, b) /\ Mapped(b)
      BY <2>1, <2>2, <3>1
    <3>4. io_rdata = mem[b.word]
      BY <3>3 DEF v_mem_read, Mapped
    <3> QED  BY <3>2, <3>4
  <2>4. first_rdata = first_rdata_q
    BY <2>1 DEF first_rdata
  <2>5. k < 4 => k \in 1 .. 3
    BY <1>k, <2>1 DEF Lane
  <2>6. k < 4 => first_rdata[k] = mem[aw][k]
    BY <1>a, <2>1, <2>4, <2>5
  <2> QED  BY <1>1, <1>b, <2>1, <2>3, <2>6, Zenon
<1>3. CASE ~is_misalign
  <2>1. k < 4
    BY <1>0, <1>3, <1>o, <1>k DEF is_misalign, Misaligned, LSU_HALF, LSU_WORD, Gold!Size, Lane
  <2>2. io_rdata = mem[aw]
    BY <1>3, <1>a DEF v_mem_read, Mapped, part_addr
  <2>3. CASE off = 0
    <3>1. k = l
      BY <1>k, <2>3 DEF Lane
    <3> QED  BY <1>1, <1>b, <2>1, <2>2, <2>3, <3>1, Zenon
  <2>4. CASE off # 0
    <3>1. k \in 1 .. 3
      BY <1>k, <2>1, <2>4 DEF Lane
    <3>2. first_rdata[k] = io_rdata[k]
      BY <1>3, <3>1 DEF first_rdata
    <3> QED  BY <1>1, <1>b, <2>1, <2>2, <2>4, <3>2, Zenon
  <2> QED  BY <2>3, <2>4
<1> QED  BY <1>2, <1>3

LEMMA LoadIsGold ==
  ASSUME op \in Operands, mem \in Memory, Mapped(op.addr), io_respValid,
         curr_state = "WAIT_MIS_TWO" <=> is_misalign,
         io_rdata \in v_mem_read(mem, part_addr(op, curr_state = "WAIT_MIS_TWO")),
         curr_state = "WAIT_MIS_TWO" =>
           \A k \in 1 .. 3 : first_rdata_q[k] = mem[op.addr.word][k]
  PROVE  rdata = Gold!mem_extend(Gold!g_mem_read(mem, op.addr), op)
<1>0. op.data_size \in {0, 1, 2}
  BY DEF Operands, LSU_BYTE, LSU_HALF, LSU_WORD
<1>1. \A l \in Lane : l < Gold!Size(op) =>
        align_rdata[l] = Gold!g_mem_read(mem, op.addr)[l]
  BY AlignedBytes, GoldBytes
<1> DEFINE g == Gold!g_mem_read(mem, op.addr)
<1>2. \A l \in Lane : l < Gold!Size(op) => align_rdata[l] = g[l]
  BY <1>1
<1>3. align_rdata = [l \in Lane |-> align_rdata[l]]
  BY DEF align_rdata
<1> HIDE DEF g
<1>a. PICK a : a = align_rdata
  OBVIOUS
<1>4. \A n \in {1, 2} : Gold!Size(op) = n =>
        Extend(a, n, op.is_mem_sign) = Gold!mem_extend(g, op)
  <2> SUFFICES ASSUME NEW n \in {1, 2}, Gold!Size(op) = n
               PROVE  Extend(a, n, op.is_mem_sign) = Gold!mem_extend(g, op)
    OBVIOUS
  <2>1. \A l \in Lane : l < n => a[l] = g[l]
    BY <1>2, <1>a
  <2>2. n - 1 \in Lane /\ n - 1 < n
    BY DEF Lane
  <2>3. a[n - 1] = g[n - 1]
    BY <2>1, <2>2
  <2> QED  BY <2>1, <2>3, SameMap DEF Extend, Gold!mem_extend
<1>5. CASE op.data_size \in {0, 1}
  <2>1. Gold!Size(op) = op.data_size + 1
    BY <1>5 DEF Gold!Size
  <2>2. rdata = Extend(a, op.data_size + 1, op.is_mem_sign)
    BY <1>5, <1>a DEF rdata, Sized, LSU_BYTE, LSU_HALF
  <2> QED  BY <1>4, <1>5, <2>1, <2>2 DEF g
<1>6. CASE op.data_size = 2
  <2>1. Gold!Size(op) = 4
    BY <1>6 DEF Gold!Size
  <2>2. rdata = a
    BY <1>6, <1>a DEF rdata, Sized, LSU_BYTE, LSU_HALF
  <2>3. \A l \in Lane : l < 4
    BY DEF Lane
  <2>4. a = [l \in Lane |-> g[l]]
    BY <1>2, <1>3, <1>a, <2>1, <2>3
  <2>5. Gold!mem_extend(g, op) = [l \in Lane |-> g[l]]
    BY <2>1, <2>3, SameMap DEF Gold!mem_extend
  <2> QED  BY <2>2, <2>4, <2>5 DEF g
<1> QED  BY <1>0, <1>5, <1>6

-----------------------------------------------------------------------------
(***************************************************************************)
(* The invariant of the refinement: which answer is up, and what the       *)
(* memory holds of the access it answers.  Steps change it a part at a     *)
(* time.                                                                   *)
(***************************************************************************)

Second == curr_state = "WAIT_MIS_TWO"

\* The answer to an access whose request is gone is up, until the rising
\* edge that takes it; a new access is asked for in its first cycle.
Awaited ==
  InFlight /\ pend = NoRequest =>
    IF Fresh THEN io_reqValid ELSE io_respValid /\ (Low \/ respValid_ticks = 2)

\* An answer that is still up beside a newer request falls before it is taken.
Timely == pend # NoRequest /\ io_respValid => ~Low /\ (Fresh \/ respValid_ticks <= 1)

\* A latched request is one of the last access, orphans included.
Settled == pend # NoRequest /\ ~Sampling => pend = part(op, Second)

\* What the answer of the awaited part says.
Served ==
  InFlight /\ pend = NoRequest /\ ~Fresh =>
    /\ io_rdata \in v_mem_read(mem, part_addr(op, Second))
    /\ op.is_write => PartWritten(mem, Second) = mem

Split ==
  /\ curr_state \in {"WAIT_MIS_ONE", "WAIT_MIS_TWO"} => is_misalign
  /\ curr_state = "WAIT_ONE" => ~is_misalign

\* The first part of an access that awaits its second.
FirstStored == Second /\ op.is_write => PartWritten(mem, FALSE) = mem

FirstLoaded ==
  Second /\ ~op.is_write /\ Mapped(op.addr) =>
    \A k \in 1 .. 3 : first_rdata_q[k] = mem[op.addr.word][k]

\* A store that has retired can be asked for again: it writes what is there.
Done == ~InFlight /\ op.is_write => PartWritten(mem, FALSE) = mem

RInv == Awaited /\ Timely /\ Settled /\ Served /\ Split /\ FirstStored /\ FirstLoaded /\ Done

LEMMA Carried ==
  ASSUME op' = op
  PROVE  /\ is_misalign' <=> is_misalign
         /\ PartWritten(mem, FALSE)' = PartWritten(mem', FALSE)
         /\ PartWritten(mem, TRUE)' = PartWritten(mem', TRUE)
         /\ PartWritten(PartWritten(mem, FALSE), TRUE)' = PartWritten(PartWritten(mem', FALSE), TRUE)
<1>1. is_misalign' <=> is_misalign
  BY DEF is_misalign, Misaligned
<1>2. part(op, FALSE)' = part(op, FALSE) /\ part(op, TRUE)' = part(op, TRUE)
  BY DEF part, part_addr, part_wdata, part_wmask
<1> HIDE DEF part
<1> QED  BY <1>1, <1>2 DEF PartWritten

LEMMA CarriedSecond ==
  ASSUME op' = op, curr_state' = curr_state
  PROVE  /\ Second' <=> Second
         /\ part(op, Second)' = part(op, Second)
         /\ part_addr(op, Second)' = part_addr(op, Second)
         /\ PartWritten(mem, Second)' = PartWritten(mem', Second)
BY DEF Second, PartWritten, part, part_addr, part_wdata, part_wmask

LEMMA SecondType == Second \in BOOLEAN
BY Zenon DEF Second

\* What a subtick does to a request that it serves, and otherwise.
Serves ==
  /\ pend # NoRequest \/ Sampling
  /\ pend' = NoRequest /\ io_respValid' /\ respValid_ticks' = 2
  /\ mem' = IF op.is_write THEN PartWritten(mem, Second) ELSE mem
  /\ io_rdata' \in v_mem_read(mem', part_addr(op, Second))

Keeps ==
  /\ UNCHANGED memVars
  /\ pend' = IF Sampling THEN part(op, Second) ELSE pend
  /\ io_respValid' <=> io_respValid /\ respValid_ticks = 2
  /\ respValid_ticks' <= 1

coreRegs == <<reqValid, op, stall, result, curr_state, first_rdata_q, io_reqValid_q>>

LEMMA SubtickSteps ==
  ASSUME IInv, RInv, Subtick
  PROVE  /\ UNCHANGED <<coreRegs, clock>> /\ turn = "subtick" /\ turn' = "tick"
         /\ Serves \/ Keeps
<1>0. UNCHANGED <<coreRegs, clock>> /\ turn = "subtick" /\ turn' = "tick"
  BY DEF Subtick, coreVars, lsuRegs, coreRegs
<1> DEFINE s(d) == Sampled(io_reqValid /\ clock = 1, io_request, d)
<1>1. PICK d \in delays : \/ Answer(s(d)) /\ Perform(s(d).pend)
                          \/ NoAnswer(s(d)) /\ UNCHANGED memVars
  BY DEF Subtick
<1>2. Sampling => io_request = part(op, Second)
  <2>1. Sampling => (is_second_part <=> Second)
    BY DEF Sampling, IInv, FirstPartFresh, is_second_part, Second
  <2>2. is_second_part \in BOOLEAN /\ Second \in BOOLEAN
    BY Zenon DEF is_second_part, Second
  <2> QED  BY <2>1, <2>2, Zenon DEF io_request
<1>3. s(d).pend = IF Sampling THEN part(op, Second) ELSE pend
  BY <1>0, <1>2 DEF Sampled, Sampling
<1> HIDE DEF s
<1>4. CASE Answer(s(d)) /\ Perform(s(d).pend)
  <2>1. pend' = NoRequest /\ io_respValid' /\ respValid_ticks' = 2 /\ s(d).pend # NoRequest
    BY <1>4 DEF Answer
  <2>2. s(d).pend = part(op, Second)
    BY <1>3, <2>1 DEF RInv, Settled
  <2>3. PICK r : r = part(op, Second)
    OBVIOUS
  <2>4. r.wen = op.is_write /\ r.addr = part_addr(op, Second)
    BY <2>3 DEF part
  <2>5. Perform(r)
    BY <1>4, <2>2, <2>3
  <2>6. mem' = IF op.is_write THEN PartWritten(mem, Second) ELSE mem
    BY <2>3, <2>4, <2>5 DEF Perform, PartWritten
  <2>7. io_rdata' \in v_mem_read(mem', part_addr(op, Second))
    BY <2>4, <2>5 DEF Perform
  <2>8. pend # NoRequest \/ Sampling
    BY <1>3, <2>1
  <2> QED  BY <1>0, <2>1, <2>6, <2>7, <2>8 DEF Serves
<1>5. CASE NoAnswer(s(d)) /\ UNCHANGED memVars
  <2>1. respValid_ticks \in 0 .. 2
    BY DEF IInv, TypeOK
  <2>2. pend' = s(d).pend
    BY <1>5 DEF NoAnswer
  <2>3. respValid_ticks' <= 1
    BY <1>5, <2>1 DEF NoAnswer, Down
  <2>4. (Down(respValid_ticks) > 0) <=> respValid_ticks = 2
    BY <2>1 DEF Down
  <2>5. io_respValid' <=> io_respValid /\ respValid_ticks = 2
    BY <1>5, <2>4, Zenon DEF NoAnswer
  <2> QED  BY <1>0, <1>3, <1>5, <2>2, <2>3, <2>5 DEF Keeps
<1> QED  BY <1>1, <1>4, <1>5

LEMMA PartIsRequest ==
  ASSUME IInv PROVE part(op, Second) # NoRequest
<1>1. op \in Operands
  BY DEF IInv, TypeOK
<1> QED  BY <1>1, PartType, SecondType, CoreAssumption

LEMMA SubtickRInv ==
  ASSUME IInv, RInv, Subtick
  PROVE  RInv'
<1>1. /\ UNCHANGED <<reqValid, op, stall, result, curr_state, first_rdata_q, io_reqValid_q, clock>>
      /\ turn = "subtick" /\ turn' = "tick"
      /\ Serves \/ Keeps
  BY SubtickSteps DEF coreRegs
<1>2. op \in Operands /\ mem \in Memory /\ clock \in {0, 1} /\ respValid_ticks \in 0 .. 2
  BY DEF IInv, TypeOK
<1>3. ~Fresh' /\ (Low' <=> clock = 0) /\ (InFlight' <=> InFlight) /\ ~Sampling'
  BY <1>1 DEF Fresh, Low, InFlight, Sampling
<1>4. part(op, Second) # NoRequest
  BY PartIsRequest
\* A request that is not there was answered just before the falling edge.
<1>5. Keeps /\ InFlight /\ pend' = NoRequest
        => pend = NoRequest /\ clock = 0 /\ io_respValid /\ respValid_ticks = 2 /\ ~Fresh
  BY <1>1, <1>2, <1>4 DEF Keeps, RInv, Awaited, Fresh, Low, Sampling
<1>6. Awaited'
  <2>1. InFlight /\ pend' = NoRequest => io_respValid' /\ (clock = 0 \/ respValid_ticks' = 2)
    BY <1>1, <1>5 DEF Serves, Keeps
  <2> QED  BY <1>3, <2>1 DEF Awaited
<1>7. Timely'
  <2> SUFFICES ASSUME pend' # NoRequest, io_respValid' PROVE clock # 0 /\ respValid_ticks' <= 1
    BY <1>3 DEF Timely
  <2>1. Keeps /\ respValid_ticks = 2 /\ io_respValid
    BY <1>1 DEF Serves, Keeps
  <2>2. clock = 0 => pend # NoRequest /\ ~Fresh
    BY <2>1 DEF Keeps, Sampling, Fresh
  <2> QED  BY <2>1, <2>2 DEF Keeps, RInv, Timely
<1>8. Settled'
  <2>1. pend' # NoRequest => pend' = part(op, Second)
    BY <1>1 DEF Serves, Keeps, RInv, Settled
  <2> QED  BY <1>1, <2>1, CarriedSecond DEF Settled
<1>9. \A sec \in BOOLEAN : PartWritten(mem, sec) = mem /\ op.is_write =>
        PartWritten(mem', sec) = mem'
  <2> SUFFICES ASSUME NEW sec \in BOOLEAN, PartWritten(mem, sec) = mem, op.is_write
               PROVE  PartWritten(mem', sec) = mem'
    OBVIOUS
  <2>1. CASE mem' = mem
    BY <2>1
  <2>2. CASE mem' = PartWritten(mem, Second)
    <3>1. CASE Second = sec
      BY <1>2, <2>2, <3>1, PartAgain
    <3>2. CASE Second = FALSE /\ sec = TRUE
      BY <1>2, <2>2, <3>2, PartsCommute
    <3>3. CASE Second = TRUE /\ sec = FALSE
      BY <1>2, <2>2, <3>3, PartsCommute
    <3> QED  BY <3>1, <3>2, <3>3, SecondType
  <2> QED  BY <1>1, <2>1, <2>2 DEF Serves, Keeps, memVars
<1>10. Served'
  <2> SUFFICES ASSUME InFlight, pend' = NoRequest
               PROVE  /\ io_rdata' \in v_mem_read(mem', part_addr(op, Second))
                      /\ op.is_write => PartWritten(mem', Second) = mem'
    BY <1>1, <1>3, CarriedSecond DEF Served
  <2>1. CASE Serves
    <3>1. op.is_write => PartWritten(mem', Second) = mem'
      BY <1>2, <2>1, PartAgain, SecondType DEF Serves
    <3> QED  BY <2>1, <3>1 DEF Serves
  <2>2. CASE Keeps
    BY <1>5, <2>2 DEF Keeps, memVars, RInv, Served
  <2> QED  BY <1>1, <2>1, <2>2
<1>11. Split'
  BY <1>1, Carried DEF RInv, Split
<1>12. FirstStored'
  BY <1>1, <1>9, Carried, CarriedSecond DEF RInv, FirstStored
<1>13. FirstLoaded'
  <2>1. ~op.is_write => mem' = mem
    BY <1>1 DEF Serves, Keeps, memVars
  <2> QED  BY <1>1, <2>1, CarriedSecond DEF RInv, FirstLoaded
<1>14. Done'
  BY <1>1, <1>3, <1>9, Carried DEF RInv, Done
<1> QED  BY <1>6, <1>7, <1>8, <1>10, <1>11, <1>12, <1>13, <1>14 DEF RInv

LEMMA FallRInv ==
  ASSUME IInv, RInv, Fall
  PROVE  RInv'
<1>1. /\ UNCHANGED <<coreVars, memVars, portVars, lsuRegs>>
      /\ turn = "tick" /\ turn' = "subtick" /\ clock = 1 /\ clock' = 0
  BY DEF Fall
<1>2. UNCHANGED <<op, curr_state, mem, pend, io_rdata, first_rdata_q, io_respValid, respValid_ticks>>
      /\ (InFlight' <=> InFlight) /\ ~Fresh' /\ ~Fresh /\ ~Low' /\ ~Low /\ ~Sampling /\ ~Sampling'
  BY <1>1 DEF coreVars, memVars, portVars, lsuRegs, InFlight, Fresh, Low, Sampling
<1>3. Awaited' /\ Timely'
  BY <1>2 DEF RInv, Awaited, Timely
<1>4. Settled' /\ Served'
  BY <1>2, CarriedSecond DEF RInv, Settled, Served
<1>5. Split' /\ FirstStored' /\ Done'
  BY <1>2, Carried, CarriedSecond DEF RInv, Split, FirstStored, Done
<1>6. FirstLoaded'
  BY <1>2, CarriedSecond DEF RInv, FirstLoaded
<1> QED  BY <1>3, <1>4, <1>5, <1>6 DEF RInv

\* What a rising edge finds and what it does.
AtRise ==
  /\ UNCHANGED <<mem, io_rdata, pend, io_respValid, respValid_ticks>>
  /\ Low /\ ~Fresh /\ Fresh' /\ ~Low' /\ clock' = 1 /\ turn' = "subtick"
  /\ io_respValid => pend = NoRequest
  /\ InFlight => (io_respValid <=> pend = NoRequest)
  /\ ~InFlight => curr_state = "IDLE"

Quiets == CoreQuiet /\ curr_state = "IDLE" /\ curr_state' = "IDLE" /\ ~InFlight'

Issues == /\ CoreIssue /\ ~InFlight /\ io_reqValid'
          /\ curr_state = "IDLE" /\ curr_state' = "IDLE"

Waits == /\ CoreStall /\ InFlight /\ InFlight' /\ ~io_respValid
         /\ Second' = Second
         /\ ~io_reqValid' => curr_state' = curr_state

TakesFirst == /\ CoreStall /\ InFlight /\ InFlight' /\ io_respValid /\ io_reqValid'
              /\ is_misalign /\ ~Second /\ curr_state' = "WAIT_MIS_TWO"

Retires == /\ CoreRetireStore \/ CoreRetireLoad
           /\ InFlight /\ ~InFlight' /\ io_respValid /\ (Second <=> is_misalign)
           /\ curr_state' = "IDLE"

LEMMA RiseSteps ==
  ASSUME IInv, RInv, Rise
  PROVE  AtRise /\ (Quiets \/ Issues \/ Waits \/ TakesFirst \/ Retires)
<1>1. /\ UNCHANGED <<mem, io_rdata, pend, io_respValid, respValid_ticks>>
      /\ clock = 0 /\ clock' = 1 /\ turn = "tick" /\ turn' = "subtick"
      /\ Edge /\ (CoreQuiet \/ CoreIssue \/ CoreStall \/ CoreRetireStore \/ CoreRetireLoad)
  BY DEF Rise, CoreEdge, portVars
<1>2. Low /\ Fresh' /\ ~Fresh /\ ~Low'
  BY <1>1 DEF Low, Fresh
<1>3. /\ io_respValid => pend = NoRequest
      /\ InFlight => (io_respValid <=> pend = NoRequest)
  BY <1>2 DEF RInv, Timely, Awaited
<1>4. curr_state \in {"IDLE", "WAIT_ONE", "WAIT_MIS_ONE", "WAIT_MIS_TWO"}
  BY DEF IInv, TypeOK, LsuState
<1>5. (reqValid => curr_state = "IDLE" /\ ~stall) /\ (stall <=> curr_state # "IDLE")
  BY DEF IInv, Stages
<1>6. io_reqValid_q' <=> io_reqValid_d
  BY <1>1, Zenon DEF Edge
<1>s. Second' \in BOOLEAN /\ Second \in BOOLEAN
  BY Zenon DEF Second
<1>a. AtRise
  BY <1>1, <1>2, <1>3, <1>5 DEF AtRise, InFlight
<1>7. CASE CoreQuiet
  <2>1. curr_state = "IDLE" /\ curr_state' = "IDLE" /\ ~InFlight /\ ~InFlight'
    BY <1>1, <1>5, <1>7 DEF CoreQuiet, coreVars, InFlight, Edge, Idle, Accept, AcceptAnswered,
       SecondPart, Finish, Wait
  <2> QED  BY <1>7, <1>a, <2>1 DEF Quiets
<1>8. CASE CoreIssue
  <2>1. curr_state = "IDLE" /\ curr_state' = "IDLE" /\ ~InFlight
    BY <1>1, <1>5, <1>8 DEF CoreIssue, InFlight, Edge, Idle, Accept, AcceptAnswered,
       SecondPart, Finish, Wait
  <2>2. io_reqValid'
    BY <1>8, <2>1 DEF CoreIssue, io_reqValid, io_reqValid_d
  <2> QED  BY <1>8, <1>a, <2>1, <2>2 DEF Issues
<1>9. CASE CoreStall
  <2>1. InFlight /\ InFlight' /\ ~respValid
    BY <1>9 DEF CoreStall, InFlight
  <2>2. CASE ~io_respValid
    <3>1. IF curr_state = "IDLE"
          THEN reqValid /\ curr_state' \in {"WAIT_ONE", "WAIT_MIS_ONE"}
          ELSE curr_state' = curr_state
      BY <1>1, <1>4, <1>5, <2>1, <2>2 DEF InFlight, Edge, Idle, Accept, AcceptAnswered,
         SecondPart, Finish, Wait
    <3>2. Second' <=> Second
      BY <3>1 DEF Second
    <3>3. ~io_reqValid' => curr_state' = curr_state
      BY <1>6, <3>1 DEF io_reqValid, io_reqValid_d
    <3> QED  BY <1>9, <1>a, <1>s, <2>1, <2>2, <3>2, <3>3 DEF Waits
  <2>3. CASE io_respValid
    <3>1. \/ curr_state = "IDLE" /\ reqValid /\ is_misalign
          \/ curr_state = "WAIT_MIS_ONE"
      BY <1>4, <1>5, <2>1, <2>3 DEF InFlight, respValid
    <3>2. is_misalign /\ ~Second
      BY <3>1 DEF RInv, Split, Second
    <3>3. curr_state' = "WAIT_MIS_TWO"
      BY <1>1, <2>3, <3>1, <3>2 DEF Edge, Idle, Accept, AcceptAnswered, SecondPart, Finish, Wait
    <3>4. io_reqValid'
      BY <1>6, <2>3, <3>1 DEF io_reqValid, io_reqValid_d
    <3> QED  BY <1>9, <1>a, <2>1, <2>3, <3>2, <3>3, <3>4 DEF TakesFirst
  <2> QED  BY <2>2, <2>3
<1>10. CASE CoreRetireStore \/ CoreRetireLoad
  <2>1. InFlight /\ ~InFlight' /\ respValid
    BY <1>10 DEF CoreRetireStore, CoreRetireLoad, InFlight
  <2>2. io_respValid
    BY <2>1 DEF respValid
  <2>3. Second <=> is_misalign
    BY <2>1 DEF respValid, Second, RInv, Split
  <2>4. curr_state' = "IDLE"
    BY <1>1, <1>4, <2>1, <2>2 DEF respValid, Edge, Idle, Accept, AcceptAnswered, SecondPart,
       Finish, Wait
  <2> QED  BY <1>10, <1>a, <2>1, <2>2, <2>3, <2>4 DEF Retires
<1> QED  BY <1>1, <1>7, <1>8, <1>9, <1>10

LEMMA RiseRInv ==
  ASSUME IInv, RInv, Rise
  PROVE  RInv'
<1>1. AtRise /\ (Quiets \/ Issues \/ Waits \/ TakesFirst \/ Retires)
  BY RiseSteps
<1>2. (Waits \/ TakesFirst => UNCHANGED <<op, result>>) /\ (Quiets => UNCHANGED <<op, result>> /\ ~InFlight)
  BY DEF Waits, TakesFirst, Quiets, CoreStall, CoreQuiet, coreVars, InFlight
<1>3. Retires => op'.is_write = op.is_write /\ (op.is_write => op' = op)
  BY DEF Retires, CoreRetireStore, CoreRetireLoad, IInv, TypeOK, Operands
<1>4. op \in Operands /\ mem \in Memory
      /\ curr_state \in {"IDLE", "WAIT_ONE", "WAIT_MIS_ONE", "WAIT_MIS_TWO"}
  BY DEF IInv, TypeOK, LsuState
<1>e. Edge
  BY DEF Rise
<1>q. io_reqValid_q' <=> io_reqValid_d
  BY Zenon DEF Rise, Edge
<1>5. Awaited'
  <2> SUFFICES ASSUME InFlight', pend = NoRequest PROVE io_reqValid'
    BY <1>1 DEF Awaited, AtRise
  <2>1. ~Waits
    BY <1>1 DEF Waits, AtRise
  <2> QED  BY <1>1, <2>1 DEF Quiets, Issues, TakesFirst, Retires
<1>6. Timely'
  BY <1>1 DEF AtRise, Timely
<1>7. Settled'
  <2> SUFFICES ASSUME pend # NoRequest, ~io_reqValid' PROVE pend = part(op, Second)'
    BY <1>1 DEF AtRise, Settled, Sampling
  <2>1. Quiets \/ Waits
    BY <1>1 DEF AtRise, Issues, TakesFirst, Retires
  <2>2. op' = op /\ curr_state' = curr_state
    BY <1>2, <2>1 DEF Quiets, Waits
  <2>3. pend = part(op, Second)
    BY <1>1 DEF AtRise, RInv, Settled, Sampling, Low
  <2> QED  BY <2>2, <2>3, CarriedSecond
<1>8. Served'
  BY <1>1 DEF AtRise, Served
\* The answer to a first part, and to the part a retiring access awaits.
<1>9. TakesFirst \/ Retires =>
        /\ io_rdata \in v_mem_read(mem, part_addr(op, Second))
        /\ op.is_write => PartWritten(mem, Second) = mem
  BY <1>1 DEF AtRise, TakesFirst, Retires, RInv, Served
<1>10. Split'
  <2>1. CASE Quiets \/ Issues \/ Retires
    BY <2>1 DEF Quiets, Issues, Retires, Split
  <2>2. CASE TakesFirst
    BY <1>2, <2>2, Carried DEF TakesFirst, Split
  <2>3. CASE Waits
    <3>1. /\ curr_state' \in {"WAIT_MIS_ONE", "WAIT_MIS_TWO"} => is_misalign
          /\ curr_state' = "WAIT_ONE" => ~is_misalign
      BY <1>4, <1>e, <2>3 DEF Waits, Edge, Idle, Accept, AcceptAnswered, SecondPart, Finish, Wait,
         RInv, Split
    <3> QED  BY <1>2, <2>3, <3>1, Carried DEF Split
  <2> QED  BY <1>1, <2>1, <2>2, <2>3
<1>11. FirstStored' /\ FirstLoaded'
  <2>1. CASE Quiets \/ Issues \/ Retires
    BY <2>1 DEF Quiets, Issues, Retires, FirstStored, FirstLoaded, Second
  <2>2. CASE TakesFirst
    <3>1. op' = op /\ mem' = mem /\ Second = FALSE
      BY <1>1, <1>2, <2>2, SecondType DEF AtRise, TakesFirst
    <3>2. op.is_write => PartWritten(mem, FALSE) = mem
      BY <1>9, <2>2, <3>1
    <3>3. FirstStored'
      BY <3>1, <3>2, Carried DEF FirstStored
    <3>4. ~op.is_write /\ Mapped(op.addr) =>
            \A k \in 1 .. 3 : first_rdata_q'[k] = mem[op.addr.word][k]
      <4> SUFFICES ASSUME ~op.is_write, Mapped(op.addr), NEW k \in 1 .. 3
                   PROVE  first_rdata_q'[k] = mem[op.addr.word][k]
        OBVIOUS
      <4>1. first_rdata_q' = [l \in 1 .. 3 |-> io_rdata[l]]
        BY <1>e, <2>2 DEF TakesFirst, Edge
      <4>2. part_addr(op, FALSE) = op.addr
        BY DEF part_addr
      <4>3. io_rdata = mem[op.addr.word]
        BY <1>9, <2>2, <3>1, <4>2 DEF v_mem_read, Mapped
      <4> QED  BY <4>1, <4>3
    <3> QED  BY <3>1, <3>3, <3>4 DEF FirstLoaded
  <2>3. CASE Waits
    <3>1. op' = op /\ mem' = mem /\ (Second' <=> Second) /\ ~io_respValid
      BY <1>1, <1>2, <2>3 DEF AtRise, Waits
    <3>2. first_rdata_q' = first_rdata_q
      BY <1>e, <3>1 DEF Edge
    <3>3. FirstStored'
      BY <3>1, Carried DEF RInv, FirstStored
    <3> QED  BY <3>1, <3>2, <3>3 DEF RInv, FirstLoaded
  <2> QED  BY <1>1, <2>1, <2>2, <2>3
<1>12. Done'
  <2> SUFFICES ASSUME ~InFlight', op'.is_write PROVE PartWritten(mem, FALSE)' = mem
    BY <1>1 DEF AtRise, Done
  <2>1. op' = op /\ mem' = mem /\ (Quiets \/ Retires)
    BY <1>1, <1>2, <1>3 DEF AtRise, Issues, Waits, TakesFirst, CoreIssue, InFlight
  <2>2. PartWritten(mem, FALSE) = mem
    <3>1. CASE Quiets
      BY <1>2, <2>1, <3>1 DEF RInv, Done
    <3>2. CASE Retires /\ Second
      BY <2>1, <3>2 DEF RInv, FirstStored
    <3>3. CASE Retires /\ ~Second
      BY <1>9, <2>1, <3>3, SecondType
    <3> QED  BY <2>1, <3>1, <3>2, <3>3
  <2> QED  BY <2>1, <2>2, Carried
<1> QED  BY <1>5, <1>6, <1>7, <1>8, <1>10, <1>11, <1>12 DEF RInv

LEMMA InitRInv == Init => RInv
BY DEF Init, LsuReset, PortReset, RInv, Awaited, Timely, Settled, Served, Split, FirstStored,
   FirstLoaded, Done, InFlight, Second

LEMMA StutterRInv == RInv /\ UNCHANGED vars => RInv'
<1> SUFFICES ASSUME RInv, UNCHANGED vars PROVE RInv'
  OBVIOUS
<1>1. /\ UNCHANGED <<op, mem, io_rdata, pend, io_respValid, respValid_ticks, curr_state, first_rdata_q>>
      /\ (InFlight' <=> InFlight) /\ (Fresh' <=> Fresh) /\ (Low' <=> Low) /\ (Sampling' <=> Sampling)
      /\ (io_reqValid' <=> io_reqValid)
  BY DEF vars, coreVars, memVars, portVars, lsuRegs, InFlight, Fresh, Low, Sampling, io_reqValid,
     io_reqValid_d
<1>2. Awaited' /\ Timely'
  BY <1>1 DEF RInv, Awaited, Timely
<1>3. Settled' /\ Served' /\ Split' /\ FirstStored' /\ Done'
  BY <1>1, Carried, CarriedSecond DEF RInv, Settled, Served, Split, FirstStored, Done
<1>4. FirstLoaded'
  BY <1>1, CarriedSecond DEF RInv, FirstLoaded
<1> QED  BY <1>2, <1>3, <1>4 DEF RInv

-----------------------------------------------------------------------------
(***************************************************************************)
(* Every step of the unit, the core and the bench is a step of the golden  *)
(* memory or changes nothing there.                                        *)
(***************************************************************************)

\* A store's first part takes effect when it is answered, and no sooner.
LEMMA SubtickGold ==
  ASSUME IInv, RInv, Subtick
  PROVE  [Gold!GoldNext]_Gold!goldVars
<1>1. /\ UNCHANGED <<reqValid, op, stall, result, curr_state, first_rdata_q, io_reqValid_q, clock>>
      /\ turn = "subtick" /\ turn' = "tick"
      /\ Serves \/ Keeps
  BY SubtickSteps DEF coreRegs
<1>2. op \in Operands /\ mem \in Memory /\ clock \in {0, 1} /\ op \notin {NoOp}
  BY CoreAssumption DEF IInv, TypeOK
<1>3. part(op, Second) # NoRequest
  BY PartIsRequest
<1>4. (InFlight' <=> InFlight) /\ (Second' <=> Second) /\ result' = result
      /\ (is_misalign' <=> is_misalign)
  BY <1>1, Carried, CarriedSecond DEF InFlight
<1>5. Begun' <=> InFlight /\ op.is_write /\ (Second \/ (io_respValid' /\ pend' = NoRequest))
  BY <1>1, <1>4 DEF Begun, Second
\* Just after a rising edge nothing is begun but a second part.
<1>6. Begun /\ ~Second => pend = NoRequest /\ io_respValid /\ ~Sampling /\ clock = 0
  <2> SUFFICES ASSUME Begun, ~Second, Fresh PROVE FALSE
    BY <1>1, <1>2 DEF Begun, Second, Sampling, Fresh
  <2>1. io_respValid /\ curr_state # "IDLE"
    BY <1>1 DEF Begun, Second, Fresh
  <2> QED  BY <2>1 DEF IInv, TypeOK, LsuState, FirstPartFresh, Fresh, Second
<1>7. CASE ~op.is_write
  <2>1. mem' = mem
    BY <1>1, <1>7 DEF Serves, Keeps, memVars
  <2>2. ~Begun /\ ~Begun'
    BY <1>5, <1>7 DEF Begun
  <2> QED  BY <1>1, <1>4, <2>1, <2>2 DEF goldMem, goldOp, Gold!goldVars
<1>8. CASE op.is_write /\ ~InFlight
  <2>1. ~Begun /\ ~Begun'
    BY <1>5, <1>8 DEF Begun
  <2>2. ~Second
    BY <1>8 DEF InFlight, IInv, Stages, Second
  <2>3. mem' = mem
    BY <1>1, <1>8, <2>2, SecondType DEF Serves, Keeps, memVars, RInv, Done
  <2> QED  BY <1>4, <1>8, <2>1, <2>3 DEF goldMem, goldOp, Gold!goldVars
<1>9. CASE op.is_write /\ InFlight /\ Keeps
  <2>1. mem' = mem
    BY <1>9 DEF Keeps, memVars
  <2>2. Begun' <=> Begun
    <3>1. CASE Second
      BY <1>5, <1>9, <3>1 DEF Begun, Second
    <3>2. ASSUME ~Second, Begun PROVE Begun'
      <4>1. pend = NoRequest /\ ~Fresh /\ ~Low /\ io_respValid /\ ~Sampling
        BY <1>1, <1>6, <3>2 DEF Fresh, Low
      <4>2. respValid_ticks = 2
        BY <1>9, <4>1 DEF RInv, Awaited
      <4> QED  BY <1>5, <1>9, <4>1, <4>2 DEF Keeps
    <3>3. ASSUME ~Second, Begun' PROVE Begun
      <4>1. io_respValid /\ pend = NoRequest /\ ~Sampling
        BY <1>3, <1>5, <1>9, <3>3 DEF Keeps
      <4>2. ~Fresh
        BY <1>9, <4>1 DEF RInv, Awaited, Sampling, Fresh
      <4> QED  BY <1>9, <4>1, <4>2 DEF Begun, Fresh
    <3> QED  BY <3>1, <3>2, <3>3
  <2>3. goldMem' = goldMem
    BY <1>1, <1>4, <2>1, <2>2, Carried DEF goldMem
  <2> QED  BY <1>1, <1>4, <2>2, <2>3 DEF goldOp, Gold!goldVars
<1>10. CASE op.is_write /\ InFlight /\ Serves /\ Second
  <2>1. Begun /\ Begun' /\ is_misalign
    BY <1>5, <1>10 DEF Begun, RInv, Split, Second
  <2>2. mem' = PartWritten(mem, TRUE) /\ PartWritten(mem, FALSE) = mem
    BY <1>10, SecondType DEF Serves, RInv, FirstStored
  <2>3. goldMem = PartWritten(mem, TRUE)
    BY <2>1, <2>2 DEF goldMem
  <2>4. goldMem' = PartWritten(PartWritten(mem', FALSE), TRUE)
    BY <1>1, <1>4, <2>1, Carried DEF goldMem
  <2>5. PartWritten(mem', FALSE) = mem'
    BY <1>2, <2>2, PartsCommute
  <2>6. PartWritten(mem', TRUE) = mem'
    BY <1>2, <2>2, PartAgain
  <2>7. goldMem' = goldMem
    BY <2>2, <2>3, <2>4, <2>5, <2>6
  <2> QED  BY <1>4, <2>1, <2>7 DEF goldOp, Gold!goldVars
<1>11. CASE op.is_write /\ InFlight /\ Serves /\ ~Second
  <2>1. Begun' /\ ~Begun
    BY <1>5, <1>6, <1>11 DEF Serves
  <2>2. mem' = PartWritten(mem, FALSE)
    BY <1>11, SecondType DEF Serves
  <2>3. PartWritten(mem', FALSE) = mem'
    BY <1>2, <2>2, PartAgain
  <2>4. goldMem = mem /\ goldOp = op
    BY <1>11, <2>1 DEF goldMem, goldOp
  <2>5. goldOp' = NoOp
    BY <2>1 DEF goldOp
  <2>6. goldMem' = Whole(mem)
    <3>1. goldMem' = IF is_misalign THEN PartWritten(PartWritten(mem', FALSE), TRUE) ELSE mem'
      BY <1>1, <1>4, <2>1, Carried DEF goldMem
    <3> QED  BY <2>2, <2>3, <3>1 DEF Whole
  <2>7. IF Gold!InRam(op.addr)
        THEN goldMem' = Gold!g_mem_write(mem, op.addr, Gold!Size(op), op.wdata)
        ELSE \A w \in Gold!Stored, l \in Gold!Lane :
               goldMem'[w][l] = mem[w][l] \/ (w \in Gold!RamWords /\ Gold!Named(op, w, l))
    <3>1. CASE InRam(op.addr)
      BY <1>2, <1>11, <2>6, <3>1, WholeIsGold, SameMap
    <3>2. CASE ~InRam(op.addr)
      <4>1. \A w \in Stored, l \in Lane :
              goldMem'[w][l] = mem[w][l] \/ (w \in RamWords /\ Gold!Named(op, w, l))
        BY <1>2, <1>11, <2>6, <3>2, WholeNamed
      <4>2. ~Gold!InRam(op.addr)
        BY <3>2, SameMap
      <4> QED  BY <4>1, <4>2, SameMap
    <3> QED  BY <3>1, <3>2
  <2>8. Gold!Store
    <3> HIDE DEF goldMem, goldOp
    <3> QED  BY <1>2, <1>4, <1>11, <2>4, <2>5, <2>7 DEF Gold!Store
  <2> QED  BY <2>8 DEF Gold!GoldNext
<1> QED  BY <1>1, <1>7, <1>8, <1>9, <1>10, <1>11

LEMMA RiseGold ==
  ASSUME IInv, RInv, Rise
  PROVE  [Gold!GoldNext]_Gold!goldVars
<1>1. AtRise /\ (Quiets \/ Issues \/ Waits \/ TakesFirst \/ Retires)
  BY RiseSteps
<1>2. op \in Operands /\ mem \in Memory /\ op # NoOp
  BY CoreAssumption DEF IInv, TypeOK
<1>3. IInv'
  BY RiseIInv
<1>4. op' \in Operands /\ result' \in Word
  BY <1>3 DEF IInv, TypeOK
<1>5. mem' = mem /\ (InFlight => (io_respValid <=> pend = NoRequest))
  BY <1>1 DEF AtRise
<1>6. Begun <=> InFlight /\ op.is_write /\ (Second \/ io_respValid)
  BY <1>1 DEF AtRise, Begun, Second, Low
<1>7. CASE Quiets
  <2>1. ~InFlight /\ ~InFlight' /\ result' = result
    BY <1>7 DEF Quiets, CoreQuiet, InFlight, coreVars
  <2> QED  BY <1>5, <2>1 DEF goldMem, goldOp, Begun, Gold!goldVars
<1>8. CASE Issues
  <2>1. ~InFlight /\ InFlight'
    BY <1>8 DEF Issues, CoreIssue, InFlight
  <2>2. ~Begun' /\ ~Begun
    BY <1>1, <1>8, <2>1 DEF Issues, AtRise, Begun
  <2>3. goldMem' = goldMem /\ goldOp = NoOp /\ goldOp' = op'
    BY <1>5, <2>1, <2>2 DEF goldMem, goldOp
  <2>4. Gold!Ask
    <3> HIDE DEF goldMem, goldOp
    <3>1. op' # NoOp /\ Gold!Word = Word
      BY <1>4, CoreAssumption, SameMap
    <3> QED  BY <1>4, <2>3, <3>1 DEF Gold!Ask
  <2> QED  BY <2>4 DEF Gold!GoldNext
<1>9. CASE Waits \/ TakesFirst
  <2>1. UNCHANGED <<op, result>> /\ InFlight /\ InFlight' /\ (Waits => ~io_respValid)
    BY <1>9 DEF Waits, TakesFirst, CoreStall
  <2>2. (is_misalign' <=> is_misalign)
        /\ PartWritten(PartWritten(mem, FALSE), TRUE)' = PartWritten(PartWritten(mem', FALSE), TRUE)
    BY <2>1, Carried
  <2>3. Begun' <=> Begun
    <3>1. CASE Waits
      <4>1. pend' # NoRequest /\ ~io_respValid /\ (Second' <=> Second)
        BY <1>1, <2>1, <3>1 DEF AtRise, Waits
      <4>2. Begun' <=> op.is_write /\ Second'
        BY <2>1, <4>1 DEF Begun, Second
      <4> QED  BY <1>6, <2>1, <4>1, <4>2
    <3>2. CASE TakesFirst
      BY <1>6, <2>1, <3>2 DEF Begun, TakesFirst
    <3> QED  BY <1>9, <3>1, <3>2
  <2> QED  BY <1>5, <2>1, <2>2, <2>3 DEF goldMem, goldOp, Gold!goldVars
<1>10. CASE CoreRetireStore /\ Retires
  <2>1. Begun /\ ~Begun' /\ ~InFlight' /\ result' = result
    BY <1>6, <1>10 DEF CoreRetireStore, Retires, Begun
  <2>2. pend = NoRequest /\ ~Fresh /\ op.is_write
    BY <1>1, <1>10 DEF AtRise, Retires, CoreRetireStore
  <2>3. PartWritten(mem, Second) = mem
    BY <1>10, <2>2 DEF Retires, RInv, Served
  <2>4. is_misalign => PartWritten(mem, FALSE) = mem /\ PartWritten(mem, TRUE) = mem
    BY <1>10, <2>2, <2>3, SecondType DEF Retires, RInv, FirstStored
  <2>5. goldMem = mem /\ goldMem' = mem
    BY <1>5, <2>1, <2>4 DEF goldMem
  <2> QED  BY <2>1, <2>5 DEF goldOp, Gold!goldVars
<1>11. CASE CoreRetireLoad /\ Retires
  <2>1. ~op.is_write /\ InFlight /\ ~InFlight' /\ result' = rdata
    BY <1>11 DEF CoreRetireLoad, Retires
  <2>2. goldOp = op /\ goldOp' = NoOp /\ goldMem = mem /\ goldMem' = mem
    BY <1>5, <2>1 DEF goldOp, goldMem, Begun
  <2>3. Mapped(op.addr) => rdata = Gold!mem_extend(Gold!g_mem_read(mem, op.addr), op)
    <3>1. io_respValid /\ (Second <=> is_misalign) /\ pend = NoRequest /\ ~Fresh
      BY <1>1, <1>11 DEF AtRise, Retires
    <3>2. io_rdata \in v_mem_read(mem, part_addr(op, Second))
      BY <2>1, <3>1 DEF RInv, Served
    <3>3. Mapped(op.addr) /\ Second => \A k \in 1 .. 3 : first_rdata_q[k] = mem[op.addr.word][k]
      BY <2>1 DEF RInv, FirstLoaded
    <3> QED  BY <1>2, <3>1, <3>2, <3>3, LoadIsGold DEF Second
  <2>4. Gold!Load
    <3>1. /\ Gold!InRam(op.addr) \/ Gold!InFlash(op.addr) =>
               result' = Gold!mem_extend(Gold!g_mem_read(mem, op.addr), op)
          /\ result' \in Gold!Word
      BY <1>4, <2>1, <2>3, SameMap DEF Mapped
    <3> HIDE DEF goldMem, goldOp
    <3> QED  BY <1>2, <2>1, <2>2, <3>1 DEF Gold!Load
  <2> QED  BY <2>4 DEF Gold!GoldNext
<1> QED  BY <1>1, <1>7, <1>8, <1>9, <1>10, <1>11 DEF Retires

LEMMA OtherGold ==
  ASSUME IInv, RInv, Fall \/ UNCHANGED vars
  PROVE  UNCHANGED Gold!goldVars
<1>1. /\ UNCHANGED <<op, result, mem, pend, io_respValid, curr_state, reqValid, stall>>
      /\ \/ clock' = clock /\ turn' = turn
         \/ turn = "tick" /\ clock' = 0
  BY DEF Fall, vars, coreVars, memVars, portVars, lsuRegs
<1>2. (InFlight' <=> InFlight) /\ (Begun' <=> Begun)
  BY <1>1 DEF InFlight, Begun
<1>3. goldMem' = goldMem
  BY <1>1, <1>2, Carried DEF goldMem
<1> QED  BY <1>1, <1>2, <1>3 DEF goldOp, Gold!goldVars

LEMMA InitGold == Init => Gold!GoldInit
<1> SUFFICES ASSUME Init PROVE Gold!GoldInit
  OBVIOUS
<1>1. ~InFlight /\ result \in Word /\ mem \in Memory
  BY ByteAssumption DEF Init, InFlight, NoData, Word
<1>2. goldMem = mem /\ goldOp = NoOp
  BY <1>1 DEF goldMem, goldOp, Begun
<1> HIDE DEF goldMem, goldOp
<1> QED  BY <1>1, <1>2, SameMap DEF Gold!GoldInit

(***************************************************************************)
(* The loads and stores the core issues are the golden model's, one at a   *)
(* time and in its order, for every address map, every delay the bench may *)
(* draw and every alignment: a store's bytes change at once, when the      *)
(* bench serves its first part, and what a load writes to the register is  *)
(* what mem_extend makes of the four bytes from its address on (lsu.sv and *)
(* soc_main.cpp:731-768 against gcpu.cpp's g_mem_read and g_mem_write).    *)
(***************************************************************************)
THEOREM IsGoldMemory == Spec => GoldSpec
<1> DEFINE GInv == IInv /\ RInv
<1>1. Init => GInv
  BY InitIInv, InitRInv
<1>2. GInv /\ [Next]_vars => GInv'
  BY StutterIInv, SubtickIInv, FallIInv, RiseIInv, StutterRInv, SubtickRInv, FallRInv, RiseRInv
  DEF Next
<1>3. GInv /\ [Next]_vars => [Gold!GoldNext]_Gold!goldVars
  BY SubtickGold, RiseGold, OtherGold DEF Next
<1> QED  BY <1>1, <1>2, <1>3, InitGold, PTL DEF Spec, GoldSpec, Gold!GoldSpec

-----------------------------------------------------------------------------
(***************************************************************************)
(* How long an access takes, in steps of the bench: a subtick and a tick   *)
(* are half a cycle.  On any bus the count of a latched request has the    *)
(* parity of the clock's level, and runs out just before a rising edge.    *)
(***************************************************************************)
StepsToEdge == (IF clock = 1 THEN 2 ELSE 0) + (IF turn = "subtick" THEN 2 ELSE 1)

\* The steps to the edge that takes the answer to the part awaited.
StepsLeft ==
  IF pend = NoRequest THEN StepsToEdge
  ELSE 2 * waitRespValid + (IF turn = "tick" THEN 1 ELSE 0)

(***************************************************************************)
(* Every step of the bench brings the answer to the part that the LSU      *)
(* awaits one step nearer, unless the request is sampled at that step:     *)
(* then it starts again, and takes the delay drawn there or, if that is    *)
(* none, the rest of the cycle.  When no step is left the access retires   *)
(* or goes on to its second part (lsu.sv:77-103, soc_main.cpp:736-768).    *)
(***************************************************************************)
AccessTimed ==
  InFlight =>
    IF Sampling
    THEN InFlight' /\ \E d \in delays : StepsLeft' = IF d = 0 THEN 3 ELSE 4 * d - 1
    ELSE IF StepsLeft = 1
    THEN ~InFlight' \/ (~Second /\ Second')
    ELSE InFlight' /\ StepsLeft' = StepsLeft - 1

(***************************************************************************)
(* A part is not sampled again for as long as the LSU stays in one state:  *)
(* io_reqValid_q (lsu.sv:149) repeats a request for one cycle only.        *)
(***************************************************************************)
AskedOnce == InFlight /\ InFlight' /\ Sampling' => curr_state' # curr_state

\* What a subtick does to the port, by what it finds.
LEMMA PortSteps ==
  ASSUME IInv, RInv, Counted, Subtick
  PROVE  /\ Sampling => \E d \in delays : d \in Nat /\
              IF d = 0 THEN pend' = NoRequest
              ELSE pend' # NoRequest /\ waitRespValid' = 2 * d - 1
         /\ ~Sampling /\ pend = NoRequest => pend' = NoRequest
         /\ ~Sampling /\ pend # NoRequest /\ waitRespValid > 1 =>
              pend' # NoRequest /\ waitRespValid' = waitRespValid - 1
         /\ ~Sampling /\ pend # NoRequest /\ waitRespValid = 1 => pend' = NoRequest
<1> DEFINE s(d) == Sampled(io_reqValid /\ clock = 1, io_request, d)
<1>1. PICK d \in delays : Answer(s(d)) \/ NoAnswer(s(d))
  BY DEF Subtick
<1>2. d \in Nat /\ waitRespValid \in Nat
  BY DelaysAssumption DEF IInv, TypeOK
<1>3. (io_reqValid /\ clock = 1) <=> Sampling
  BY DEF Sampling, Subtick
<1>4. Sampling => io_request # NoRequest
  <2>1. (is_second_part = TRUE \/ is_second_part = FALSE) /\ op \in Operands
    BY DEF is_second_part, IInv, TypeOK
  <2> QED  BY <2>1, PartType, CoreAssumption DEF io_request
<1>5. ASSUME Sampling PROVE s(d).pend = io_request /\ s(d).wait = Down(2 * d)
  BY <1>3, <1>5 DEF Sampled
<1>6. ASSUME ~Sampling PROVE s(d).pend = pend /\ s(d).wait = Down(waitRespValid)
  BY <1>3, <1>6 DEF Sampled
<1> HIDE DEF s
<1>7. CASE Sampling
  <2>1. CASE d = 0
    <3>1. s(d).wait = 0
      BY <1>5, <1>7, <2>1 DEF Down
    <3> QED  BY <1>1, <1>2, <1>4, <1>5, <1>7, <2>1, <3>1 DEF Answer, NoAnswer
  <2>2. CASE d # 0
    <3>1. s(d).wait = 2 * d - 1 /\ s(d).wait > 0
      BY <1>2, <1>5, <1>7, <2>2 DEF Down
    <3> QED  BY <1>1, <1>2, <1>4, <1>5, <1>7, <2>2, <3>1 DEF Answer, NoAnswer
  <2> QED  BY <2>1, <2>2
<1>8. CASE ~Sampling /\ pend = NoRequest
  BY <1>1, <1>6, <1>8 DEF Answer, NoAnswer
<1>9. CASE ~Sampling /\ pend # NoRequest /\ waitRespValid > 1
  <2>1. s(d).pend = pend /\ s(d).wait = waitRespValid - 1 /\ s(d).wait > 0
    BY <1>2, <1>6, <1>9 DEF Down
  <2> QED  BY <1>1, <1>9, <2>1 DEF Answer, NoAnswer
<1>10. CASE ~Sampling /\ pend # NoRequest /\ waitRespValid = 1
  <2>1. s(d).pend = pend /\ s(d).wait = 0
    BY <1>6, <1>10 DEF Down
  <2> QED  BY <1>1, <1>10, <2>1 DEF Answer, NoAnswer
<1> QED  BY <1>2, <1>7, <1>8, <1>9, <1>10

LEMMA TimedSubtick ==
  ASSUME IInv, RInv, Counted, Subtick
  PROVE  Counted' /\ AccessTimed
<1>0. /\ UNCHANGED <<coreVars, lsuRegs, clock>>
      /\ turn = "subtick" /\ turn' = "tick" /\ clock \in {0, 1}
  BY DEF Subtick, IInv, TypeOK
<1>1. /\ InFlight' <=> InFlight
      /\ ~Low /\ ~Fresh' /\ (Low' <=> clock = 0) /\ (Fresh <=> clock = 1)
      /\ Sampling => clock = 1
  BY <1>0 DEF InFlight, Low, Fresh, Sampling, coreVars
<1>2. waitRespValid \in Nat
  BY DEF IInv, TypeOK
<1>3. CASE Sampling
  <2>1. PICK d \in delays : d \in Nat /\
              IF d = 0 THEN pend' = NoRequest
              ELSE pend' # NoRequest /\ waitRespValid' = 2 * d - 1
    BY <1>3, PortSteps
  <2>2. d # 0 => waitRespValid' \in Odd
    <3> SUFFICES ASSUME d # 0 PROVE waitRespValid' \in Odd
      OBVIOUS
    <3>1. d - 1 \in Nat /\ waitRespValid' = 2 * (d - 1) + 1
      BY <2>1
    <3> QED  BY <3>1 DEF Odd
  <2>3. Counted'
    BY <1>1, <1>3, <2>1, <2>2 DEF Counted
  <2>4. StepsLeft' = IF d = 0 THEN 3 ELSE 4 * d - 1
    <3>1. CASE d = 0
      BY <1>0, <1>1, <1>3, <2>1, <3>1 DEF StepsLeft, StepsToEdge
    <3>2. CASE d # 0
      BY <1>0, <2>1, <3>2 DEF StepsLeft
    <3> QED  BY <3>1, <3>2
  <2> QED  BY <1>1, <1>3, <2>3, <2>4 DEF AccessTimed
<1>4. CASE ~Sampling /\ pend = NoRequest
  <2>1. pend' = NoRequest
    BY <1>4, PortSteps
  <2>2. StepsLeft' = StepsLeft - 1 /\ StepsLeft # 1
    <3>1. CASE clock = 0
      BY <1>0, <1>4, <2>1, <3>1 DEF StepsLeft, StepsToEdge
    <3>2. CASE clock = 1
      BY <1>0, <1>4, <2>1, <3>2 DEF StepsLeft, StepsToEdge
    <3> QED  BY <1>0, <3>1, <3>2
  <2> QED  BY <1>1, <1>4, <2>1, <2>2 DEF Counted, AccessTimed
<1>5. CASE ~Sampling /\ pend # NoRequest /\ waitRespValid > 1
  <2>1. pend' # NoRequest /\ waitRespValid' = waitRespValid - 1
    BY <1>5, PortSteps
  <2>2. /\ clock = 1 => waitRespValid' \in Odd
        /\ clock = 0 => waitRespValid' \in Even \ {0}
    BY <1>1, <1>2, <1>5, <2>1, Parity DEF Counted
  <2>3. Counted'
    BY <1>0, <1>1, <2>2 DEF Counted
  <2>4. StepsLeft' = StepsLeft - 1 /\ StepsLeft # 1
    BY <1>0, <1>2, <1>5, <2>1 DEF StepsLeft
  <2> QED  BY <1>1, <1>5, <2>3, <2>4 DEF AccessTimed
<1>6. CASE ~Sampling /\ pend # NoRequest /\ waitRespValid = 1
  <2>1. pend' = NoRequest
    BY <1>6, PortSteps
  <2>2. clock = 0
    BY <1>0, <1>1, <1>2, <1>6, Parity DEF Counted
  <2>3. StepsLeft = 2 /\ StepsLeft' = 1
    BY <1>0, <1>6, <2>1, <2>2 DEF StepsLeft, StepsToEdge
  <2> QED  BY <1>1, <1>6, <2>1, <2>3 DEF Counted, AccessTimed
<1> QED  BY <1>2, <1>3, <1>4, <1>5, <1>6, Parity DEF Counted

LEMMA TimedFall ==
  ASSUME IInv, Counted, Fall
  PROVE  Counted' /\ AccessTimed
<1>0. /\ UNCHANGED <<coreVars, lsuRegs, portVars>>
      /\ turn = "tick" /\ turn' = "subtick" /\ clock = 1 /\ clock' = 0
  BY DEF Fall
<1>1. /\ InFlight' <=> InFlight
      /\ pend' = pend /\ waitRespValid' = waitRespValid
      /\ ~Low /\ ~Fresh /\ ~Low' /\ ~Fresh' /\ ~Sampling
  BY <1>0 DEF InFlight, Low, Fresh, Sampling, coreVars, portVars
<1>2. Counted'
  BY <1>1 DEF Counted
<1>3. StepsLeft' = StepsLeft - 1 /\ StepsLeft # 1
  <2>1. waitRespValid \in Nat /\ (pend # NoRequest => waitRespValid > 0)
    BY <1>1, Parity DEF Counted, IInv, TypeOK
  <2>2. CASE pend = NoRequest
    BY <1>0, <1>1, <2>2 DEF StepsLeft, StepsToEdge
  <2>3. CASE pend # NoRequest
    BY <1>0, <1>1, <2>1, <2>3 DEF StepsLeft
  <2> QED  BY <2>2, <2>3
<1> QED  BY <1>1, <1>2, <1>3 DEF AccessTimed

LEMMA TimedRise ==
  ASSUME IInv, RInv, Counted, Rise
  PROVE  Counted' /\ AccessTimed /\ AskedOnce
<1>0. AtRise /\ (Quiets \/ Issues \/ Waits \/ TakesFirst \/ Retires)
  BY RiseSteps
<1>1. /\ clock = 0 /\ turn = "tick" /\ clock' = 1 /\ turn' = "subtick"
      /\ UNCHANGED <<pend, waitRespValid, io_respValid>>
      /\ Low /\ ~Fresh /\ Fresh' /\ ~Sampling
  BY DEF Rise, Low, Fresh, Sampling, portVars
<1>2. waitRespValid \in Nat /\ (pend # NoRequest => waitRespValid > 1)
  BY <1>1, Parity DEF Counted, IInv, TypeOK
<1>3. Counted'
  BY <1>1 DEF Counted
<1>4. InFlight => (io_respValid <=> pend = NoRequest)
  BY <1>0 DEF AtRise
<1>5. pend = NoRequest => StepsLeft = 1
  BY <1>1 DEF StepsLeft, StepsToEdge
<1>6. pend # NoRequest => StepsLeft' = StepsLeft - 1 /\ StepsLeft # 1
  BY <1>1, <1>2 DEF StepsLeft
<1>7. CASE Quiets \/ Issues
  BY <1>3, <1>7 DEF Quiets, Issues, CoreQuiet, InFlight, AccessTimed, AskedOnce
<1>8. CASE Waits
  <2>1. AccessTimed
    BY <1>1, <1>4, <1>6, <1>8 DEF Waits, AccessTimed
  <2>2. io_reqValid' => curr_state' # curr_state
    <3>1. ~io_respValid /\ ~io_respValid' /\ ~reqValid'
      BY <1>1, <1>8 DEF Waits, CoreStall
    <3>2. io_reqValid' <=> io_reqValid_d
      BY <3>1, Zenon DEF Rise, Edge, io_reqValid, io_reqValid_d
    <3>3. io_reqValid_d => curr_state = "IDLE" /\ reqValid
      BY <3>1 DEF io_reqValid_d
    <3>4. curr_state = "IDLE" /\ reqValid => curr_state' # curr_state
      BY <3>1 DEF Rise, Edge, Idle, Accept, AcceptAnswered, SecondPart, Finish, Wait
    <3> QED  BY <3>2, <3>3, <3>4
  <2> QED  BY <1>3, <2>1, <2>2 DEF AskedOnce, Sampling
<1>9. CASE TakesFirst
  BY <1>1, <1>3, <1>4, <1>5, <1>9 DEF TakesFirst, AccessTimed, AskedOnce, Second
<1>10. CASE Retires
  BY <1>1, <1>3, <1>4, <1>5, <1>10 DEF Retires, AccessTimed, AskedOnce
<1> QED  BY <1>0, <1>7, <1>8, <1>9, <1>10

LEMMA TimedInvariance == Spec => [](IInv /\ RInv /\ Counted)
<1> DEFINE GInv == IInv /\ RInv
<1>1. Init => GInv /\ Counted
  BY InitIInv, InitRInv DEF Init, PortReset, Counted
<1>2. GInv /\ [Next]_vars => GInv'
  BY StutterIInv, SubtickIInv, FallIInv, RiseIInv, StutterRInv, SubtickRInv, FallRInv, RiseRInv
  DEF Next
<1>3. GInv /\ Counted /\ [Next]_vars => Counted'
  <2>1. Counted /\ UNCHANGED vars => Counted'
    BY DEF Counted, Low, Fresh, vars, portVars
  <2> QED  BY <2>1, TimedSubtick, TimedFall, TimedRise DEF Next
<1> QED  BY <1>1, <1>2, <1>3, PTL DEF Spec

(***************************************************************************)
(* Every part of an access takes the time that AccessTimed says, on every  *)
(* bus, and the LSU asks for it once in each of its states.                *)
(***************************************************************************)
THEOREM AccessTime == Spec => [][AccessTimed /\ AskedOnce]_vars
<1>1. IInv /\ RInv /\ Counted /\ [Next]_vars => [AccessTimed /\ AskedOnce]_vars
  <2> SUFFICES ASSUME IInv, RInv, Counted, Next PROVE AccessTimed /\ AskedOnce
    OBVIOUS
  <2>1. CASE Subtick
    BY <2>1, TimedSubtick DEF Subtick, AskedOnce, Sampling
  <2>2. CASE Fall
    BY <2>2, TimedFall DEF Fall, AskedOnce, Sampling
  <2>3. CASE Rise
    BY <2>3, TimedRise
  <2> QED  BY <2>1, <2>2, <2>3 DEF Next
<1> QED  BY <1>1, TimedInvariance, PTL DEF Spec

(***************************************************************************)
(* What the parts add up to on a bus that takes at most D cycles.  The     *)
(* steps an access may still take are at most its budget: one cycle in     *)
(* which it is issued, and at most D for each of its parts, a natural      *)
(* number of which every step spends one or more.                          *)
(***************************************************************************)
SecondSteps(D) == IF is_misalign /\ ~Second THEN 4 * D ELSE 0

Budget(D) ==
  SecondSteps(D) +
    IF curr_state = "IDLE" THEN StepsToEdge + 4 * D
    ELSE IF Sampling THEN 4 * D ELSE StepsLeft

AccessBounded(D) ==
  (\A d \in delays : d <= D) =>
    /\ ~InFlight /\ InFlight' => Budget(D)' = 4 + 4 * D + (IF is_misalign' THEN 4 * D ELSE 0)
    /\ InFlight => Budget(D) \in Nat /\ (InFlight' => Budget(D)' < Budget(D))

LEMMA StepsType ==
  ASSUME IInv
  PROVE  StepsToEdge \in 1 .. 4 /\ StepsLeft \in Nat
<1>1. clock \in {0, 1} /\ turn \in {"subtick", "tick"} /\ waitRespValid \in Nat
  BY DEF IInv, TypeOK
<1>2. StepsToEdge \in 1 .. 4
  BY <1>1 DEF StepsToEdge
<1> QED  BY <1>1, <1>2 DEF StepsLeft

\* A step that leaves the access in the same state of the LSU.
LEMMA BudgetSame ==
  ASSUME NEW D \in Nat \ {0}, \A d \in delays : d <= D,
         IInv, AccessTimed, AskedOnce, InFlight, InFlight',
         SecondSteps(D)' = SecondSteps(D), SecondSteps(D) \in Nat,
         curr_state' = curr_state, ~Sampling',
         StepsToEdge' < StepsToEdge, StepsToEdge' \in 1 .. 4
  PROVE  Budget(D)' < Budget(D)
<1>1. StepsToEdge \in 1 .. 4 /\ StepsLeft \in Nat
  BY StepsType
<1>2. CASE curr_state = "IDLE"
  BY <1>1, <1>2 DEF Budget
<1>3. CASE curr_state # "IDLE" /\ Sampling
  <2>1. PICK d \in delays : StepsLeft' = IF d = 0 THEN 3 ELSE 4 * d - 1
    BY <1>3 DEF AccessTimed
  <2>2. d \in Nat /\ d <= D
    BY DelaysAssumption DEF IInv, TypeOK
  <2>3. StepsLeft' < 4 * D /\ StepsLeft' \in Int
    <3>1. CASE d = 0
      BY <2>1, <3>1
    <3>2. CASE d # 0
      BY <2>1, <2>2, <3>2
    <3> QED  BY <3>1, <3>2
  <2>4. Budget(D)' = SecondSteps(D) + StepsLeft' /\ Budget(D) = SecondSteps(D) + 4 * D
    BY <1>3 DEF Budget
  <2> QED  BY <2>3, <2>4
<1>4. CASE curr_state # "IDLE" /\ ~Sampling
  <2>1. StepsLeft' = StepsLeft - 1
    BY <1>4 DEF AccessTimed, Second
  <2>2. Budget(D)' = SecondSteps(D) + StepsLeft' /\ Budget(D) = SecondSteps(D) + StepsLeft
    BY <1>4 DEF Budget
  <2> QED  BY <1>1, <2>1, <2>2
<1> QED  BY <1>2, <1>3, <1>4

LEMMA BudgetRise ==
  ASSUME NEW D \in Nat \ {0}, \A d \in delays : d <= D,
         IInv, RInv, IInv', AccessTimed, AskedOnce, Rise, InFlight, InFlight'
  PROVE  Budget(D)' < Budget(D)
<1>0. AtRise /\ (Waits \/ TakesFirst)
  BY RiseSteps DEF Quiets, Retires, Issues, CoreQuiet, InFlight, coreVars
<1>1. /\ clock = 0 /\ turn = "tick" /\ Fresh' /\ ~Sampling
      /\ (is_misalign' <=> is_misalign)
  BY <1>0 DEF Rise, Fresh, Sampling, Waits, TakesFirst, CoreStall, is_misalign, Misaligned
<1>2. StepsToEdge = 1 /\ StepsLeft \in Nat
  BY <1>1, StepsType DEF StepsToEdge
<1>3. (Sampling' <=> io_reqValid') /\ clock' = 1
  BY DEF Rise, Sampling
<1>4. curr_state' # "IDLE"
  BY <1>0 DEF Waits, TakesFirst, CoreStall, InFlight, IInv, Stages
<1>5. CASE TakesFirst
  <2>1. SecondSteps(D) = 4 * D /\ SecondSteps(D)' = 0
    BY <1>5 DEF TakesFirst, SecondSteps, Second
  <2>2. Budget(D)' = 4 * D
    BY <1>3, <1>4, <1>5, <2>1 DEF Budget, TakesFirst
  <2>3. Budget(D) = SecondSteps(D) + (IF curr_state = "IDLE" THEN 1 + 4 * D ELSE 1)
    <3>1. pend = NoRequest
      BY <1>0, <1>5 DEF AtRise, TakesFirst
    <3>2. StepsLeft = 1
      BY <1>2, <3>1 DEF StepsLeft
    <3> QED  BY <1>1, <1>2, <3>2 DEF Budget
  <2> QED  BY <2>1, <2>2, <2>3
<1>6. CASE Waits
  <2>1. SecondSteps(D)' = SecondSteps(D) /\ SecondSteps(D) \in Nat
    <3>1. Second' = Second
      BY <1>6 DEF Waits
    <3>2. SecondSteps(D) \in Nat
      BY DEF SecondSteps
    <3> QED  BY <1>1, <3>1, <3>2 DEF SecondSteps
  <2>2. CASE curr_state = "IDLE"
    <3>1. Sampling'
      BY <1>3, <1>4, <1>6, <2>2 DEF Waits
    <3>2. Budget(D)' = SecondSteps(D) + 4 * D
      BY <1>4, <2>1, <3>1 DEF Budget
    <3>3. Budget(D) = SecondSteps(D) + (1 + 4 * D)
      BY <1>2, <2>2 DEF Budget
    <3> QED  BY <2>1, <3>2, <3>3
  <2>3. CASE curr_state # "IDLE"
    <3>1. curr_state' = curr_state
      BY <1>6, <2>3 DEF Waits, Rise, Edge, Idle, Accept, AcceptAnswered, SecondPart, Finish, Wait
    <3>2. ~Sampling'
      BY <3>1 DEF AskedOnce
    <3>3. StepsLeft' = StepsLeft - 1
      BY <1>1, <3>1 DEF AccessTimed, Second
    <3>4. Budget(D)' = SecondSteps(D) + StepsLeft' /\ Budget(D) = SecondSteps(D) + StepsLeft
      BY <1>1, <1>4, <2>1, <2>3, <3>2 DEF Budget
    <3> QED  BY <1>2, <2>1, <3>3, <3>4
  <2> QED  BY <2>2, <2>3
<1> QED  BY <1>0, <1>5, <1>6

(***************************************************************************)
(* Every access on a bus that takes at most D cycles retires within        *)
(* 1 + D cycles, or 1 + 2 * D if it is misaligned, whatever the delays     *)
(* drawn: the budget of AccessBounded is spent.                            *)
(***************************************************************************)
THEOREM AccessBound ==
  ASSUME NEW D \in Nat \ {0}
  PROVE  Spec => [][AccessBounded(D)]_vars
<1>1. ASSUME IInv, RInv, IInv', AccessTimed, AskedOnce, Next, \A d \in delays : d <= D
      PROVE  AccessBounded(D)
  <2>1. InFlight => Budget(D) \in Nat
    <3>1. SecondSteps(D) \in Nat
      BY DEF SecondSteps
    <3>2. StepsToEdge \in 1 .. 4 /\ StepsLeft \in Nat
      BY <1>1, StepsType
    <3> QED  BY <3>1, <3>2 DEF Budget
  <2>2. CASE Subtick \/ Fall
    <3>1. /\ UNCHANGED <<coreVars, lsuRegs>> /\ clock \in {0, 1} /\ turn \in {"subtick", "tick"}
          /\ IF turn = "subtick" THEN clock' = clock /\ turn' = "tick"
             ELSE clock = 1 /\ clock' = 0 /\ turn' = "subtick"
      BY <1>1, <2>2 DEF Subtick, Fall, IInv, TypeOK
    <3>2. (InFlight' <=> InFlight) /\ curr_state' = curr_state /\ ~Sampling'
          /\ (is_misalign' <=> is_misalign) /\ (Second' <=> Second)
      BY <3>1 DEF coreVars, lsuRegs, InFlight, Sampling, is_misalign, Misaligned, Second
    <3>3. SecondSteps(D)' = SecondSteps(D) /\ SecondSteps(D) \in Nat
      BY <3>2 DEF SecondSteps
    <3>4. StepsToEdge' < StepsToEdge
      BY <3>1 DEF StepsToEdge
    <3>5. StepsToEdge' \in 1 .. 4
      BY <3>1 DEF StepsToEdge
    <3>6. InFlight => Budget(D)' < Budget(D)
      BY <1>1, <3>2, <3>3, <3>4, <3>5, BudgetSame
    <3> QED  BY <2>1, <3>2, <3>6 DEF AccessBounded
  <2>3. CASE Rise
    <3>1. InFlight /\ InFlight' => Budget(D)' < Budget(D)
      BY <1>1, <2>3, BudgetRise
    <3>2. ASSUME ~InFlight, InFlight'
          PROVE  Budget(D)' = 4 + 4 * D + (IF is_misalign' THEN 4 * D ELSE 0)
      <4>1. curr_state' = "IDLE"
        BY <1>1, <2>3, <3>2, RiseSteps DEF Quiets, Waits, TakesFirst, Retires, Issues
      <4>2. SecondSteps(D)' = IF is_misalign' THEN 4 * D ELSE 0
        BY <4>1 DEF SecondSteps, Second
      <4>3. StepsToEdge' = 4
        BY <2>3 DEF Rise, StepsToEdge
      <4> QED  BY <4>1, <4>2, <4>3 DEF Budget
    <3> QED  BY <2>1, <3>1, <3>2 DEF AccessBounded
  <2> QED  BY <1>1, <2>2, <2>3 DEF Next
<1>2. IInv /\ RInv /\ Counted /\ (IInv /\ RInv /\ Counted)' /\ [Next]_vars
        /\ [AccessTimed /\ AskedOnce]_vars => [AccessBounded(D)]_vars
  BY <1>1 DEF AccessBounded
<1> QED  BY <1>2, TimedInvariance, AccessTime, PTL DEF Spec
=============================================================================
