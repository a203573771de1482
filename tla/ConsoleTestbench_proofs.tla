----------------------- MODULE ConsoleTestbench_proofs -----------------------
(***************************************************************************)
(* Proofs about the console: its simulation loop, for every clock period,  *)
(* bound of the run loops, program and order of commands; that whatever is *)
(* typed, the console's loop is that one; and what the command line and    *)
(* the screen show of it.                                                  *)
(***************************************************************************)
EXTENDS ConsoleTestbench, WellFoundedInduction, TLAPS

\* The types in two parts, the flags and the rest.
FlagTypes ==
  /\ {freeRun, breakEnabled, steppingEnabled, irqEnabled, irqTriggered, simRunning, dirty}
       \subseteq BOOLEAN
  /\ {whole, hit, disturbed} \subseteq BOOLEAN

ValueTypes ==
  /\ at \in {"input", "update", "reset", "leave", "search", "exit"}
  /\ goal \in Goals /\ cnt \in 0 .. maxSteps
  /\ {breakAddr, targetPC, irqDuration} \subseteq Int /\ irqCnt \in Nat
  /\ timeStep \in 0 .. halfCycle - 1
  /\ stepSize \in Int /\ stepSize <= StepCap /\ stepCnt \in 0 .. StepCap
  /\ {clk_i, reset_i, irq_i, clk_seen, irq_seen} \subseteq {0, 1}
  /\ state \in MatrixStates /\ {pc, pc_prior} \subseteq Int
  /\ stepped \in Nat /\ edges \in 0 .. 2 /\ low \in Nat

\* Where the loops are, and what they were started for.
LoopInv ==
  /\ addrs \subseteq Int
  /\ at = "leave" => goal \in {"fetch", "decode", "execute"}
  /\ at = "search" => goal # "none"
  /\ at = "search" /\ goal \in {"ebreak", "pc"} => cnt < maxSteps
  /\ at \in {"reset", "leave", "search"} => ~whole

\* The allowance counts at least what the main loop stepped, and nothing else as
\* long as nothing else used it.
StepInv ==
  /\ stepped <= stepCnt
  /\ whole => stepped = stepCnt
  /\ StepsExact

BreakInv ==
  /\ hit => ~freeRun /\ ~steppingEnabled
  /\ BreakHolds

\* An undisturbed pulse: the core has seen no edge and the pin high, or one edge
\* and the pin low, which only the pulse itself moves.
PulseInv ==
  irqTriggered /\ ~disturbed =>
    /\ low = irqCnt
    /\ edges = 0 => irqCnt = 0 /\ irq_seen = 1 /\ (at # "update" => irq_i = 1)
    /\ edges > 0 => edges = 1 /\ irqEnabled /\ irq_seen = 0
                    /\ at \notin {"reset", "leave", "search"}
    /\ irqDuration >= 0 => irqCnt <= irqDuration + 1

\* The inductive invariant.
SimInv == SimTypeOK /\ LoopInv /\ StepInv /\ BreakInv /\ PulseInv
-----------------------------------------------------------------------------
LEMMA TypeParts ==
  /\ SimTypeOK <=> FlagTypes /\ ValueTypes
  /\ SimTypeOK' <=> FlagTypes' /\ ValueTypes'
  BY DEF SimTypeOK, FlagTypes, ValueTypes

LEMMA Sizes ==
  /\ fullCycle \in Int /\ halfCycle \in Int
  /\ 1 <= StepCap /\ halfCycle <= StepCap /\ fullCycle <= StepCap /\ 0 <= StepCap
  /\ maxSteps \in Nat /\ 0 < maxSteps /\ StepCap \in Nat
  BY SimulationAssumption DEF fullCycle

\* A remainder by the half cycle.
LEMMA Modulo ==
  ASSUME NEW n \in Nat
  PROVE  n % halfCycle \in 0 .. halfCycle - 1
  BY SimulationAssumption

LEMMA CountType ==
  ASSUME NEW n \in 0 .. StepCap
  PROVE  Count(n) \in 0 .. StepCap /\ n <= Count(n) /\ (n < StepCap => Count(n) = n + 1)
  BY Sizes DEF Count

\* One evaluation keeps the types of what it moves, and gives the core an edge
\* exactly if it last saw the pin high and now sees it low.
LEMMA TickType ==
  ASSUME SimTypeOK, LoopInv, NEW irq \in {0, 1}, Tick(irq)
  PROVE  /\ simRunning' = TRUE
         /\ {clk_i, irq_i, clk_seen, irq_seen}' \subseteq {0, 1}
         /\ irq_i' = irq /\ irq_seen' = irq
         /\ timeStep' \in 0 .. halfCycle - 1
         /\ stepCnt' \in 0 .. StepCap /\ stepCnt <= stepCnt'
         /\ stepCnt < StepCap => stepCnt' = stepCnt + 1
         /\ state' \in MatrixStates /\ {pc, pc_prior}' \subseteq Int
         /\ edges' \in 0 .. 2
         /\ edges' = IF irq_seen = 1 /\ irq = 0 /\ edges < 2 THEN edges + 1 ELSE edges
  <1> USE DEF Tick, Evaluate
  <1>1. clk_i' \in {0, 1}
    BY DEF ClockAfterBegin, SimTypeOK
  <1>2. timeStep' \in 0 .. halfCycle - 1
    BY Modulo, SimulationAssumption DEF SimTypeOK
  <1>3. /\ stepCnt' \in 0 .. StepCap /\ stepCnt <= stepCnt'
        /\ stepCnt < StepCap => stepCnt' = stepCnt + 1
    BY CountType DEF SimTypeOK
  <1>4. state' \in MatrixStates /\ {pc, pc_prior}' \subseteq Int
    BY DEF Core, Edge, SimTypeOK, LoopInv
  <1>5. edges' \in 0 .. 2
    BY DEF SimTypeOK
  <1> QED
    BY <1>1, <1>2, <1>3, <1>4, <1>5

LEMMA SimInvInit ==
  ASSUME NEW visited \in SUBSET Int, SimInit(visited)
  PROVE  SimInv
  <1> USE DEF SimInit
  <1>1. timeStep \in 0 .. halfCycle - 1
    BY Modulo
  <1>2. SimTypeOK
    <2>1. FlagTypes
      BY <1>1, Sizes, TypeParts DEF FlagTypes, Goals, MatrixStates
    <2>2. ValueTypes
      BY <1>1, Sizes, TypeParts DEF ValueTypes, Goals, MatrixStates
    <2> QED
      BY <2>1, <2>2, TypeParts
  <1> QED
    BY <1>2 DEF SimInv, LoopInv, StepInv, StepsExact, BreakInv, BreakHolds, PulseInv
-----------------------------------------------------------------------------
(***************************************************************************)
(* Commands that are carried out at once.                                  *)
(***************************************************************************)

LEMMA AllowanceKeeps ==
  ASSUME SimInv, NEW size \in Int, size <= StepCap, Allowance(size)
  PROVE  SimInv'
  <1> USE DEF Allowance, Command, CoreAlone, modes, targets, pulse, pulse_seen, pins, evaluated
  <1>1. SimTypeOK'
    <2>1. FlagTypes'
      BY Sizes, TypeParts DEF SimInv, FlagTypes
    <2>2. ValueTypes'
      BY Sizes, TypeParts DEF SimInv, ValueTypes
    <2> QED
      BY <2>1, <2>2, TypeParts
  <1>2. LoopInv'
    BY DEF SimInv, LoopInv
  <1>4. StepInv'
    BY TypeParts DEF SimInv, ValueTypes, StepInv, StepsExact
  <1>5. BreakInv'
    BY DEF SimInv, BreakInv, BreakHolds
  <1>3. PulseInv'
    BY DEF SimInv, SimTypeOK, PulseInv
  <1> QED
    BY <1>1, <1>2, <1>3, <1>4, <1>5 DEF SimInv

LEMMA PulseWaits ==
  ASSUME low' = 0, irqCnt' = 0, edges' = 0, irq_seen' = 1, at' = "update", irqDuration' \in Int
  PROVE  PulseInv'
  <1>1. ~(edges' > 0)
    OBVIOUS
  <1>2. irqDuration' >= 0 => irqCnt' <= irqDuration' + 1
    <2>1. \A d \in Int : d >= 0 => 0 <= d + 1
      OBVIOUS
    <2> QED
      BY <2>1
  <1>3. low' = irqCnt' /\ (edges' = 0 => irqCnt' = 0 /\ irq_seen' = 1)
    OBVIOUS
  <1> QED
    BY <1>1, <1>2, <1>3 DEF PulseInv

LEMMA SettingKeeps ==
  ASSUME SimInv, NEW number \in Int, NEW on \in BOOLEAN,
         \/ EnableFree(on) \/ EnableBreak(on) \/ EnableStepping(on) \/ EnableIRQ(on)
         \/ SetBreak(number) \/ SetIRQDur(number) \/ Other \/ NoCommand
  PROVE  SimInv'
  <1> USE DEF Setting, Command, CoreAlone, stepping, modes, targets, pulse, steps_seen,
        pulse_seen, history, pins, evaluated
  <1> USE DEF EnableFree, EnableBreak, EnableStepping, EnableIRQ, SetBreak, SetIRQDur, Other,
        NoCommand
  <1>1. SimTypeOK'
    <2>1. FlagTypes'
      BY TypeParts DEF SimInv, FlagTypes
    <2>2. ValueTypes'
      BY TypeParts DEF SimInv, ValueTypes
    <2> QED
      BY <2>1, <2>2, TypeParts
  <1>2. LoopInv'
    BY DEF SimInv, LoopInv
  <1>4. StepInv'
    BY TypeParts DEF SimInv, ValueTypes, StepInv, StepsExact
  <1>5. BreakInv'
    BY DEF SimInv, BreakInv, BreakHolds
  <1>3. PulseInv'
    <2> SUFFICES ASSUME irqTriggered', ~disturbed' PROVE PulseInv'
      BY DEF PulseInv
    <2>1. irqTriggered
      OBVIOUS
    <2>2. ~disturbed
      OBVIOUS
    <2>3. at' = "update" /\ UNCHANGED <<low, irqCnt, irq_seen, irq_i, edges>>
      OBVIOUS
    <2>4. edges > 0 => irqEnabled' = irqEnabled /\ irqDuration' = irqDuration
      OBVIOUS
    <2>5. irqDuration' \in Int /\ irqDuration \in Int /\ irqCnt \in Nat /\ edges \in 0 .. 2
      BY <1>1, TypeParts DEF SimInv, ValueTypes
    <2>6. PulseInv
      BY DEF SimInv
    <2>7. CASE edges = 0
      <3>1. low' = 0 /\ irqCnt' = 0 /\ irq_seen' = 1 /\ edges' = 0
        BY <2>1, <2>2, <2>3, <2>6, <2>7 DEF PulseInv
      <3> QED
        BY <2>3, <2>5, <3>1, PulseWaits
    <2>8. CASE edges > 0
      <3> HIDE DEF EnableFree, EnableBreak, EnableStepping, EnableIRQ, SetBreak, SetIRQDur, Other,
            NoCommand
      <3> QED
        BY <2>1, <2>2, <2>3, <2>4, <2>5, <2>6, <2>8 DEF PulseInv
    <2> QED
      BY <2>5, <2>7, <2>8
  <1> QED
    BY <1>1, <1>2, <1>3, <1>4, <1>5 DEF SimInv

LEMMA PressKeeps ==
  ASSUME SimInv, TriggerIRQ
  PROVE  SimInv'
  <1> USE DEF TriggerIRQ, Command, stepping, modes, targets, steps_seen, evaluated
  <1>1. SimTypeOK'
    <2>1. FlagTypes'
      BY TypeParts DEF SimInv, FlagTypes
    <2>2. ValueTypes'
      BY TypeParts DEF SimInv, ValueTypes
    <2> QED
      BY <2>1, <2>2, TypeParts
  <1>2. LoopInv'
    BY DEF SimInv, LoopInv
  <1>4. StepInv'
    BY TypeParts DEF SimInv, ValueTypes, StepInv, StepsExact
  <1>5. BreakInv'
    BY DEF SimInv, BreakInv, BreakHolds
  <1>3. PulseInv'
    <2> SUFFICES ASSUME ~disturbed' PROVE PulseInv'
      BY DEF PulseInv
    <2>1. /\ low' = 0 /\ irqCnt' = 0 /\ at' = "update"
          /\ UNCHANGED <<irqEnabled, irqDuration, irq_seen>>
      OBVIOUS
    <2>2. irqDuration \in Int /\ irq_seen \in {0, 1} /\ edges \in 0 .. 2
      BY TypeParts DEF SimInv, ValueTypes
    <2>3. CASE irqTriggered
      <3>1. ~disturbed /\ edges' = edges
        BY <2>3
      <3> QED
        BY <2>1, <2>2, <2>3, <3>1 DEF SimInv, PulseInv
    <2>4. CASE ~irqTriggered
      <3>1. edges' = 0 /\ irq_seen # 0
        BY <2>4
      <3> QED
        BY <2>1, <2>2, <3>1 DEF PulseInv
    <2> QED
      BY <2>3, <2>4
  <1> QED
    BY <1>1, <1>2, <1>3, <1>4, <1>5 DEF SimInv

LEMMA MovedPCKeeps ==
  ASSUME SimInv, NEW addr \in Int, SetPC(addr)
  PROVE  SimInv'
  <1> USE DEF SetPC, Command, stepping, modes, targets, pulse, steps_seen, pulse_seen, pins
  <1>1. SimTypeOK'
    <2>1. FlagTypes'
      BY TypeParts DEF SimInv, FlagTypes
    <2>2. ValueTypes'
      BY TypeParts DEF SimInv, ValueTypes
    <2> QED
      BY <2>1, <2>2, TypeParts
  <1>2. LoopInv'
    BY DEF SimInv, LoopInv
  <1>4. StepInv'
    BY TypeParts DEF SimInv, ValueTypes, StepInv, StepsExact
  <1>5. BreakInv'
    BY DEF SimInv, BreakInv, BreakHolds
  <1>3. PulseInv'
    BY DEF SimInv, SimTypeOK, PulseInv
  <1> QED
    BY <1>1, <1>2, <1>3, <1>4, <1>5 DEF SimInv

LEMMA ExitKeeps ==
  ASSUME SimInv, Exit
  PROVE  SimInv'
  <1> USE DEF Exit, CoreAlone, stepping, modes, targets, pulse, steps_seen, pulse_seen, history,
        pins, evaluated
  <1>1. SimTypeOK'
    <2>1. FlagTypes'
      BY TypeParts DEF SimInv, FlagTypes
    <2>2. ValueTypes'
      BY TypeParts DEF SimInv, ValueTypes
    <2> QED
      BY <2>1, <2>2, TypeParts
  <1> QED
    BY <1>1 DEF SimInv, SimTypeOK, LoopInv, StepInv, StepsExact, BreakInv, BreakHolds, PulseInv
-----------------------------------------------------------------------------
(***************************************************************************)
(* The loops.                                                              *)
(***************************************************************************)

\* An evaluation of a loop: nothing of the main loop moves but the core.
LEMMA LoopTick ==
  ASSUME SimInv, at \in {"reset", "leave", "search"}, Tick(irq_i), InLoop,
         at' \in {"reset", "leave", "search", "update"}, goal' \in Goals, cnt' \in 0 .. maxSteps
  PROVE  SimTypeOK' /\ StepInv' /\ BreakInv' /\ PulseInv' /\ addrs' \subseteq Int /\ ~whole'
  <1> USE DEF InLoop, modes, targets, pulse, steps_seen
  <1>0. irq_i \in {0, 1}
    BY DEF SimInv, SimTypeOK
  <1>1. SimTypeOK'
    <2>1. FlagTypes'
      BY <1>0, TickType, TypeParts DEF SimInv, FlagTypes
    <2>2. ValueTypes'
      BY <1>0, TickType, TypeParts DEF SimInv, ValueTypes
    <2> QED
      BY <2>1, <2>2, TypeParts
  <1>2. addrs' \subseteq Int /\ ~whole'
    BY DEF SimInv, LoopInv
  <1>3. StepInv'
    <2>0. stepCnt <= stepCnt' /\ stepCnt' \in 0 .. StepCap
      BY <1>0, TickType DEF SimInv
    <2>1. stepCnt <= stepCnt' /\ stepCnt \in Nat /\ stepCnt' \in Nat /\ stepped \in Nat
      BY <2>0, TypeParts, Sizes DEF SimInv, ValueTypes
    <2>2. at' # "input" /\ UNCHANGED <<stepped, stepSize>>
      OBVIOUS
    <2>3. stepped <= stepCnt /\ (stepped > 0 => stepped <= stepSize)
      BY DEF SimInv, StepInv, StepsExact
    <2> QED
      BY <1>2, <2>1, <2>2, <2>3 DEF StepInv, StepsExact
  <1>4. BreakInv'
    BY DEF SimInv, BreakInv, BreakHolds
  <1>5. PulseInv'
    <2> SUFFICES ASSUME irqTriggered', ~disturbed' PROVE PulseInv'
      BY DEF PulseInv
    <2>1. irqTriggered /\ ~disturbed /\ UNCHANGED <<low, irqCnt, irqEnabled, irqDuration>>
      OBVIOUS
    <2>2. edges = 0 /\ low = irqCnt /\ irqCnt = 0 /\ irq_i = 1 /\ irq_seen = 1
      BY <2>1, TypeParts DEF SimInv, ValueTypes, PulseInv
    <2>3. edges' = 0 /\ irq_i' = 1 /\ irq_seen' = 1
      BY <1>0, <2>2, TickType DEF SimInv
    <2>4. irqDuration \in Int
      BY TypeParts DEF SimInv, ValueTypes
    <2> QED
      BY <2>1, <2>2, <2>3, <2>4 DEF PulseInv
  <1> QED
    BY <1>1, <1>2, <1>3, <1>4, <1>5

LEMMA ResetKeeps ==
  ASSUME SimInv, BeginReset \/ UpdateReset \/ EndReset
  PROVE  SimInv'
  <1>1. CASE BeginReset
    <2> USE <1>1 DEF BeginReset, modes, targets, pulse, evaluated
    <2>1. SimTypeOK'
      <3>1. FlagTypes'
        BY SimulationAssumption, Sizes, TypeParts DEF SimInv, FlagTypes
      <3>2. ValueTypes'
        BY SimulationAssumption, Sizes, TypeParts DEF SimInv, ValueTypes
      <3> QED
        BY <3>1, <3>2, TypeParts
    <2> QED
      BY <2>1 DEF SimInv, SimTypeOK, LoopInv, StepInv, StepsExact, BreakInv, BreakHolds, PulseInv
  <1>2. CASE UpdateReset
    BY <1>2, LoopTick DEF UpdateReset, program, SimInv, SimTypeOK, LoopInv
  <1>3. CASE EndReset
    <2> USE <1>3 DEF EndReset, modes, targets, pulse, stepping, evaluated, history, steps_seen,
          pulse_seen
    <2>1. SimTypeOK'
      <3>1. FlagTypes'
        BY TypeParts DEF SimInv, FlagTypes
      <3>2. ValueTypes'
        BY TypeParts DEF SimInv, ValueTypes
      <3> QED
        BY <3>1, <3>2, TypeParts
    <2> QED
      BY <2>1 DEF SimInv, SimTypeOK, LoopInv, StepInv, StepsExact, BreakInv, BreakHolds, PulseInv
  <1> QED
    BY <1>1, <1>2, <1>3

LEMMA RunBegins ==
  ASSUME SimInv, NEW g \in Goals \ {"none"}, NEW target \in Int, RunTo(g, target)
  PROVE  SimInv'
  <1> USE DEF RunTo, CoreAlone, modes, pulse, stepping, pins, evaluated
  <1>1. at = "input" /\ at' \in {"leave", "search"} /\ goal' = g /\ cnt' = 0 /\ ~whole'
    OBVIOUS
  <1>2. SimTypeOK'
    <2>1. FlagTypes'
      BY Sizes, TypeParts DEF SimInv, FlagTypes
    <2>2. ValueTypes'
      BY Sizes, TypeParts DEF SimInv, ValueTypes
    <2> QED
      BY <2>1, <2>2, TypeParts
  <1>3. LoopInv'
    BY <1>1, Sizes DEF SimInv, LoopInv, Goals
  <1>4. StepInv' /\ BreakInv'
    BY <1>1 DEF SimInv, SimTypeOK, StepInv, StepsExact, BreakInv, BreakHolds
  <1>5. PulseInv'
    BY <1>1 DEF SimInv, SimTypeOK, PulseInv
  <1> QED
    BY <1>2, <1>3, <1>4, <1>5 DEF SimInv

\* A loop that goes on without an evaluation, or ends.
LEMMA LoopMoves ==
  ASSUME SimInv, at \in {"leave", "search"}, at' \in {"search", "update"},
         goal' \in Goals, cnt' = 0, at' = "search" => goal' \in {"fetch", "decode", "execute"},
         CoreAlone, UNCHANGED <<addrs, modes, targets, pulse, stepping, history>>
  PROVE  SimInv'
  <1> USE DEF CoreAlone, modes, targets, pulse, stepping, history, steps_seen, pulse_seen, pins,
        evaluated
  <1>1. SimTypeOK'
    <2>1. FlagTypes'
      BY Sizes, TypeParts DEF SimInv, FlagTypes
    <2>2. ValueTypes'
      BY Sizes, TypeParts DEF SimInv, ValueTypes
    <2> QED
      BY <2>1, <2>2, TypeParts
  <1> QED
    BY <1>1 DEF SimInv, SimTypeOK, LoopInv, StepInv, StepsExact, BreakInv, BreakHolds, PulseInv

LEMMA RunKeeps ==
  ASSUME SimInv, Leave \/ SearchState \/ SearchValue
  PROVE  SimInv'
  <1>t. goal \in Goals /\ cnt \in 0 .. maxSteps /\ maxSteps \in Nat
    BY Sizes DEF SimInv, SimTypeOK
  <1>1. CASE Leave
    <2>g. at = "leave" /\ goal \in {"fetch", "decode", "execute"}
      BY <1>1 DEF Leave, SimInv, LoopInv
    <2>1. CASE Leaving
      <3>1. /\ Tick(irq_i) /\ InLoop
            /\ at' = at /\ goal' = goal /\ cnt' \in 0 .. maxSteps
        BY <1>1, <1>t, <2>1 DEF Leave
      <3> QED
        BY <2>g, <3>1, <1>t, LoopTick DEF SimInv, LoopInv
    <2>2. CASE ~Leaving
      BY <1>1, <1>t, <2>g, <2>2, LoopMoves DEF Leave
    <2> QED
      BY <2>1, <2>2
  <1>2. CASE SearchState
    <2>1. CASE Searching
      <3>1. /\ at = "search" /\ goal \in {"fetch", "decode", "execute"}
            /\ Tick(irq_i) /\ InLoop
            /\ at' = at /\ goal' = goal /\ cnt' \in 0 .. maxSteps
        BY <1>2, <1>t, <2>1 DEF SearchState, Searching
      <3> QED
        BY <3>1, <1>t, LoopTick DEF SimInv, LoopInv
    <2>2. CASE ~Searching
      BY <1>2, <2>2, LoopMoves DEF SearchState, Goals
    <2> QED
      BY <2>1, <2>2
  <1>3. CASE SearchValue
    <2>1. /\ at = "search" /\ goal \in {"ebreak", "pc"} /\ cnt < maxSteps
          /\ Tick(irq_i) /\ InLoop
      BY <1>3 DEF SearchValue, SimInv, LoopInv
    <2>2. \/ at' = "update" /\ goal' = "none" /\ cnt' = 0
          \/ at' = at /\ goal' = goal /\ cnt' = cnt + 1 /\ cnt + 1 # maxSteps
      BY <1>3 DEF SearchValue
    <2>3. goal' \in Goals /\ cnt' \in 0 .. maxSteps
      BY <1>t, <2>1, <2>2 DEF Goals
    <2> QED
      BY <1>t, <2>1, <2>2, <2>3, LoopTick DEF SimInv, LoopInv
  <1> QED
    BY <1>1, <1>2, <1>3
-----------------------------------------------------------------------------
(***************************************************************************)
(* The end of a pass.                                                      *)
(***************************************************************************)

LEMMA StepKeeps ==
  ASSUME SimInv, UpdateStep
  PROVE  SimInv'
  <1> DEFINE irq == IF PulseLow THEN 0 ELSE 1
  <1> USE DEF UpdateStep, targets
  <1>t. SimTypeOK /\ LoopInv /\ irq \in {0, 1} /\ Tick(irq)
    BY DEF SimInv
  <1>f. freeRun' = (freeRun /\ ~BreakMet)
    BY DEF Break
  <1>1. SimTypeOK'
    <2>1. irqCnt' \in Nat /\ low' \in Nat
      BY <1>t DEF SimTypeOK, Pulse
    <2>2. {breakEnabled, freeRun, hit, irqTriggered, whole}' \subseteq BOOLEAN
      BY <1>t DEF SimTypeOK, Break, Pulse
    <2>3. stepped' \in Nat
      BY <1>t DEF SimTypeOK
    <2> QED
      BY <1>t, <2>1, <2>2, <2>3, TickType DEF SimTypeOK, Pulse
  <1>2. LoopInv'
    BY DEF SimInv, LoopInv
  <1>3. StepInv'
    <2>1. steppingEnabled => stepCnt < stepSize /\ stepCnt' = stepCnt + 1
      <3>1. stepSize <= StepCap /\ stepSize \in Int /\ stepCnt \in Int /\ StepCap \in Int
        BY <1>t, TypeParts, Sizes DEF ValueTypes
      <3>2. steppingEnabled => stepCnt < stepSize
        BY DEF canStep
      <3>3. stepCnt < StepCap => stepCnt' = stepCnt + 1
        BY <1>t, TickType
      <3> QED
        BY <3>1, <3>2, <3>3
    <2>2. stepCnt <= stepCnt' /\ simRunning'
      BY <1>t, TickType
    <2> QED
      BY <1>t, <2>1, <2>2, TickType DEF SimInv, SimTypeOK, StepInv, StepsExact
  <1>4. BreakInv'
    <2>1. ~hit
      BY DEF SimInv, BreakInv, canStep
    <2>2. ~hit'
      BY <2>1 DEF Break, canStep
    <2> QED
      BY <2>2 DEF BreakInv, BreakHolds
  <1>5. PulseInv'
    <2> SUFFICES ASSUME irqTriggered', ~disturbed' PROVE PulseInv'
      BY DEF PulseInv
    <2>1. irqTriggered /\ ~disturbed /\ ~PulseEnds
      BY DEF Pulse
    <2>2. /\ irq_i' = irq /\ irq_seen' = irq /\ at' = "input"
          /\ edges' = IF irq_seen = 1 /\ irq = 0 /\ edges < 2 THEN edges + 1 ELSE edges
      BY <1>t, TickType
    <2>3. CASE irqEnabled
      <3>1. PulseLow /\ irqCnt' = irqCnt + 1 /\ low' = low + 1 /\ irqDuration' = irqDuration
        BY <1>t, <2>1, <2>3 DEF Pulse, PulseEnds, PulseLow, SimTypeOK
      <3> QED
        BY <1>t, <2>1, <2>2, <2>3, <3>1 DEF SimInv, SimTypeOK, PulseInv, Pulse, PulseLow
    <2>4. CASE ~irqEnabled
      <3>1. ~PulseLow /\ irqCnt' = irqCnt /\ low' = low /\ irqDuration' = irqDuration
        BY <2>1, <2>4 DEF Pulse, PulseEnds, PulseLow
      <3> QED
        BY <1>t, <2>1, <2>2, <2>4, <3>1 DEF SimInv, SimTypeOK, PulseInv
    <2> QED
      BY <1>t, <2>3, <2>4 DEF SimTypeOK
  <1> QED
    BY <1>1, <1>2, <1>3, <1>4, <1>5 DEF SimInv

LEMMA IdleKeeps ==
  ASSUME SimInv, UpdateIdle
  PROVE  SimInv'
  <1> USE DEF UpdateIdle, targets, pulse, stepping, evaluated, steps_seen, pulse_seen
  <1>1. SimTypeOK'
    <2>1. FlagTypes'
      BY TypeParts DEF SimInv, FlagTypes, Break
    <2>2. ValueTypes'
      BY TypeParts DEF SimInv, ValueTypes, Break
    <2> QED
      BY <2>1, <2>2, TypeParts
  <1>2. LoopInv'
    BY DEF SimInv, LoopInv
  <1>3. StepInv'
    BY DEF SimInv, SimTypeOK, StepInv, StepsExact, canStep
  <1>4. BreakInv'
    BY DEF SimInv, SimTypeOK, BreakInv, BreakHolds, Break
  <1>5. PulseInv'
    BY DEF SimInv, SimTypeOK, PulseInv
  <1> QED
    BY <1>1, <1>2, <1>3, <1>4, <1>5 DEF SimInv

LEMMA SimInvNext ==
  ASSUME SimInv, [SimNext]_vars
  PROVE  SimInv'
  <1>1. CASE SimCommand
    <2>1. CASE NStep \/ HCStep \/ FLStep \/ Halt \/ \E number \in Int : SetStepSize(number)
      BY <2>1, AllowanceKeeps, Sizes DEF NStep, HCStep, FLStep, Halt, SetStepSize
    <2>2. CASE \E number \in Int : SetIRQDur(number) \/ SetBreak(number)
      BY <2>2, SettingKeeps
    <2>3. CASE \E number \in Int : SetPC(number)
      BY <2>3, MovedPCKeeps
    <2>4. CASE \E on \in BOOLEAN :
                 EnableFree(on) \/ EnableBreak(on) \/ EnableStepping(on) \/ EnableIRQ(on)
      BY <2>4, SettingKeeps, 0 \in Int
    <2>5. CASE Other \/ NoCommand
      BY <2>5, SettingKeeps, 0 \in Int
    <2>6. CASE TriggerIRQ \/ Exit
      BY <2>6, PressKeeps, ExitKeeps
    <2>7. CASE BeginReset
      BY <2>7, ResetKeeps
    <2>8. CASE \E g \in Goals \ {"none"}, target \in Int : RunTo(g, target)
      BY <2>8, RunBegins
    <2> QED
      BY <1>1, <2>1, <2>2, <2>3, <2>4, <2>5, <2>6, <2>7, <2>8 DEF SimCommand
  <1>2. CASE ProgramStep
    BY <1>2, ResetKeeps, RunKeeps, StepKeeps, IdleKeeps DEF ProgramStep
  <1>3. CASE UNCHANGED vars
    <2> USE <1>3 DEF vars, program, modes, targets, pulse, stepping, pins, evaluated, history,
          steps_seen, pulse_seen
    <2>1. SimTypeOK'
      <3>1. FlagTypes'
        BY TypeParts DEF SimInv, FlagTypes
      <3>2. ValueTypes'
        BY TypeParts DEF SimInv, ValueTypes
      <3> QED
        BY <3>1, <3>2, TypeParts
    <2> QED
      BY <2>1 DEF SimInv, LoopInv, StepInv, StepsExact, BreakInv, BreakHolds, PulseInv
  <1> QED
    BY <1>1, <1>2, <1>3 DEF SimNext

LEMMA SimInvariant == SimSpec => []SimInv
  <1>1. (\E visited \in SUBSET Int : SimInit(visited)) => SimInv
    BY SimInvInit
  <1> QED
    BY <1>1, SimInvNext, PTL DEF SimSpec
-----------------------------------------------------------------------------
\* Type correctness: no counter of a loop passes its bound, whatever the core does.
THEOREM SimTypes == SimSpec => []SimTypeOK
  BY SimInvariant, PTL DEF SimInv

\* The core is evaluated as often as a step command asked for, and no more.
THEOREM StepsAreExact == SimSpec => []StepsExact
  BY SimInvariant, PTL DEF SimInv, StepInv

\* A free run that met its breakpoint stands until it is started again.
THEOREM BreakStops == SimSpec => []BreakHolds
  BY SimInvariant, PTL DEF SimInv, BreakInv

\* A press of Home is one falling edge and a pulse no shorter than its duration.
THEOREM PulseIsWhole == SimSpec => PulseWhole
  <1>1. SimInv /\ [SimNext]_vars =>
          [irqTriggered /\ ~irqTriggered' /\ ~disturbed /\ irqDuration >= 0 =>
             edges = 1 /\ low >= irqDuration]_vars
    <2> SUFFICES ASSUME SimInv, SimNext, irqTriggered, ~irqTriggered', ~disturbed,
                        irqDuration >= 0
                 PROVE  edges = 1 /\ low >= irqDuration
      OBVIOUS
    <2>1. CASE UpdateStep
      <3>1. PulseEnds
        BY <2>1 DEF UpdateStep, Pulse
      <3>2. edges = 1 /\ low = irqDuration + 1
        BY <3>1 DEF PulseEnds, SimInv, SimTypeOK, PulseInv
      <3>3. irqDuration \in Int
        BY DEF SimInv, SimTypeOK
      <3> QED
        BY <3>2, <3>3
    <2>2. CASE SimNext /\ ~UpdateStep
      <3>1. irqTriggered' = irqTriggered \/ TriggerIRQ
        BY <2>2 DEF SimNext, SimCommand, ProgramStep, NStep, HCStep, FLStep, Halt, SetStepSize,
           Allowance, SetIRQDur, SetBreak, SetPC, EnableFree, EnableBreak, EnableStepping,
           EnableIRQ, Other, NoCommand, Exit, BeginReset, RunTo, UpdateReset, EndReset, Leave,
           SearchState, SearchValue, UpdateIdle, InLoop, pulse
      <3> QED
        BY <3>1 DEF TriggerIRQ
    <2> QED
      BY <2>1, <2>2
  <1> QED
    BY <1>1, SimInvariant, PTL DEF SimSpec, PulseWhole
-----------------------------------------------------------------------------
(***************************************************************************)
(* The console.                                                            *)
(***************************************************************************)

\* What the arguments of a command can be.
LEMMA Arguments ==
  /\ getArg1Int' \in Int /\ 4 * getArg1Int' \in Int
  /\ \A n \in getArg2Ints' : n \in Int /\ 4 * n \in Int
  /\ getArg1Bool' \in BOOLEAN
  <1>1. \A field : IntOf(field) \in Int
    BY InputAssumption DEF IntOf
  <1>2. getArg1Int' \in Int
    BY <1>1 DEF getArg1Int
  <1>3. getArg2Ints' \subseteq Int
    BY <1>1, InputAssumption DEF getArg2Ints, getArg2Int
  <1>4. \A n \in Int : 4 * n \in Int
    OBVIOUS
  <1>5. getArg1Bool' \in BOOLEAN
    BY DEF getArg1Bool
  <1> QED
    BY <1>2, <1>3, <1>4, <1>5

\* A key is a command of the simulation, one that it ignores or none.
LEMMA KeySteps ==
  ASSUME Key
  PROVE  SimCommand
  <1>1. CASE Steps
    BY <1>1, Arguments DEF Steps, SimCommand
  <1>2. CASE Modes
    BY <1>2, Arguments DEF Modes, SimCommand
  <1>3. CASE Breakpoint
    BY <1>3, Arguments DEF Breakpoint, word_to_byte_addr, SimCommand
  <1>4. CASE Settings \/ Delay \/ Window \/ Memory \/ Registers
    BY <1>4 DEF Settings, Delay, Window, Memory, Registers, SimCommand
  <1>5. CASE Home
    BY <1>5 DEF Home, SimCommand
  <1>6. CASE SetProgramCounter
    BY <1>6, Arguments DEF SetProgramCounter, word_to_byte_addr, SimCommand
  <1>7. CASE Signal
    BY <1>7 DEF Signal, SimCommand
  <1>8. CASE Run
    <2>1. CASE \E g \in DOMAIN Names, n \in getArg2Ints' : RunTo(g, word_to_byte_addr(n))
      <3>1. DOMAIN Names \subseteq Goals \ {"none"}
        BY DEF Names, Goals
      <3> QED
        BY <2>1, <3>1, Arguments DEF word_to_byte_addr, SimCommand
    <2>2. CASE Other
      BY <2>2 DEF SimCommand
    <2> QED
      BY <1>8, <2>1, <2>2 DEF Run
  <1>9. CASE Nothing \/ Quit
    BY <1>9 DEF Nothing, Quit, SimCommand
  <1> QED
    BY <1>1, <1>2, <1>3, <1>4, <1>5, <1>6, <1>7, <1>8, <1>9 DEF Key

LEMMA PassSteps ==
  ASSUME Pass
  PROVE  ProgramStep
  BY DEF Pass, Looping, Stepping, Resting, ProgramStep

\* The command line and the screen constrain the simulation and never move it.
THEOREM ConsoleImplementsSimulation == ConsoleSpec => SimSpec
  <1>1. ConsoleInit => \E visited \in SUBSET Int : SimInit(visited)
    BY SessionAssumption DEF ConsoleInit
  <1>2. [ConsoleNext]_consoleVars => [SimNext]_vars
    BY KeySteps, PassSteps DEF ConsoleNext, consoleVars, SimNext
  <1> QED
    BY <1>1, <1>2, PTL DEF ConsoleSpec, SimSpec

\* At the console, too, stepping is exact and a breakpoint holds.
THEOREM ConsoleHolds == ConsoleSpec => [](SimTypeOK /\ StepsExact /\ BreakHolds) /\ PulseWhole
  BY ConsoleImplementsSimulation, SimTypes, StepsAreExact, BreakStops, PulseIsWhole, PTL
-----------------------------------------------------------------------------
(***************************************************************************)
(* The command line.                                                       *)
(***************************************************************************)

\* The table, word by word: each word once, and beside it the command it asks for.
LEMMA Table ==
  /\ DOMAIN Dispatch = 1 .. 23
  /\ \A i \in 1 .. 23 : Dispatch[i][1] \in DOMAIN Meaning /\ Dispatch[i][2] = Meaning[Dispatch[i][1]]
  /\ \A i, j \in 1 .. 23 : Dispatch[i][1] = Dispatch[j][1] => i = j
  BY SMTT(30) DEF Dispatch, Meaning

\* How many arguments each takes.
LEMMA TableArguments ==
  /\ \A i \in 1 .. 23 : Dispatch[i][3] # <<>> => Len(Dispatch[i][3]) = 1 \/ Len(Dispatch[i][3]) = 2
  /\ \A i \in 1 .. 23 : Dispatch[i][2] \in TwoArguments => Len(Dispatch[i][3]) = 2
  <1>1. \A i \in {1, 2, 12, 14} : Len(Dispatch[i][3]) = 2
    BY SMTT(30) DEF Dispatch
  <1>2. \A i \in {3, 9, 10, 11, 13} \cup 15 .. 23 : Len(Dispatch[i][3]) = 1
    BY SMTT(30) DEF Dispatch
  <1>3. \A i \in 4 .. 8 : Dispatch[i][3] = <<>>
    BY SMTT(30) DEF Dispatch
  <1>4. \A i \in {3} \cup (4 .. 11) \cup {13} \cup 15 .. 23 : Dispatch[i][2] \notin TwoArguments
    BY SMTT(30) DEF Dispatch, TwoArguments
  <1>5. \A i \in 1 .. 23 : i \in {1, 2, 12, 14} \/ i \in {3, 9, 10, 11, 13} \cup 15 .. 23 \/ i \in 4 .. 8
    OBVIOUS
  <1>6. \A i \in 1 .. 23 : i \in {1, 2, 12, 14} \/ i \in {3} \cup (4 .. 11) \cup {13} \cup 15 .. 23
    OBVIOUS
  <1> QED BY <1>1, <1>2, <1>3, <1>4, <1>5, <1>6

\* Every word that README.md explains is in the table.
LEMMA TableCovers == \A word \in DOMAIN Meaning : \E i \in 1 .. 23 : Dispatch[i][1] = word
  BY SMTT(30) DEF Dispatch, Meaning

\* A set of numbers of tests has a least one.
LEMMA Least ==
  ASSUME NEW S \in SUBSET (1 .. 23), S # {}
  PROVE  \E k \in S : \A j \in S : k <= j
  <1> DEFINE Less == {p \in Nat \X Nat : p[1] < p[2]}
  <1>1. IsWellFoundedOn(Less, Nat)
    BY NatLessThanWellFounded DEF OpToRel
  <1> HIDE DEF Less
  <1>2. S \subseteq Nat
    OBVIOUS
  <1>3. PICK k \in S : \A j \in S : ~(<<j, k>> \in Less)
    BY <1>1, <1>2, WFMin
  <1>4. \A j \in S : ~(j < k)
    BY <1>2, <1>3 DEF Less
  <1> QED BY <1>2, <1>4

\* The words that extend another one's, and the words that are whole lines.
LEMMA TableBegins ==
  /\ Dispatch[17][1] = "bra" /\ Dispatch[18][1] = "br"
  /\ Dispatch[21][1] = "irqt" /\ Dispatch[22][1] = "irqd" /\ Dispatch[23][1] = "irq"
  BY DEF Dispatch

LEMMA TableAlone ==
  \A i \in 1 .. 23 : Dispatch[i][3] = <<>> <=> Dispatch[i][1] \in Alone
  <1>1. \A i \in 4 .. 8 : Dispatch[i][3] = <<>> /\ Dispatch[i][1] \in Alone
    BY SMTT(30) DEF Dispatch, Alone
  <1>2. \A i \in (1 .. 3) \cup 9 .. 23 : Dispatch[i][1] \notin Alone
    BY SMTT(30) DEF Dispatch, Alone
  <1>3. \A i \in (1 .. 3) \cup 9 .. 23 : Len(Dispatch[i][3]) = 1 \/ Len(Dispatch[i][3]) = 2
    BY SMTT(30) DEF Dispatch
  <1>4. Len(<<>>) = 0
    OBVIOUS
  <1>5. \A i \in (1 .. 3) \cup 9 .. 23 : Dispatch[i][3] # <<>>
    <2> SUFFICES ASSUME NEW i \in (1 .. 3) \cup 9 .. 23 PROVE Dispatch[i][3] # <<>>
      OBVIOUS
    <2>1. Len(Dispatch[i][3]) = 1 \/ Len(Dispatch[i][3]) = 2
      BY <1>3, Zenon
    <2>2. 0 # 1 /\ 0 # 2
      OBVIOUS
    <2> QED BY <1>4, <2>1, <2>2, Zenon
  <1>6. \A i \in 1 .. 23 : i \in 4 .. 8 \/ i \in (1 .. 3) \cup 9 .. 23
    OBVIOUS
  <1> QED BY <1>1, <1>2, <1>5, <1>6, Zenon

\* What stands for an argument that README.md describes as left out.
LEMMA TableUnderstood ==
  /\ \A i \in 1 .. 23 : Dispatch[i][1] \in DOMAIN Understood =>
       Len(Dispatch[i][3]) = 1 /\ Dispatch[i][3][1] = Understood[Dispatch[i][1]]
                             /\ Dispatch[i][3][1] # "keep"
  /\ \A i \in 1 .. 23 : Dispatch[i][1] = "crg" =>
       Len(Dispatch[i][3]) = 2 /\ Dispatch[i][3][2] = "0"
  <1>1. \A i \in {13, 18, 20, 23} : /\ Len(Dispatch[i][3]) = 1
                                    /\ Dispatch[i][3][1] = Understood[Dispatch[i][1]]
                                    /\ Dispatch[i][3][1] # "keep"
    BY SMTT(30) DEF Dispatch, Understood
  <1>2. \A i \in (1 .. 12) \cup (14 .. 17) \cup {19, 21, 22} : Dispatch[i][1] \notin DOMAIN Understood
    <2>1. DOMAIN Understood = {"mr", "br", "stp", "irq"}
      BY DEF Understood
    <2>2. \A i \in 1 .. 12 : Dispatch[i][1] \notin {"mr", "br", "stp", "irq"}
      BY SMTT(30) DEF Dispatch
    <2>3. \A i \in (14 .. 17) \cup {19, 21, 22} : Dispatch[i][1] \notin {"mr", "br", "stp", "irq"}
      BY SMTT(30) DEF Dispatch
    <2> QED BY <2>1, <2>2, <2>3
  <1>3. Len(Dispatch[12][3]) = 2 /\ Dispatch[12][3][2] = "0"
    BY SMTT(30) DEF Dispatch
  <1>4. \A i \in (1 .. 11) \cup 13 .. 23 : Dispatch[i][1] # "crg"
    BY SMTT(30) DEF Dispatch
  <1>5. \A i \in 1 .. 23 : /\ i \in {13, 18, 20, 23} \/ i \in (1 .. 12) \cup (14 .. 17) \cup {19, 21, 22}
                           /\ i = 12 \/ i \in (1 .. 11) \cup 13 .. 23
    OBVIOUS
  <1> QED BY <1>1, <1>2, <1>3, <1>4, <1>5

\* Every word that a line may be meant to give is one of the table's tests.
LEMMA AskedTested ==
  ASSUME NEW line, NEW word \in Asked(line)
  PROVE  \E i \in Matching(line) : i \in 1 .. 23 /\ Dispatch[i][1] = word
  <1>1. PICK i \in 1 .. 23 : Dispatch[i][1] = word
    BY TableCovers DEF Asked
  <1>2. IF word \in Alone THEN line = <<word>> ELSE Begins(word, line[1])
    BY DEF Asked
  <1>3. i \in Matching(line)
    BY <1>1, <1>2, Table, TableAlone DEF Matching
  <1> QED BY <1>1, <1>3

\* The first test that succeeds is that of the longest word: no word of the table
\* that extends it is tested later, or could begin the same line.
LEMMA OwnWord ==
  ASSUME NEW line, Matching(line) # {}
  PROVE  /\ Tested(line) \in Matching(line) /\ Tested(line) \in 1 .. 23
         /\ Dispatch[Tested(line)][1] \in Asked(line)
         /\ \A longer \in Asked(line) :
              Begins(Dispatch[Tested(line)][1], longer) => longer = Dispatch[Tested(line)][1]
  <1>1. Matching(line) \subseteq 1 .. 23
    BY Table DEF Matching
  <1>2. PICK k \in Matching(line) : \A j \in Matching(line) : k <= j
    BY <1>1, Least
  <1>3. \A m \in Matching(line) : (\A j \in Matching(line) : m <= j) => m = k
    BY <1>1, <1>2
  <1>4. Tested(line) = k /\ k \in 1 .. 23
    BY <1>1, <1>2, <1>3 DEF Tested
  <1>5. Dispatch[k][1] \in Asked(line)
    BY <1>2, <1>4, Table, TableAlone DEF Asked, Matching
  <1>6. ASSUME NEW longer \in Asked(line), Begins(Dispatch[k][1], longer)
        PROVE  longer = Dispatch[k][1]
    <2>1. PICK j \in Matching(line) : j \in 1 .. 23 /\ Dispatch[j][1] = longer
      BY AskedTested
    <2>2. Dispatch[k][1] \in Words /\ longer \in Words
      BY <1>4, <2>1, Table DEF Words
    <2>3. Dispatch[k][1] = longer \/ <<Dispatch[k][1], longer>> \in Extended
      BY <1>6, <2>2, TableAssumption
    <2>4. \A a, b \in 1 .. 23 : Dispatch[a][1] = Dispatch[b][1] => a = b
      BY Table
    <2>5. k <= j
      BY <1>2, <2>1
    <2>6. ~(Dispatch[k][1] = "br" /\ longer = "bra")
      <3> SUFFICES ASSUME Dispatch[k][1] = "br", longer = "bra" PROVE FALSE
        OBVIOUS
      <3>1. k = 18 /\ j = 17
        BY <1>4, <2>1, <2>4, TableBegins
      <3> QED BY <2>5, <3>1
    <2>7. ~(Dispatch[k][1] = "irq" /\ longer \in {"irqt", "irqd"})
      <3> SUFFICES ASSUME Dispatch[k][1] = "irq", longer \in {"irqt", "irqd"} PROVE FALSE
        OBVIOUS
      <3>1. k = 23 /\ j \in {21, 22}
        BY <1>4, <2>1, <2>4, TableBegins
      <3> QED BY <2>5, <3>1
    <2>8. ~(Dispatch[k][1] = "h" /\ longer \in {"halt", "hc"})
      <3> SUFFICES ASSUME Dispatch[k][1] = "h", longer \in {"halt", "hc"} PROVE FALSE
        OBVIOUS
      <3>1. line = <<"h">> /\ line = <<longer>>
        BY <1>5 DEF Asked, Alone
      <3>2. line[1] = "h" /\ line[1] = longer
        BY <3>1
      <3> QED BY <3>2
    <2>9. Dispatch[k][1] = longer
      BY <2>3, <2>6, <2>7, <2>8 DEF Extended
    <2> QED BY <2>9
  <1> QED BY <1>2, <1>4, <1>5, <1>6

\* The arguments are those of the last line that was a command.
Given(line) ==
  LET test == Dispatch[Tested(line)]
  IN line # <<>> /\ Matching(line) # {} =>
       /\ Len(test[3]) >= 1 => arg1 = Argument(line, 1, test[3][1], arg1)
       /\ Len(test[3]) >= 2 => arg2 = Argument(line, 2, test[3][2], arg2)

InputInv ==
  session \in DOMAIN Sessions /\ lastCmd \in Seq(STRING) /\ OwnCommand /\ Given(lastCmd)

\* A former argument that is kept is what a repeat keeps.
LEMMA ArgumentStays ==
  ASSUME NEW line, NEW i, NEW absent, NEW old, NEW arg, arg = Argument(line, i, absent, old)
  PROVE  arg = Argument(line, i, absent, arg)
  BY DEF Argument

LEMMA ReturnOwn ==
  ASSUME InputInv, NEW typed \in Seq(STRING), Return(typed), session' = session
  PROVE  /\ InputInv'
         /\ cmd' \in LineCommands /\ lastCmd' = lastCmd => UNCHANGED <<arg1, arg2>>
  <1> DEFINE line == IF typed = <<>> THEN lastCmd ELSE typed
             test == Dispatch[Tested(line)]
  <1>1. lastCmd' = line /\ line \in Seq(STRING)
    BY DEF Return, InputInv
  <1>2. CASE line = <<>> \/ Matching(line) = {}
    <2>1. cmd' = "None" /\ UNCHANGED <<arg1, arg2>>
      BY <1>2 DEF Return
    <2>2. OwnCommand'
      BY <2>1, Zenon DEF OwnCommand, LineCommands
    <2>3. Given(lastCmd)'
      BY <1>1, <1>2 DEF Given
    <2> QED BY <1>1, <2>1, <2>2, <2>3 DEF InputInv
  <1>3. CASE line # <<>> /\ Matching(line) # {}
    <2>1. /\ cmd' = test[2]
          /\ arg1' = IF Len(test[3]) >= 1 THEN Argument(line, 1, test[3][1], arg1) ELSE arg1
          /\ arg2' = IF Len(test[3]) >= 2 THEN Argument(line, 2, test[3][2], arg2) ELSE arg2
      BY <1>3 DEF Return
    <2>2. PICK i \in 1 .. 23 : /\ i = Tested(line) /\ i \in Matching(line)
                               /\ Dispatch[i][1] \in Asked(line)
                               /\ \A longer \in Asked(line) :
                                    Begins(Dispatch[i][1], longer) => longer = Dispatch[i][1]
      BY <1>3, OwnWord
    <2>t. test = Dispatch[i]
      BY <2>2
    <2>3. cmd' = Meaning[Dispatch[i][1]]
      BY <2>1, <2>2, Table
    <2>4. Len(line) \in Nat
      BY <1>1
    <2> HIDE DEF line, test
    <2>5. ASSUME Len(line) >= 2
          PROVE  arg1' = line[2]
      <3>1. Dispatch[i][3] # <<>>
        <4>1. Dispatch[i][3] = <<>> => line = <<Dispatch[i][1]>>
          BY <2>2 DEF Matching
        <4>2. \A word : Len(<<word>>) = 1
          OBVIOUS
        <4>3. \A n \in Nat : n >= 2 => n # 1
          OBVIOUS
        <4> QED BY <2>4, <2>5, <4>1, <4>2, <4>3, Zenon
      <3>2. Len(Dispatch[i][3]) = 1 \/ Len(Dispatch[i][3]) = 2
        BY <3>1, TableArguments
      <3>3. Len(test[3]) = 1 \/ Len(test[3]) = 2
        BY <2>t, <3>2, Zenon
      <3>4. \A n : n = 1 \/ n = 2 => n >= 1
        OBVIOUS
      <3>5. Len(test[3]) >= 1
        BY <3>3, <3>4, Zenon
      <3>6. arg1' = Argument(line, 1, test[3][1], arg1)
        BY <2>1, <3>5, Zenon
      <3> QED BY <2>4, <2>5, <3>6 DEF Argument
    <2>6. ASSUME Len(line) >= 3, cmd' \in TwoArguments
          PROVE  arg2' = line[3]
      <3>1. Len(test[3]) = 2
        BY <2>1, <2>t, <2>6, TableArguments
      <3>2. Len(test[3]) >= 2
        BY <3>1
      <3>3. arg2' = Argument(line, 2, test[3][2], arg2)
        BY <2>1, <3>2, Zenon
      <3> QED BY <2>4, <2>6, <3>3 DEF Argument
    <2>7. ASSUME Len(line) = 1, Dispatch[i][1] \in DOMAIN Understood
          PROVE  arg1' = Understood[Dispatch[i][1]]
      <3>1. /\ Len(test[3]) = 1 /\ test[3][1] = Understood[Dispatch[i][1]]
            /\ test[3][1] # "keep"
        BY <2>t, <2>7, TableUnderstood
      <3>2. Len(test[3]) >= 1
        BY <3>1
      <3>3. arg1' = Argument(line, 1, test[3][1], arg1)
        BY <2>1, <3>2, Zenon
      <3> QED BY <2>7, <3>1, <3>3 DEF Argument
    <2>8. ASSUME Len(line) = 2, Dispatch[i][1] = "crg"
          PROVE  arg2' = "0"
      <3>1. Len(test[3]) = 2 /\ test[3][2] = "0"
        BY <2>t, <2>8, TableUnderstood
      <3>2. Len(test[3]) >= 2
        BY <3>1
      <3>3. arg2' = Argument(line, 2, test[3][2], arg2)
        BY <2>1, <3>2, Zenon
      <3> QED BY <2>8, <3>1, <3>3 DEF Argument
    <2>9. OwnCommand'
      BY <1>1, <1>3, <2>2, <2>3, <2>5, <2>6, <2>7, <2>8 DEF OwnCommand
    <2>10. /\ Len(test[3]) >= 1 => arg1' = Argument(line, 1, test[3][1], arg1')
           /\ Len(test[3]) >= 2 => arg2' = Argument(line, 2, test[3][2], arg2')
      <3>1. ASSUME Len(test[3]) >= 1
            PROVE  arg1' = Argument(line, 1, test[3][1], arg1')
        <4>1. arg1' = Argument(line, 1, test[3][1], arg1)
          BY <2>1, <3>1, Zenon
        <4> QED BY <4>1, ArgumentStays
      <3>2. ASSUME Len(test[3]) >= 2
            PROVE  arg2' = Argument(line, 2, test[3][2], arg2')
        <4>1. arg2' = Argument(line, 2, test[3][2], arg2)
          BY <2>1, <3>2, Zenon
        <4> QED BY <4>1, ArgumentStays
      <3> QED BY <3>1, <3>2, Zenon
    <2>11. Given(lastCmd)'
      BY <1>1, <2>10 DEF Given, test
    <2>12. lastCmd' = lastCmd => UNCHANGED <<arg1, arg2>>
      <3> SUFFICES ASSUME line = lastCmd PROVE UNCHANGED <<arg1, arg2>>
        BY <1>1
      <3>1. /\ Len(test[3]) >= 1 => arg1 = Argument(line, 1, test[3][1], arg1)
            /\ Len(test[3]) >= 2 => arg2 = Argument(line, 2, test[3][2], arg2)
        BY <1>3 DEF InputInv, Given, test
      <3> QED BY <2>1, <3>1, Zenon
    <2> QED BY <1>1, <2>9, <2>11, <2>12 DEF InputInv
  <1> QED BY <1>2, <1>3

LEMMA PressedOwn ==
  ASSUME InputInv, session' = session,
         NEW key \in {"tick", "up", "down", "home", "none"}, Pressed(key)
  PROVE  InputInv' /\ cmd' \notin LineCommands
  <1>1. cmd' \in {"None", "Exit", "MemScrollUp", "MemScrollDwn", "TriggerIRQ"}
    BY DEF Pressed
  <1>2. UNCHANGED <<lastCmd, arg1, arg2>>
    BY DEF Pressed
  <1>3. cmd' \notin LineCommands
    BY <1>1 DEF LineCommands
  <1>4. OwnCommand'
    BY <1>3, Zenon DEF OwnCommand
  <1>5. Given(lastCmd)'
    BY <1>2 DEF InputInv, Given
  <1> QED BY <1>2, <1>3, <1>4, <1>5 DEF InputInv

LEMMA InputInvNext ==
  ASSUME InputInv, [ConsoleNext]_consoleVars
  PROVE  /\ InputInv'
         /\ \/ UNCHANGED input
            \/ cmd' \in LineCommands /\ lastCmd' = lastCmd => UNCHANGED <<arg1, arg2>>
  <1>1. session' = session /\ session \in DOMAIN Sessions
    BY DEF ConsoleNext, Key, Pass, consoleVars, InputInv
  <1>2. CASE \E line \in Sessions[session].lines : Return(line)
    <2>1. PICK line \in Seq(STRING) : Return(line)
      BY <1>1, <1>2, SessionAssumption
    <2> QED BY <1>1, <2>1, ReturnOwn
  <1>3. CASE \E key \in Sessions[session].keys \cup {"none"} : Pressed(key)
    <2>1. PICK key \in {"tick", "up", "down", "home", "none"} : Pressed(key)
      BY <1>1, <1>3, SessionAssumption
    <2> QED BY <1>1, <2>1, PressedOwn
  <1>4. CASE UNCHANGED input
    <2>1. cmd' = cmd /\ lastCmd' = lastCmd /\ arg1' = arg1 /\ arg2' = arg2
      BY <1>4 DEF input
    <2>2. OwnCommand'
      BY <2>1 DEF InputInv, OwnCommand
    <2>3. Given(lastCmd)'
      BY <2>1 DEF InputInv, Given
    <2> QED BY <1>1, <1>4, <2>1, <2>2, <2>3 DEF InputInv
  <1> QED BY <1>2, <1>3, <1>4 DEF ConsoleNext, Key, Pass, handleInput, consoleVars

\* Every key gives the command of the longest word that begins its line, with that
\* line's arguments, whatever was typed before; a line given again keeps them.
THEOREM CommandsKeepTheirOwn == ConsoleSpec => CommandsOwn
  <1>1. ConsoleInit => InputInv
    <2> SUFFICES ASSUME ConsoleInit PROVE InputInv
      OBVIOUS
    <2>1. session \in DOMAIN Sessions /\ cmd = "None" /\ lastCmd = <<>>
      BY DEF ConsoleInit, InputInit
    <2>2. <<>> \in Seq(STRING)
      OBVIOUS
    <2>3. cmd \notin LineCommands
      BY <2>1 DEF LineCommands
    <2> QED BY <2>1, <2>2, <2>3 DEF InputInv, OwnCommand, Given
  <1>2. InputInv /\ [ConsoleNext]_consoleVars => InputInv'
    BY InputInvNext
  <1>3. InputInv /\ [ConsoleNext]_consoleVars =>
          [OwnCommand' /\ (cmd' \in LineCommands /\ lastCmd' = lastCmd => UNCHANGED <<arg1, arg2>>)]_input
    BY InputInvNext DEF InputInv
  <1> QED BY <1>1, <1>2, <1>3, PTL DEF ConsoleSpec, CommandsOwn
-----------------------------------------------------------------------------
(***************************************************************************)
(* The screen: what each row that is written once holds while the loops  *)
(* and the commands move what it is about.                                 *)
(***************************************************************************)

\* The rows that every pass leaves as the model is.
KeptRows ==
  {"stepSize", "reset", "state", "irqEnabled", "irqDuration", "brkEnabled", "freeRun",
   "stepping", "delayTime", "irqTrigPt"}
RowNames == KeptRows \cup
  {"simRunning", "pc", "pc_prior", "breakAt", "irqTriggered", "reg"}

\* The markers of two words, drawn on an empty column.
Drawn(from, wa, prior) ==
  LET one == IF InWindow(wa, from) THEN {<<Row(wa, from), "PC>">>} ELSE {}
  IN IF InWindow(prior, from) THEN Put(one, Row(prior, from), "PCP>") ELSE one

RowsCurrent == \A name \in KeptRows : shown[name] = Rows[name]
RunCurrent ==
  shown["simRunning"] = simRunning /\ (simRunning => shown["irqTriggered"] = irqTriggered)
ClockCurrent ==
  ~looped => /\ p_clkState = 0 <=> clk_i = 1
             /\ clockRow \in {"rise", "high"} <=> clk_i = 1
MarkersCurrent ==
  marks = Drawn(fromAddr, byte_to_word_addr(pc), byte_to_word_addr(pc_prior))

\* Any marker is erased by the next show, and by a command.
Erasable == \A m \in marks : m[1] \in {p_pcMarker, p_pcpMarker} /\ m[1] \in WindowRows

WindowCurrent ==
  fromAddr \in 0 .. MemLen =>
    \A row \in WindowRows :
      fromAddr + row - rowOffset < MemLen => window[row] = fromAddr + row - rowOffset

ScreenTypes ==
  /\ DOMAIN shown = RowNames /\ fromAddr \in Int
  /\ p_clkState \in {0, 1} /\ clk_seen = clk_i

\* The loops leave the screen behind, and have it drawn before they end; the
\* commands draw what they change.
ScreenInv ==
  /\ ScreenTypes /\ Erasable /\ WindowCurrent
  /\ at \in {"reset", "leave", "search"} => looped
  /\ at \in {"input", "update"} => RowsCurrent /\ ClockCurrent /\ MarkersCurrent
  /\ at = "input" => RunCurrent

-----------------------------------------------------------------------------
LEMMA RowsDomain == DOMAIN Rows = RowNames /\ DOMAIN Rows' = RowNames
  BY DEF Rows, RowNames, KeptRows

\* Where a marker is drawn it can be erased.
LEMMA DrawnRows ==
  ASSUME NEW from \in Int, NEW wa \in Int, NEW prior \in Int, NEW pcp,
         showMarkers({}, from, wa, prior, pcp)
  PROVE  /\ marks' = Drawn(from, wa, prior)
         /\ Erasable'
  <1>1. /\ InWindow(wa, from) => Row(wa, from) \in WindowRows
        /\ InWindow(prior, from) => Row(prior, from) \in WindowRows
    BY ScreenAssumption DEF InWindow, Row, WindowRows, rowOffset
  <1>2. marks' = Drawn(from, wa, prior)
    BY DEF showMarkers, Drawn, Put
  <1>3. \A m \in marks' : \/ InWindow(wa, from) /\ m = <<Row(wa, from), "PC>">>
                          \/ InWindow(prior, from) /\ m = <<Row(prior, from), "PCP>">>
    BY <1>2 DEF Drawn, Put
  <1>4. /\ InWindow(wa, from) => p_pcMarker' = Row(wa, from)
        /\ InWindow(prior, from) => p_pcpMarker' = Row(prior, from)
    BY DEF showMarkers
  <1>5. WindowRows' = WindowRows
    BY DEF WindowRows, rowOffset
  <1>6. ASSUME NEW m \in marks'
        PROVE  m[1] \in {p_pcMarker', p_pcpMarker'} /\ m[1] \in WindowRows
    BY <1>1, <1>3, <1>4
  <1> QED BY <1>2, <1>5, <1>6 DEF Erasable

\* The markers drawn over what either way of erasing has left.
LEMMA MarkersDrawn ==
  ASSUME ScreenInv, SimInv', fromAddr' \in Int, NEW pcp, NEW left,
         left = MarksLeft \/ left = clearPCMarkerCol, MarkersOver(left, pcp)
  PROVE  MarkersCurrent' /\ Erasable'
  <1>1. left = {}
    BY DEF ScreenInv, Erasable, MarksLeft, clearPCMarkerCol
  <1>2. byte_to_word_addr(pc') \in Int /\ byte_to_word_addr(pc_prior') \in Int
    BY DEF SimInv, SimTypeOK, byte_to_word_addr
  <1>3. showMarkers({}, fromAddr', byte_to_word_addr(pc'), byte_to_word_addr(pc_prior'), pcp)
    BY <1>1 DEF MarkersOver
  <1> QED BY <1>2, <1>3, DrawnRows DEF MarkersCurrent

\* The screen drawn as a whole, after an evaluation or none.
LEMMA AllShown ==
  ASSUME ScreenInv, SimInv, SimInv', NEW again \in BOOLEAN, NEW p_clk,
         p_clk = clk_seen \/ p_clk = clk_i', clk_seen' = clk_i',
         p_clk = clk_i' => clk_i' = clk_i \/ looped, fromAddr' = fromAddr, show(p_clk, clk_i', again),
         at # "exit", at' \in {"input", "update"}
  PROVE  ScreenInv' /\ RunCurrent'
  <1>1. fromAddr' = fromAddr /\ fromAddr' \in Int
    BY DEF ScreenInv, ScreenTypes
  <1>2. MarkersCurrent' /\ Erasable'
    BY <1>1, MarkersDrawn DEF show
  <1>3. shown' = Rows' /\ window' = window
    BY DEF show
  <1>4. RowsCurrent' /\ RunCurrent' /\ DOMAIN shown' = RowNames
    <2>1. Rows'["simRunning"] = simRunning' /\ Rows'["irqTriggered"] = irqTriggered'
      BY DEF Rows
    <2> QED BY <1>3, <2>1, RowsDomain DEF RowsCurrent, RunCurrent
  <1>5. WindowCurrent'
    BY <1>1, <1>3 DEF ScreenInv, WindowCurrent, WindowRows, rowOffset
  <1>6. clk_i' \in {0, 1} /\ clk_i \in {0, 1} /\ clk_seen = clk_i
    BY DEF SimInv, SimTypeOK, ScreenInv, ScreenTypes
  <1>7. /\ p_clkState' \in {0, 1}
        /\ ~looped' => (p_clkState' = 0 <=> clk_i' = 1)
        /\ clockRow' \in {"rise", "high"} <=> p_clkState' = 0
        /\ looped /\ p_clk = clk_i' => looped'
    <2>1. showClockEdge(p_clk, clk_i', again)
      BY DEF show
    <2>2. CASE p_clk # clk_i'
      BY <1>6, <2>1, <2>2 DEF showClockEdge
    <2>3. CASE p_clk = clk_i'
      <3>1. p_clkState' = p_clkState /\ looped' = (looped /\ TRUE)
            /\ (clk_i' = clk_i \/ looped)
            /\ clockRow' = IF p_clkState = 0 THEN "high" ELSE "low"
        BY <2>1, <2>3 DEF showClockEdge
      <3>2. at \in {"input", "update"} \/ looped
        BY DEF SimInv, SimTypeOK, ScreenInv
      <3> QED BY <1>6, <2>3, <3>1, <3>2 DEF ScreenInv, ScreenTypes, ClockCurrent
    <2> QED BY <2>2, <2>3
  <1> QED BY <1>1, <1>2, <1>4, <1>5, <1>7 DEF ScreenInv, ScreenTypes, ClockCurrent

\* A command that writes one row, or none, and changes what no other row shows.
LEMMA RowShown ==
  ASSUME ScreenInv, at \in {"input", "update"}, at' \in {"input", "update"},
         NEW name \in RowNames, NEW value,
         showRow(name, value),
         UNCHANGED <<fromAddr, pc, pc_prior, clk_i, clk_seen>>,
         \A n \in KeptRows \ {name} : Rows'[n] = Rows[n],
         name \in KeptRows => value = Rows'[name],
         at' = "input" => name = "simRunning" /\ value = FALSE /\ simRunning' = FALSE
  PROVE  ScreenInv'
  <1>1. shown' = [shown EXCEPT ![name] = value] /\ UNCHANGED <<clockShown, window, markers>>
    BY DEF showRow
  <1>2. /\ DOMAIN shown = RowNames /\ DOMAIN shown' = RowNames
        /\ shown'[name] = value /\ \A n \in RowNames \ {name} : shown'[n] = shown[n]
    BY <1>1 DEF ScreenInv, ScreenTypes
  <1>3. RowsCurrent'
    <2>1. \A n \in KeptRows \ {name} : shown'[n] = Rows'[n]
      BY <1>2 DEF ScreenInv, RowsCurrent, RowNames
    <2> QED BY <1>2, <2>1 DEF RowsCurrent
  <1>4. ClockCurrent' /\ MarkersCurrent' /\ Erasable' /\ WindowCurrent'
    BY <1>1 DEF ScreenInv, ClockCurrent, MarkersCurrent, Erasable, WindowCurrent, clockShown,
       markers, WindowRows, rowOffset
  <1>5. at' = "input" => RunCurrent'
    BY <1>2 DEF RunCurrent
  <1> QED BY <1>1, <1>2, <1>3, <1>4, <1>5 DEF ScreenInv, ScreenTypes, clockShown

LEMMA NothingShown ==
  ASSUME ScreenInv, at = "input", at' \in {"update", "exit"}, UNCHANGED screen,
         UNCHANGED <<fromAddr, pc, pc_prior, clk_i, clk_seen>>,
         \A n \in KeptRows : Rows'[n] = Rows[n]
  PROVE  ScreenInv'
  <1>1. UNCHANGED <<shown, clockRow, p_clkState, looped, window, marks, p_pcMarker, p_pcpMarker>>
    BY DEF screen, clockShown, markers
  <1>2. RowsCurrent' /\ ClockCurrent' /\ MarkersCurrent' /\ Erasable' /\ WindowCurrent'
    BY <1>1 DEF ScreenInv, RowsCurrent, ClockCurrent, MarkersCurrent, Erasable, WindowCurrent,
       WindowRows, rowOffset
  <1> QED BY <1>1, <1>2 DEF ScreenInv, ScreenTypes

\* A loop goes on, or begins.
LEMMA LoopShown ==
  ASSUME ScreenInv, at' \in {"reset", "leave", "search"}, clk_seen' = clk_i', looped',
         UNCHANGED <<shown, p_clkState, window, markers, fromAddr>>
  PROVE  ScreenInv'
  <1>1. Erasable' /\ WindowCurrent'
    BY DEF ScreenInv, Erasable, WindowCurrent, markers, WindowRows, rowOffset
  <1> QED BY <1>1 DEF ScreenInv, ScreenTypes

\* The clock was seen as it is, whatever loop evaluates.
LEMMA ClockSeen ==
  ASSUME ScreenInv, SimNext
  PROVE  clk_seen' = clk_i'
  BY DEF ScreenInv, ScreenTypes, SimNext, SimCommand, ProgramStep, NStep, HCStep, FLStep, Halt,
     SetStepSize, Allowance, SetIRQDur, SetBreak, SetPC, EnableFree, EnableBreak, EnableStepping,
     EnableIRQ, Other, NoCommand, Exit, BeginReset, EndReset, RunTo, UpdateReset, Leave,
     SearchState, SearchValue, UpdateStep, UpdateIdle, Tick, Evaluate, TriggerIRQ, Setting,
     CoreAlone, pins, evaluated

-----------------------------------------------------------------------------
\* The rows of a step that leaves alone what they show.
LEMMA RowsKept ==
  ASSUME UNCHANGED <<stepSize, reset_i, state, irqEnabled, irqDuration, breakEnabled, freeRun,
                     steppingEnabled, timeStepDelayms, irqTriggerPoint>>
  PROVE  \A n \in KeptRows : Rows'[n] = Rows[n]
  BY DEF KeptRows, Rows, Code

LEMMA StillShown ==
  ASSUME ScreenInv, SimInv, SimInv', SimNext, fromAddr' = fromAddr, showStill,
         clk_i' = clk_i \/ looped, at # "exit", at' \in {"input", "update"}
  PROVE  ScreenInv' /\ RunCurrent'
  BY AllShown, ClockSeen DEF showStill

LEMMA StepsShown ==
  ASSUME ScreenInv, Steps
  PROVE  ScreenInv'
  <1>1. PICK size : Allowance(size)
    BY DEF Steps, NStep, HCStep, FLStep, SetStepSize, Halt
  <1>2. at = "input" /\ at' = "update" /\ UNCHANGED <<fromAddr, pc, pc_prior, clk_i, clk_seen>>
        /\ UNCHANGED <<reset_i, state, irqEnabled, irqDuration, breakEnabled, freeRun,
                       steppingEnabled, timeStepDelayms, irqTriggerPoint>>
    BY <1>1 DEF Allowance, Command, CoreAlone, pins, evaluated, modes, pulse, Steps, Quiet, viewed
  <1>3. /\ \A n \in KeptRows \ {"stepSize"} : Rows'[n] = Rows[n]
        /\ Rows'["stepSize"] = stepSize'
    BY <1>2 DEF KeptRows, Rows, Code
  <1>4. showRow("stepSize", stepSize')
    BY DEF Steps
  <1> QED BY <1>2, <1>3, <1>4, RowShown DEF RowNames, KeptRows

LEMMA BreakpointShown ==
  ASSUME ScreenInv, Breakpoint
  PROVE  ScreenInv'
  <1>1. at = "input" /\ at' = "update" /\ UNCHANGED <<fromAddr, pc, pc_prior, clk_i, clk_seen>>
        /\ UNCHANGED <<stepSize, reset_i, state, irqEnabled, irqDuration, breakEnabled, freeRun,
                       steppingEnabled, timeStepDelayms, irqTriggerPoint>>
    BY DEF Breakpoint, SetBreak, Setting, Command, CoreAlone, pins, evaluated, modes, pulse,
       stepping, Quiet, viewed
  <1>2. showRow("breakAt", breakAddr') /\ "breakAt" \notin KeptRows
    BY DEF Breakpoint, KeptRows
  <1> QED BY <1>1, <1>2, RowsKept, RowShown DEF RowNames

LEMMA PassiveShown ==
  ASSUME ScreenInv, Delay \/ Home \/ Nothing \/ Quit
  PROVE  ScreenInv'
  <1>1. at = "input" /\ at' \in {"update", "exit"}
        /\ UNCHANGED <<fromAddr, pc, pc_prior, clk_i, clk_seen>>
        /\ UNCHANGED <<stepSize, reset_i, state, irqEnabled, irqDuration, breakEnabled, freeRun,
                       steppingEnabled, timeStepDelayms, irqTriggerPoint>>
    BY DEF Delay, Home, Nothing, Quit, Other, TriggerIRQ, NoCommand, Exit, Setting, Command,
       CoreAlone, pins, evaluated, modes, pulse, stepping, Quiet, viewed
  <1>2. UNCHANGED screen
    BY DEF Delay, Home, Nothing, Quit, Unshown
  <1> QED BY <1>1, <1>2, RowsKept, NothingShown

LEMMA PCShown ==
  ASSUME ScreenInv, SimInv', SetProgramCounter
  PROVE  ScreenInv'
  <1>1. at = "input" /\ at' = "update" /\ UNCHANGED <<fromAddr, clk_i, clk_seen>>
        /\ UNCHANGED <<stepSize, reset_i, state, irqEnabled, irqDuration, breakEnabled, freeRun,
                       steppingEnabled, timeStepDelayms, irqTriggerPoint>>
    BY DEF SetProgramCounter, SetPC, Command, pins, modes, pulse, stepping, Quiet, viewed
  <1>2. /\ shown' = [shown EXCEPT !["pc"] = pc'] /\ UNCHANGED <<clockShown, window>>
        /\ MarkersOver(clearPCMarkerCol, p_pcMarker)
    BY DEF SetProgramCounter
  <1>3. /\ DOMAIN shown' = RowNames /\ \A n \in KeptRows : shown'[n] = shown[n]
    BY <1>2 DEF ScreenInv, ScreenTypes, KeptRows, RowNames
  <1>4. RowsCurrent'
    BY <1>1, <1>3, RowsKept DEF ScreenInv, RowsCurrent
  <1>5. MarkersCurrent' /\ Erasable'
    BY <1>1, <1>2, MarkersDrawn DEF ScreenInv, ScreenTypes
  <1>6. ClockCurrent' /\ WindowCurrent'
    BY <1>1, <1>2 DEF ScreenInv, ClockCurrent, WindowCurrent, clockShown, WindowRows, rowOffset
  <1> QED BY <1>1, <1>2, <1>3, <1>4, <1>5, <1>6 DEF ScreenInv, ScreenTypes, clockShown

\* The window, drawn from where it starts now.
LEMMA WindowDrawn ==
  ASSUME fromAddr' \in Int, window' = Shown(fromAddr', window)
  PROVE  WindowCurrent'
  <1> SUFFICES ASSUME fromAddr' \in 0 .. MemLen, NEW row \in WindowRows,
                      fromAddr' + row - rowOffset < MemLen
               PROVE  window'[row] = fromAddr' + row - rowOffset
    <2>1. WindowRows' = WindowRows /\ rowOffset' = rowOffset
      BY DEF WindowRows, rowOffset
    <2> QED BY <2>1 DEF WindowCurrent
  <1> QED BY ScreenAssumption DEF Shown

LEMMA WindowShown ==
  ASSUME ScreenInv, SimInv', Window
  PROVE  ScreenInv'
  <1>1. at = "input" /\ at' = "update" /\ UNCHANGED <<pc, pc_prior, clk_i, clk_seen>>
        /\ UNCHANGED <<stepSize, reset_i, state, irqEnabled, irqDuration, breakEnabled, freeRun,
                       steppingEnabled, timeStepDelayms, irqTriggerPoint>>
    BY DEF Window, Other, Setting, Command, CoreAlone, pins, evaluated, modes, pulse, stepping
  <1>2. fromAddr' \in Int
    <2>1. ASSUME NEW a \in Int, NEW b \in Int
          PROVE  Max({a, b}) \in Int /\ Min({a, b}) \in Int
      <3>1. Max({a, b}) \in {a, b}
        <4>1. \E x \in {a, b} : \A y \in {a, b} : x >= y
          OBVIOUS
        <4> QED BY <4>1, Zenon DEF Max
      <3>2. Min({a, b}) \in {a, b}
        <4>1. \E x \in {a, b} : \A y \in {a, b} : x <= y
          OBVIOUS
        <4> QED BY <4>1, Zenon DEF Min
      <3> QED BY <3>1, <3>2
    <2>2. fromAddr \in Int /\ MemLen \in Int
      BY ScreenAssumption DEF ScreenInv, ScreenTypes
    <2>3. fromAddr - 1 \in Int /\ fromAddr + 1 \in Int /\ MemLen - 1 \in Int /\ 0 \in Int
      BY <2>2
    <2>4. \/ fromAddr' = getArg1Int' \/ fromAddr' = Max({fromAddr - 1, 0})
          \/ fromAddr' = Min({fromAddr + 1, MemLen - 1})
      BY DEF Window
    <2> QED BY <2>1, <2>3, <2>4, Arguments
  <1>3. /\ UNCHANGED <<shown, clockShown>> /\ window' = Shown(fromAddr', window)
        /\ MarkersOver(clearPCMarkerCol, p_pcpMarker)
    BY DEF Window, showWindow
  <1>4. RowsCurrent'
    BY <1>1, <1>3, RowsKept DEF ScreenInv, RowsCurrent
  <1>5. MarkersCurrent' /\ Erasable' /\ WindowCurrent'
    BY <1>2, <1>3, MarkersDrawn, WindowDrawn
  <1>6. ClockCurrent'
    BY <1>1, <1>3 DEF ScreenInv, ClockCurrent, clockShown
  <1> QED BY <1>1, <1>2, <1>3, <1>4, <1>5, <1>6 DEF ScreenInv, ScreenTypes, clockShown

LEMMA StoresShown ==
  ASSUME ScreenInv, Memory
  PROVE  ScreenInv'
  <1>1. at = "input" /\ at' = "update" /\ UNCHANGED <<fromAddr, pc, pc_prior, clk_i, clk_seen>>
        /\ UNCHANGED <<stepSize, reset_i, state, irqEnabled, irqDuration, breakEnabled, freeRun,
                       steppingEnabled, timeStepDelayms, irqTriggerPoint>>
    BY DEF Memory, Other, Setting, Command, CoreAlone, pins, evaluated, modes, pulse, stepping,
       viewed
  <1>2. UNCHANGED <<shown, clockShown, markers>> /\ window' = Shown(fromAddr', window)
    BY <1>1 DEF Memory
  <1>3. RowsCurrent'
    BY <1>1, <1>2, RowsKept DEF ScreenInv, RowsCurrent
  <1>4. WindowCurrent'
    BY <1>1, <1>2, WindowDrawn DEF ScreenInv, ScreenTypes
  <1>5. ClockCurrent' /\ MarkersCurrent' /\ Erasable'
    BY <1>1, <1>2 DEF ScreenInv, ClockCurrent, MarkersCurrent, Erasable, clockShown, markers,
       WindowRows, rowOffset
  <1> QED BY <1>1, <1>2, <1>3, <1>4, <1>5 DEF ScreenInv, ScreenTypes, clockShown

LEMMA RegistersShown ==
  ASSUME ScreenInv, Registers
  PROVE  ScreenInv'
  <1>1. at = "input" /\ at' = "update" /\ UNCHANGED <<fromAddr, pc, pc_prior, clk_i, clk_seen>>
        /\ UNCHANGED <<stepSize, reset_i, state, irqEnabled, irqDuration, breakEnabled, freeRun,
                       steppingEnabled, timeStepDelayms, irqTriggerPoint>>
    BY DEF Registers, Other, Setting, Command, CoreAlone, pins, evaluated, modes, pulse, stepping
  <1>2. UNCHANGED screen \/ showRow("reg", bank[selectedReg'])
    BY DEF Registers, Unshown
  <1>3. "reg" \in RowNames /\ "reg" \notin KeptRows
    BY DEF RowNames, KeptRows
  <1> QED BY <1>1, <1>2, <1>3, RowsKept, RowShown, NothingShown

LEMMA ModesShown ==
  ASSUME ScreenInv, SimInv, SimInv', SimNext, Modes \/ Settings
  PROVE  ScreenInv'
  <1>1. at = "input" /\ at' = "update" /\ UNCHANGED <<fromAddr, clk_i>>
    BY DEF Modes, Settings, EnableFree, EnableBreak, EnableStepping, EnableIRQ, SetIRQDur, Other,
       Setting, Command, CoreAlone, pins, Quiet, viewed
  <1>2. showStill
    BY DEF Modes, Settings
  <1> QED BY <1>1, <1>2, StillShown

LEMMA SignalShown ==
  ASSUME ScreenInv, SimInv, SimInv', SimNext, Signal
  PROVE  ScreenInv'
  <1>1. CASE BeginReset /\ Loop
    <2>1. at' = "reset" /\ looped' /\ UNCHANGED <<shown, p_clkState, window, markers, fromAddr>>
      BY <1>1 DEF BeginReset, Loop, Quiet, viewed
    <2> QED BY <2>1, ClockSeen, LoopShown
  <1>2. CASE Other /\ Quiet /\ Unshown
    <2>1. at = "input" /\ at' = "update" /\ UNCHANGED <<fromAddr, pc, pc_prior, clk_i, clk_seen>>
          /\ UNCHANGED <<stepSize, reset_i, state, irqEnabled, irqDuration, breakEnabled, freeRun,
                         steppingEnabled, timeStepDelayms, irqTriggerPoint>>
      BY <1>2 DEF Other, Setting, Command, CoreAlone, pins, evaluated, modes, pulse, stepping,
         Quiet, viewed
    <2> QED BY <1>2, <2>1, RowsKept, NothingShown DEF Unshown
  <1> QED BY <1>1, <1>2 DEF Signal

LEMMA RunShown ==
  ASSUME ScreenInv, SimInv, SimInv', SimNext, Run
  PROVE  ScreenInv'
  <1>1. CASE \E g \in DOMAIN Names, n \in getArg2Ints' : RunTo(g, word_to_byte_addr(n)) /\ Loop
    <2>1. at' \in {"leave", "search"} /\ looped'
          /\ UNCHANGED <<shown, p_clkState, window, markers, fromAddr>>
      BY <1>1 DEF RunTo, Loop, Quiet, viewed
    <2> QED BY <2>1, ClockSeen, LoopShown
  <1>2. CASE Other /\ Quiet /\ showStill
    <2>1. at = "input" /\ at' = "update" /\ UNCHANGED <<fromAddr, clk_i>>
      BY <1>2 DEF Other, Setting, Command, CoreAlone, pins, Quiet, viewed
    <2> QED BY <1>2, <2>1, StillShown
  <1> QED BY <1>1, <1>2 DEF Run

LEMMA LoopingShown ==
  ASSUME ScreenInv, SimInv, SimInv', SimNext, Looping
  PROVE  ScreenInv'
  <1>1. at \in {"reset", "leave", "search"} /\ looped /\ fromAddr' = fromAddr
    BY DEF Looping, UpdateReset, EndReset, Leave, SearchState, SearchValue, ScreenInv, Quiet, viewed
  <1>2. at' \in {"reset", "leave", "search", "update"}
    BY DEF Looping, UpdateReset, EndReset, Leave, SearchState, SearchValue, program
  <1>3. CASE at' = "update"
    BY <1>1, <1>3, StillShown DEF Looping
  <1>4. CASE at' # "update"
    <2>1. UNCHANGED <<shown, p_clkState, looped, window, markers>>
      BY <1>4 DEF Looping, Unshown, screen, clockShown
    <2> QED BY <1>1, <1>2, <1>4, <2>1, ClockSeen, LoopShown
  <1> QED BY <1>3, <1>4

LEMMA SteppingShown ==
  ASSUME ScreenInv, SimInv, SimInv', SimNext, Stepping
  PROVE  ScreenInv'
  <1>1. at = "update" /\ at' = "input" /\ fromAddr' = fromAddr
    BY DEF Stepping, UpdateStep, Quiet, viewed
  <1>2. clk_seen = clk_i
    BY DEF ScreenInv, ScreenTypes
  <1>3. show(clk_seen, clk_i', dirty \/ BreakMet) /\ (dirty \/ BreakMet) \in BOOLEAN
    BY DEF Stepping
  <1> QED BY <1>1, <1>2, <1>3, ClockSeen, AllShown DEF ScreenInv

LEMMA RestingShown ==
  ASSUME ScreenInv, SimInv, SimInv', SimNext, Resting
  PROVE  ScreenInv'
  <1>1. at = "update" /\ at' = "input" /\ ~simRunning'
        /\ UNCHANGED <<fromAddr, pc, pc_prior, clk_i, clk_seen>>
        /\ UNCHANGED <<stepSize, reset_i, state, irqEnabled, irqDuration, steppingEnabled,
                       timeStepDelayms, irqTriggerPoint>>
    BY DEF Resting, UpdateIdle, Quiet, viewed, pulse, stepping, evaluated
  <1>2. CASE dirty \/ BreakMet
    BY <1>1, <1>2, StillShown DEF Resting, ScreenInv
  <1>3. CASE ~(dirty \/ BreakMet)
    <2>1. showRow("simRunning", FALSE) /\ simRunning' = FALSE
      BY <1>3 DEF Resting, UpdateIdle
    <2>2. breakEnabled' = breakEnabled /\ freeRun' = freeRun
      BY <1>3, Zenon DEF Resting, UpdateIdle, Break, SimInv, SimTypeOK
    <2>3. \A n \in KeptRows : Rows'[n] = Rows[n]
      BY <1>1, <2>2, RowsKept
    <2>4. "simRunning" \in RowNames /\ "simRunning" \notin KeptRows
      BY DEF RowNames, KeptRows
    <2> QED BY <1>1, <2>1, <2>3, <2>4, RowShown
  <1> QED BY <1>2, <1>3

LEMMA ScreenInvNext ==
  ASSUME ScreenInv, SimInv, SimInv', [ConsoleNext]_consoleVars
  PROVE  ScreenInv'
  <1>1. CASE Key
    <2>1. SimNext
      BY <1>1, KeySteps DEF SimNext
    <2> QED
      BY <1>1, <2>1, StepsShown, BreakpointShown, PassiveShown, PCShown, WindowShown, StoresShown,
         RegistersShown, ModesShown, SignalShown, RunShown DEF Key
  <1>2. CASE Pass
    <2>1. SimNext
      BY <1>2, PassSteps DEF SimNext
    <2> QED BY <1>2, <2>1, LoopingShown, SteppingShown, RestingShown DEF Pass
  <1>3. CASE UNCHANGED consoleVars
    <2>1. UNCHANGED <<at, clk_i, clk_seen, pc, pc_prior, fromAddr, shown, clockRow, p_clkState, looped,
                      window, marks, p_pcMarker, p_pcpMarker, simRunning, irqTriggered>>
          /\ UNCHANGED <<stepSize, reset_i, state, irqEnabled, irqDuration, breakEnabled, freeRun,
                         steppingEnabled, timeStepDelayms, irqTriggerPoint>>
      BY <1>3 DEF consoleVars, vars, screen, viewed, clockShown, markers, program, modes, pulse,
         stepping, pins, evaluated
    <2>2. RowsCurrent => RowsCurrent'
      BY <2>1, RowsKept DEF RowsCurrent
    <2>3. WindowRows' = WindowRows /\ rowOffset' = rowOffset
      BY DEF WindowRows, rowOffset
    <2> QED
      BY <2>1, <2>2, <2>3 DEF ScreenInv, ScreenTypes, Erasable, WindowCurrent, ClockCurrent,
         MarkersCurrent, RunCurrent
  <1> QED BY <1>1, <1>2, <1>3 DEF ConsoleNext

LEMMA ScreenInvInit ==
  ASSUME ConsoleInit
  PROVE  ScreenInv
  <1>1. ScreenInit /\ at = "input" /\ clk_i = 0 /\ clk_seen = 0 /\ ~simRunning
        /\ pc = 0 /\ pc_prior = 0
    BY DEF ConsoleInit, SimInit
  <1>2. shown = Rows /\ Rows["simRunning"] = simRunning
    BY <1>1 DEF ScreenInit, Rows
  <1>3. RowsCurrent /\ RunCurrent /\ DOMAIN shown = RowNames
    BY <1>1, <1>2, RowsDomain DEF RowsCurrent, RunCurrent
  <1>4. marks = Drawn(0, 0, 0) /\ byte_to_word_addr(0) = 0
    <2>1. InWindow(0, 0) /\ Row(0, 0) = rowOffset
      BY ScreenAssumption DEF InWindow, Row, rowOffset
    <2>2. Put({<<rowOffset, "PC>">>}, rowOffset, "PCP>") = {<<rowOffset, "PCP>">>}
      BY DEF Put
    <2>3. Drawn(0, 0, 0) = {<<rowOffset, "PCP>">>}
      BY <2>1, <2>2, Zenon DEF Drawn
    <2> QED BY <1>1, <2>3 DEF ScreenInit, byte_to_word_addr
  <1>5. Erasable /\ WindowCurrent
    BY <1>1, ScreenAssumption DEF ScreenInit, Erasable, WindowCurrent, WindowRows, rowOffset
  <1> QED
    BY <1>1, <1>3, <1>4, <1>5 DEF ScreenInv, ScreenTypes, ScreenInit, ClockCurrent, MarkersCurrent

LEMMA ScreenInvariant == ConsoleSpec => []ScreenInv /\ []SimInv
  <1>1. ConsoleInit => ScreenInv
    BY ScreenInvInit
  <1>2. ScreenInv /\ SimInv /\ SimInv' /\ [ConsoleNext]_consoleVars => ScreenInv'
    BY ScreenInvNext
  <1>3. ConsoleSpec => []SimInv
    BY ConsoleImplementsSimulation, SimInvariant, PTL
  <1> QED BY <1>1, <1>2, <1>3, PTL DEF ConsoleSpec

\* The rows a reader steers by, and the clock's, show what is when the console waits.
THEOREM ScreenFollows == ConsoleSpec => []ScreenCurrent
  <1>1. ScreenInv /\ SimInv => ScreenCurrent
    <2> SUFFICES ASSUME ScreenInv, at = "input" PROVE ScreenCurrent
      BY DEF ScreenCurrent
    <2>1. RowsCurrent /\ RunCurrent /\ ClockCurrent
      BY DEF ScreenInv
    <2>2. Rows["simRunning"] = simRunning
      BY DEF Rows
    <2> QED BY <2>1, <2>2 DEF ScreenCurrent, RowsCurrent, RunCurrent, ClockCurrent, KeptRows
  <1> QED BY <1>1, ScreenInvariant, PTL

\* No marker is left beside a word that is not the PC's, or PC_prior's, and the
\* PC's word in the window has one.
THEOREM MarkersStand == ConsoleSpec => []MarkersPoint
  <1>1. ScreenInv /\ SimInv => MarkersPoint
    <2> SUFFICES ASSUME ScreenInv, SimInv, at = "input" PROVE MarkersPoint
      BY DEF MarkersPoint
    <2> DEFINE wa == byte_to_word_addr(pc)  prior == byte_to_word_addr(pc_prior)
    <2>1. wa \in Int /\ prior \in Int /\ fromAddr \in Int /\ MemRows \in Nat /\ MemLen \in Nat
      BY ScreenAssumption DEF ScreenInv, ScreenTypes, SimInv, SimTypeOK, byte_to_word_addr
    <2>2. marks = Drawn(fromAddr, wa, prior) /\ WindowCurrent
      BY DEF ScreenInv, MarkersCurrent
    <2> HIDE DEF wa, prior
    <2>3. /\ \A m \in marks : \/ InWindow(wa, fromAddr) /\ m = <<Row(wa, fromAddr), "PC>">>
                              \/ InWindow(prior, fromAddr) /\ m = <<Row(prior, fromAddr), "PCP>">>
          /\ InWindow(wa, fromAddr) => \E m \in marks : m[1] = Row(wa, fromAddr)
      <3> DEFINE one == <<Row(wa, fromAddr), "PC>">>  other == <<Row(prior, fromAddr), "PCP>">>
      <3>1. one[1] = Row(wa, fromAddr) /\ other[1] = Row(prior, fromAddr)
        OBVIOUS
      <3>2. \A m \in marks : \/ InWindow(wa, fromAddr) /\ m = one
                             \/ InWindow(prior, fromAddr) /\ m = other
        BY <2>2 DEF Drawn, Put
      <3>3. InWindow(wa, fromAddr) =>
              \/ one \in marks
              \/ other \in marks /\ Row(prior, fromAddr) = Row(wa, fromAddr)
        <4>1. CASE InWindow(prior, fromAddr) /\ Row(prior, fromAddr) = Row(wa, fromAddr)
          BY <2>2, <4>1, Zenon DEF Drawn, Put
        <4>2. CASE InWindow(prior, fromAddr) /\ Row(prior, fromAddr) # Row(wa, fromAddr)
          BY <2>2, <3>1, <4>2, Zenon DEF Drawn, Put
        <4>3. CASE ~InWindow(prior, fromAddr)
          BY <2>2, <4>3, Zenon DEF Drawn, Put
        <4> QED BY <4>1, <4>2, <4>3
      <3> QED BY <3>1, <3>2, <3>3
    <2>4. ASSUME NEW a \in Int, InWindow(a, fromAddr), fromAddr \in 0 .. MemLen
          PROVE  window[Row(a, fromAddr)] = a
      <3>1. Row(a, fromAddr) \in WindowRows /\ fromAddr + Row(a, fromAddr) - rowOffset = a
        BY <2>1, <2>4 DEF InWindow, Row, WindowRows, rowOffset
      <3> QED BY <2>2, <2>4, <3>1 DEF WindowCurrent, InWindow
    <2>5. ASSUME fromAddr \in 0 .. MemLen, NEW m \in marks
          PROVE  window[m[1]] = IF m[2] = "PC>" THEN wa ELSE prior
      BY <2>1, <2>3, <2>4, <2>5
    <2>6. ASSUME fromAddr \in 0 .. MemLen - MemRows, NEW row \in WindowRows, window[row] = wa
          PROVE  \E m \in marks : window[m[1]] = wa
      <3>1. fromAddr \in 0 .. MemLen /\ fromAddr + row - rowOffset < MemLen
        BY <2>1, <2>6 DEF WindowRows, rowOffset
      <3>2. wa = fromAddr + row - rowOffset
        BY <2>2, <2>6, <3>1 DEF WindowCurrent
      <3>3. InWindow(wa, fromAddr)
        BY <2>1, <3>1, <3>2 DEF InWindow, WindowRows, rowOffset
      <3> QED BY <2>1, <2>3, <2>4, <3>1, <3>3
    <2>7. \A m2 : byte_to_word_addr(IF m2 = "PC>" THEN pc ELSE pc_prior)
            = IF m2 = "PC>" THEN wa ELSE prior
      BY DEF wa, prior
    <2> QED BY <2>5, <2>6, <2>7 DEF MarkersPoint, wa, prior
  <1> QED BY <1>1, ScreenInvariant, PTL

LEMMA Coded ==
  ASSUME NEW enum, NEW i \in DOMAIN enum, \A j \in DOMAIN enum : enum[j] = enum[i] => j = i
  PROVE  Code(enum, enum[i]) = i - 1
  BY DEF Code

LEMMA StateLabel ==
  ASSUME state \in MatrixStates
  PROVE  showCPUState(Code(MatrixState, state)) = state
  <1>1. DOMAIN MatrixState = 1 .. 5
    BY DEF MatrixState
  <1>2. PICK i \in 1 .. 5 : MatrixState[i] = state
    <2>1. \A s \in MatrixStates : \E i \in 1 .. 5 : MatrixState[i] = s
      BY DEF MatrixStates, MatrixState
    <2> QED BY <2>1
  <1>3. \A j \in 1 .. 5 : MatrixState[j] = MatrixState[i] => j = i
    BY DEF MatrixState
  <1>4. Code(MatrixState, state) = i - 1
    BY <1>1, <1>2, <1>3, Coded
  <1>5. /\ showCPUState(0) = "Reset" /\ showCPUState(1) = "Fetch" /\ showCPUState(2) = "Decode"
        /\ showCPUState(3) = "Execute" /\ showCPUState(4) = "Halt"
    BY DEF showCPUState
  <1>6. showCPUState(i - 1) = MatrixState[i]
    BY <1>5 DEF MatrixState
  <1> QED BY <1>2, <1>4, <1>6

LEMMA VectorLabels ==
  \A s \in ToSet(ResetState) : showVectorState(Code(ResetState, s)) = s
  <1> SUFFICES ASSUME NEW i \in 1 .. 5
               PROVE  showVectorState(Code(ResetState, ResetState[i])) = ResetState[i]
    BY DEF ToSet, ResetState
  <1>1. DOMAIN ResetState = 1 .. 5
    BY DEF ResetState
  <1>2. \A j \in 1 .. 5 : ResetState[j] = ResetState[i] => j = i
    BY DEF ResetState
  <1>3. Code(ResetState, ResetState[i]) = i - 1
    BY <1>1, <1>2, Coded
  <1>4. /\ showVectorState(0) = "Sync0" /\ showVectorState(1) = "Vector0"
        /\ showVectorState(2) = "Vector1" /\ showVectorState(3) = "Vector2"
        /\ showVectorState(4) = "Vector3"
    BY DEF showVectorState
  <1>5. showVectorState(i - 1) = ResetState[i]
    BY <1>4 DEF ResetState
  <1> QED BY <1>3, <1>5

\* The two lists of instruction states are one.
LEMMA InstructionLabels ==
  \A s \in ToSet(InstructionState) : showIRState(Code(InstructionState, s)) = s
  <1> SUFFICES ASSUME NEW s, NEW i \in DOMAIN InstructionState, InstructionState[i] = s
               PROVE  showIRState(Code(InstructionState, s)) = s
    BY DEF ToSet
  <1> DEFINE n == CHOOSE j \in DOMAIN InstructionState : InstructionState[j] = s
  <1>1. n \in DOMAIN InstructionState /\ InstructionState[n] = s
    OBVIOUS
  <1>2. DOMAIN InstructionState \subseteq Int
    BY DEF InstructionState
  <1>3. Code(InstructionState, s) = n - 1
    BY DEF Code
  <1>4. \A v : showIRState(v) = IF v + 1 \in DOMAIN InstructionState THEN InstructionState[v + 1] ELSE ""
    BY DEF showIRState, InstructionState
  <1> HIDE DEF n
  <1>5. n - 1 + 1 = n
    BY <1>1, <1>2
  <1> QED BY <1>1, <1>3, <1>4, <1>5

LEMMA OperationLabels == \A op \in DOMAIN ALU_Ops : showALUOp(ALU_Ops[op]) = op
  <1>1. /\ showALUOp(0) = "Add" /\ showALUOp(2) = "Sub" /\ showALUOp(32) = "Xor"
        /\ showALUOp(48) = "Or" /\ showALUOp(56) = "And" /\ showALUOp(8) = "Sll"
        /\ showALUOp(40) = "Srl" /\ showALUOp(42) = "Sra" /\ showALUOp(16) = "Slt"
        /\ showALUOp(24) = "Sltu"
    BY DEF showALUOp
  <1> QED BY <1>1 DEF ALU_Ops

LEMMA FlagLists ==
  /\ showALUFlags(0) = {} /\ showALUFlags(1) = {"Z"}
  /\ showALUFlags(2) = {"C"} /\ showALUFlags(3) = {"C", "Z"}
  /\ showALUFlags(4) = {"N"} /\ showALUFlags(5) = {"N", "Z"}
  /\ showALUFlags(6) = {"N", "C"} /\ showALUFlags(7) = {"N", "C", "Z"}
  /\ showALUFlags(8) = {"V"} /\ showALUFlags(9) = {"V", "Z"}
  /\ showALUFlags(10) = {"V", "C"} /\ showALUFlags(11) = {"V", "C", "Z"}
  /\ showALUFlags(12) = {"V", "N"} /\ showALUFlags(13) = {"V", "N", "Z"}
  /\ showALUFlags(14) = {"V", "N", "C"} /\ showALUFlags(15) = {"V", "N", "C", "Z"}
  BY DEF showALUFlags

LEMMA FlagLetters ==
  ASSUME NEW v \in {0, 8}, NEW n \in {0, 4}, NEW c \in {0, 2}, NEW z \in {0, 1}
  PROVE  LET letters == showALUFlags(v + n + c + z)
         IN /\ letters \subseteq {"V", "N", "C", "Z"}
            /\ "V" \in letters <=> v = 8
            /\ "N" \in letters <=> n = 4
            /\ "C" \in letters <=> c = 2
            /\ "Z" \in letters <=> z = 1
  BY FlagLists

LEMMA FlagLabels ==
  ASSUME NEW f \in SUBSET {"V", "N", "C", "Z"}
  PROVE  LET bit(letter, weight) == IF letter \in f THEN weight ELSE 0
         IN showALUFlags(bit("V", 8) + bit("N", 4) + bit("C", 2) + bit("Z", 1)) = f
  <1> DEFINE bit(letter, weight) == IF letter \in f THEN weight ELSE 0
             letters == showALUFlags(bit("V", 8) + bit("N", 4) + bit("C", 2) + bit("Z", 1))
  <1>1. /\ bit("V", 8) \in {0, 8} /\ (bit("V", 8) = 8 <=> "V" \in f)
        /\ bit("N", 4) \in {0, 4} /\ (bit("N", 4) = 4 <=> "N" \in f)
        /\ bit("C", 2) \in {0, 2} /\ (bit("C", 2) = 2 <=> "C" \in f)
        /\ bit("Z", 1) \in {0, 1} /\ (bit("Z", 1) = 1 <=> "Z" \in f)
    OBVIOUS
  <1> HIDE DEF bit
  <1>2. /\ letters \subseteq {"V", "N", "C", "Z"}
        /\ \A letter \in {"V", "N", "C", "Z"} : letter \in letters <=> letter \in f
    BY <1>1, FlagLetters
  <1> HIDE DEF letters
  <1>3. letters = f
    <2>1. \A letter : letter \in letters <=> letter \in f
      BY <1>2
    <2> QED BY <2>1
  <1> QED BY <1>3 DEF bit, letters

\* The screen's labels are the names of the core's enumerations and flags.
THEOREM LabelsNameStates == ConsoleSpec => []LabelsMatch
  <1>1. ScreenInv /\ SimInv => LabelsMatch
    <2> SUFFICES ASSUME ScreenInv, SimInv, at = "input" PROVE LabelsMatch
      BY DEF LabelsMatch
    <2>1. shown["state"] = Rows["state"] /\ Rows["state"] = showCPUState(Code(MatrixState, state))
      BY DEF ScreenInv, RowsCurrent, KeptRows, Rows
    <2>2. shown["state"] = state
      BY <2>1, StateLabel DEF SimInv, SimTypeOK
    <2> QED
      BY <2>2, VectorLabels, InstructionLabels, OperationLabels, FlagLabels, Zenon DEF LabelsMatch
  <1> QED BY <1>1, ScreenInvariant, PTL
=============================================================================
