----------------------------- MODULE Simulation -----------------------------
(***************************************************************************)
(* The console's simulation loop: the state of model.h, the loops of       *)
(* simulation.cpp, and the part of console_tb.cpp that moves them.         *)
(*                                                                         *)
(* One pass of the main loop takes a command ("input"), carries it out     *)
(* (a reset and a run loop evaluate the core many times, and no key is     *)
(* read meanwhile), and then evaluates the core once if it may ("update"). *)
(* An evaluation is one unit of time; the core acts on those that see the  *)
(* clock fall.  Of the core only what the console looks at is kept: the    *)
(* PC goes where it likes among the program's addresses, the state as      *)
(* CoreCycle has it, and the instruction register may hold anything each   *)
(* time it is looked at.  The time is kept modulo halfCycle, all the code  *)
(* asks of it.                                                             *)
(***************************************************************************)
EXTENDS Integers, CoreCycle

CONSTANTS
  halfCycle,    \* units of time between two edges of the clock (10)
  maxSteps,     \* the evaluations after which a run loop gives up (100000)
  StepCap       \* bound of the model: stepCnt stops counting here

fullCycle == 2 * halfCycle

ASSUME SimulationAssumption ==
  /\ halfCycle \in Nat \ {0} /\ maxSteps \in Nat \ {0}
  /\ StepCap \in Nat /\ StepCap >= 3 * fullCycle

VARIABLES
  at, goal, cnt,                                    \* where the program is
  freeRun, breakEnabled, steppingEnabled, breakAddr, targetPC,
  irqEnabled, irqTriggered, irqDuration, irqCnt,
  timeStep, stepSize, stepCnt, simRunning, dirty,
  clk_i, reset_i, irq_i,                            \* the core's pins
  clk_seen, irq_seen,                               \* as last evaluated
  state, pc, pc_prior,                              \* the core
  addrs,                            \* the addresses its program runs at
  \* history:
  stepped,    \* evaluations of the main loop since the allowance was last set
  whole,      \* and nothing else used the allowance or suspended it since
  hit,        \* a free run met the break address and was not restarted
  edges,      \* falling edges of irq_i the core saw since Home was pressed
  low,        \* evaluations with irq_i low since Home was last pressed
  disturbed   \* the pulse met a run loop, a reset, a change of its settings, or
              \* a core that had not yet seen the pin high

program  == <<at, goal, cnt>>
modes    == <<freeRun, breakEnabled, steppingEnabled>>
targets  == <<breakAddr, targetPC>>
pulse    == <<irqEnabled, irqTriggered, irqDuration, irqCnt>>
stepping == <<stepSize, stepCnt>>
pins     == <<clk_i, reset_i, irq_i>>
evaluated == <<clk_seen, irq_seen, state, pc, pc_prior>>
steps_seen == <<stepped, whole>>
pulse_seen == <<edges, low, disturbed>>
history  == <<steps_seen, hit, pulse_seen>>
vars == <<program, modes, targets, pulse, timeStep, stepping, simRunning, dirty, pins,
          evaluated, addrs, history>>

Goals == {"none", "fetch", "decode", "execute", "ebreak", "pc"}

\* The types; no loop counts past its bound.
SimTypeOK ==
  /\ at \in {"input", "update", "reset", "leave", "search", "exit"}
  /\ goal \in Goals /\ cnt \in 0 .. maxSteps
  /\ {freeRun, breakEnabled, steppingEnabled, irqEnabled, irqTriggered, simRunning, dirty}
       \subseteq BOOLEAN
  /\ {breakAddr, targetPC, irqDuration} \subseteq Int /\ irqCnt \in Nat
  /\ timeStep \in 0 .. halfCycle - 1
  /\ stepSize \in Int /\ stepSize <= StepCap /\ stepCnt \in 0 .. StepCap
  /\ {clk_i, reset_i, irq_i, clk_seen, irq_seen} \subseteq {0, 1}
  /\ state \in MatrixStates /\ {pc, pc_prior} \subseteq Int
  /\ stepped \in Nat /\ {whole, hit, disturbed} \subseteq BOOLEAN
  /\ edges \in 0 .. 2 /\ low \in Nat

\* main() before its loop: the core's power-up, the clock and the interrupt pin
\* low and seen low once, then that pin raised, and model.h's defaults.
SimInit(visited) ==
  /\ at = "input" /\ goal = "none" /\ cnt = 0
  /\ freeRun = FALSE /\ breakEnabled = FALSE /\ steppingEnabled = FALSE
  /\ breakAddr = 4 * 96 /\ targetPC = 0
  /\ irqEnabled = TRUE /\ irqTriggered = FALSE /\ irqDuration = 3 /\ irqCnt = 0
  /\ timeStep = 1 % halfCycle /\ stepSize = 0 /\ stepCnt = 0
  /\ simRunning = FALSE /\ dirty = TRUE
  /\ clk_i = 0 /\ reset_i = 1 /\ irq_i = 1 /\ clk_seen = 0 /\ irq_seen = 0
  /\ state = "Reset" /\ addrs = visited /\ pc = 0 /\ pc_prior = 0
  /\ stepped = 0 /\ whole = TRUE /\ hit = FALSE
  /\ edges = 0 /\ low = 0 /\ disturbed = FALSE
-----------------------------------------------------------------------------
\* One unit of time: begin(), eval() and update() of simulation.cpp.

Count(n) == IF n < StepCap THEN n + 1 ELSE n

ClockAfterBegin == IF timeStep = 0 THEN 1 - clk_i ELSE clk_i

\* The core, which acts on the falling edge.
Core(clk) ==
  IF clk_seen = 1 /\ clk = 0
  THEN /\ state' \in Edge(state, reset_i = 1)
       /\ pc' \in addrs /\ pc_prior' \in {pc_prior, pc}
  ELSE UNCHANGED <<state, pc, pc_prior>>

\* The evaluation, with irq at the interrupt pin.
Evaluate(irq) ==
  /\ clk_i' = ClockAfterBegin /\ clk_seen' = clk_i'
  /\ irq_i' = irq /\ irq_seen' = irq
  /\ Core(clk_i')
  /\ edges' = IF irq_seen = 1 /\ irq = 0 /\ edges < 2 THEN edges + 1 ELSE edges

Tick(irq) ==
  /\ simRunning' = TRUE
  /\ Evaluate(irq)
  /\ stepCnt' = Count(stepCnt)
  /\ timeStep' = (timeStep + 1) % halfCycle
-----------------------------------------------------------------------------
\* Commands.  Each ends in the update of the same pass.

Command == at = "input" /\ at' = "update" /\ UNCHANGED <<goal, cnt, addrs>>
CoreAlone == UNCHANGED <<timeStep, simRunning, dirty, pins, evaluated>>

\* ns, hc, fl and ss set the allowance anew, and so does h, to nothing.
Allowance(size) ==
  /\ Command
  /\ stepSize' = size /\ stepCnt' = 0
  /\ stepped' = 0 /\ whole' = TRUE
  /\ CoreAlone /\ UNCHANGED <<modes, targets, pulse, hit, pulse_seen>>

NStep             == Allowance(1)
HCStep            == Allowance(halfCycle)
FLStep            == Allowance(fullCycle)
SetStepSize(size) == size <= StepCap /\ Allowance(size)
Halt              == Allowance(0)

Setting == Command /\ CoreAlone /\ UNCHANGED stepping

EnableFree(on) ==
  /\ Setting /\ freeRun' = on /\ hit' = FALSE
  /\ UNCHANGED <<breakEnabled, steppingEnabled, targets, pulse, steps_seen, pulse_seen>>

EnableBreak(on) ==
  /\ Setting /\ breakEnabled' = on
  /\ UNCHANGED <<freeRun, steppingEnabled, targets, pulse, steps_seen, hit, pulse_seen>>

EnableStepping(on) ==
  /\ Setting /\ steppingEnabled' = on /\ hit' = FALSE /\ whole' = FALSE
  /\ UNCHANGED <<freeRun, breakEnabled, targets, pulse, stepped, pulse_seen>>

SetBreak(addr) ==
  /\ Setting /\ breakAddr' = addr
  /\ UNCHANGED <<modes, targetPC, pulse, steps_seen, hit, pulse_seen>>

EnableIRQ(on) ==
  /\ Setting /\ irqEnabled' = on /\ disturbed' = (disturbed \/ edges > 0)
  /\ UNCHANGED <<modes, targets, irqTriggered, irqDuration, irqCnt, steps_seen, hit, edges, low>>

SetIRQDur(duration) ==
  /\ Setting /\ irqDuration' = duration /\ disturbed' = (disturbed \/ edges > 0)
  /\ UNCHANGED <<modes, targets, irqEnabled, irqTriggered, irqCnt, steps_seen, hit, edges, low>>

\* Broken variant: the count of a pulse in progress goes on.
TriggerIRQ_KeepsCount ==
  /\ Command
  /\ irqTriggered' = TRUE /\ irq_i' = 0 /\ UNCHANGED irqCnt
  /\ low' = 0
  /\ IF irqTriggered THEN UNCHANGED <<edges, disturbed>>
     ELSE edges' = 0 /\ disturbed' = (irq_seen = 0)
  /\ UNCHANGED <<modes, targets, irqEnabled, irqDuration, timeStep, stepping, simRunning,
                 dirty, clk_i, reset_i, evaluated, steps_seen, hit>>

\* The Home key.
TriggerIRQ ==
  /\ Command
  /\ irqCnt' = 0 /\ irqTriggered' = TRUE /\ irq_i' = 0
  /\ low' = 0
  /\ IF irqTriggered THEN UNCHANGED <<edges, disturbed>>
     ELSE edges' = 0 /\ disturbed' = (irq_seen = 0)
  /\ UNCHANGED <<modes, targets, irqEnabled, irqDuration, timeStep, stepping, simRunning,
                 dirty, clk_i, reset_i, evaluated, steps_seen, hit>>

\* The PC is written into the core's register, the old one into PC_prior's.
SetPC(addr) ==
  /\ Command
  /\ pc' = addr /\ pc_prior' = pc
  /\ UNCHANGED <<modes, targets, pulse, timeStep, stepping, simRunning, dirty, pins, clk_seen,
                 irq_seen, state, steps_seen, hit, pulse_seen>>

\* A key or a command that touches nothing here.
Other == Setting /\ UNCHANGED <<modes, targets, pulse, steps_seen, hit, pulse_seen>>

\* No key was pressed, or one that only edits the line.
NoCommand == Command /\ CoreAlone /\ UNCHANGED <<stepping, modes, targets, pulse, history>>

Exit ==
  /\ at = "input" /\ at' = "exit"
  /\ CoreAlone /\ UNCHANGED <<goal, cnt, addrs, stepping, modes, targets, pulse, history>>
-----------------------------------------------------------------------------
\* sg reset: the pin is held for three cycles of the clock.
BeginReset ==
  /\ at = "input" /\ at' = "reset"
  /\ simRunning' = TRUE /\ reset_i' = 0 /\ timeStep' = 0 /\ stepCnt' = 0
  /\ stepped' = 0 /\ whole' = FALSE
  /\ disturbed' = (disturbed \/ edges > 0)
  /\ UNCHANGED <<goal, cnt, addrs, modes, targets, pulse, stepSize, dirty, clk_i, irq_i,
                 evaluated, hit, edges, low>>

InLoop == UNCHANGED <<addrs, modes, targets, pulse, stepSize, dirty, reset_i, steps_seen, hit, low,
                      disturbed>>

UpdateReset ==
  /\ at = "reset" /\ stepCnt < 3 * fullCycle
  /\ Tick(irq_i) /\ InLoop /\ UNCHANGED program

EndReset ==
  /\ at = "reset" /\ stepCnt >= 3 * fullCycle
  /\ at' = "update"
  /\ simRunning' = FALSE /\ reset_i' = 1
  /\ UNCHANGED <<goal, cnt, addrs, modes, targets, pulse, timeStep, stepping, dirty, clk_i,
                 irq_i, evaluated, history>>

\* rn: the state a run stops in, and the one it first waits for if it is there.
Wanted(g) == CASE g = "fetch" -> "Fetch" [] g = "decode" -> "Decode" [] g = "execute" -> "Execute"
Away(g)   == CASE g = "fetch" -> "Decode" [] g = "decode" -> "Execute" [] g = "execute" -> "Fetch"

RunTo(g, target) ==
  /\ at = "input"
  /\ goal' = g /\ cnt' = 0
  /\ at' = IF g \in {"fetch", "decode", "execute"} /\ state = Wanted(g) THEN "leave" ELSE "search"
  /\ targetPC' = IF g = "pc" THEN target ELSE targetPC
  /\ whole' = FALSE /\ disturbed' = (disturbed \/ edges > 0)
  /\ CoreAlone /\ UNCHANGED <<addrs, modes, breakAddr, pulse, stepping, stepped, hit, edges, low>>

\* Broken variant: only the search that follows gives up.
Leaving_Unbounded == state # Away(goal)

\* The loop that leaves the wanted state; that of run_to_decode never gives up.
Leaving == state # Away(goal) /\ (cnt < maxSteps \/ goal = "decode")

Leave ==
  /\ at = "leave"
  /\ \/ /\ Leaving
        /\ Tick(irq_i) /\ InLoop
        /\ cnt' = IF cnt < maxSteps THEN cnt + 1 ELSE cnt
        /\ UNCHANGED <<at, goal>>
     \/ /\ ~Leaving
        /\ at' = "search" /\ cnt' = 0
        /\ CoreAlone /\ UNCHANGED <<goal, addrs, modes, targets, pulse, stepping, history>>

\* Broken variant: one evaluation too many.
Searching_OneMore == state # Wanted(goal) /\ cnt <= maxSteps

Searching == state # Wanted(goal) /\ cnt < maxSteps

SearchState ==
  /\ at = "search" /\ goal \in {"fetch", "decode", "execute"}
  /\ IF Searching
     THEN Tick(irq_i) /\ InLoop /\ cnt' = cnt + 1 /\ UNCHANGED <<at, goal>>
     ELSE /\ at' = "update" /\ goal' = "none" /\ cnt' = 0
          /\ CoreAlone /\ UNCHANGED <<addrs, modes, targets, pulse, stepping, history>>

\* run_to_ebreak and run_to_pc evaluate first and look then.
SearchValue ==
  /\ at = "search" /\ goal \in {"ebreak", "pc"}
  /\ Tick(irq_i) /\ InLoop
  /\ \E found \in IF goal = "pc" THEN {pc' = targetPC} ELSE BOOLEAN :
       IF found \/ cnt + 1 = maxSteps
       THEN at' = "update" /\ goal' = "none" /\ cnt' = 0
       ELSE cnt' = cnt + 1 /\ UNCHANGED <<at, goal>>
-----------------------------------------------------------------------------
\* The update that ends a pass.

BreakMet == freeRun /\ breakEnabled /\ pc = breakAddr

\* Broken variant: the step after the last is allowed too.
canStep_OneMore ==
  IF steppingEnabled THEN stepCnt <= stepSize ELSE freeRun /\ ~BreakMet

\* Stepping, when enabled, decides alone.
canStep == IF steppingEnabled THEN stepCnt < stepSize ELSE freeRun /\ ~BreakMet

\* Broken variant: a free run that meets the break address stays enabled.
Break_KeepsFreeRun ==
  /\ breakEnabled' = (breakEnabled /\ ~BreakMet)
  /\ UNCHANGED freeRun
  /\ hit' = (hit \/ (BreakMet /\ ~steppingEnabled))

\* The break address, met, ends the free run, a stepped one too; the screen is
\* redrawn, which leaves the dirty flag down.
Break ==
  /\ breakEnabled' = (breakEnabled /\ ~BreakMet)
  /\ freeRun' = (freeRun /\ ~BreakMet)
  /\ hit' = (hit \/ (BreakMet /\ ~steppingEnabled))

\* The pulse on the interrupt pin, while the interrupt is enabled.
PulseEnds == irqEnabled /\ irqTriggered /\ irqCnt > irqDuration
PulseLow  == irqEnabled /\ irqTriggered /\ irqCnt <= irqDuration

Pulse ==
  /\ irqTriggered' = (irqTriggered /\ ~PulseEnds)
  /\ irqCnt' = (IF PulseEnds THEN 0 ELSE IF PulseLow THEN irqCnt + 1 ELSE irqCnt)
  /\ low' = IF PulseLow THEN low + 1 ELSE low
  /\ UNCHANGED <<irqEnabled, irqDuration>>

UpdateStep ==
  /\ at = "update" /\ canStep
  /\ Break /\ Pulse
  /\ Tick(IF PulseLow THEN 0 ELSE 1)
  /\ stepped' = IF steppingEnabled THEN stepped + 1 ELSE stepped
  /\ whole' = (whole /\ steppingEnabled)
  /\ at' = "input" /\ dirty' = FALSE
  /\ UNCHANGED <<goal, cnt, addrs, steppingEnabled, targets, stepSize, reset_i, disturbed>>

UpdateIdle ==
  /\ at = "update" /\ ~canStep
  /\ Break
  /\ simRunning' = FALSE /\ irq_i' = 1
  /\ at' = "input" /\ dirty' = FALSE
  /\ UNCHANGED <<goal, cnt, addrs, steppingEnabled, targets, pulse, timeStep, stepping, clk_i,
                 reset_i, evaluated, steps_seen, pulse_seen>>

\* What the program does without being asked.
ProgramStep ==
  UpdateReset \/ EndReset \/ Leave \/ SearchState \/ SearchValue \/ UpdateStep \/ UpdateIdle
-----------------------------------------------------------------------------
\* The simulation by itself: any command with any argument, whenever one is read.
SimCommand ==
  \/ NStep \/ HCStep \/ FLStep \/ Halt
  \/ \E number \in Int :
       SetStepSize(number) \/ SetIRQDur(number) \/ SetBreak(number) \/ SetPC(number)
  \/ \E on \in BOOLEAN :
       EnableFree(on) \/ EnableBreak(on) \/ EnableStepping(on) \/ EnableIRQ(on)
  \/ TriggerIRQ \/ Other \/ NoCommand \/ Exit
  \/ BeginReset \/ \E g \in Goals \ {"none"}, target \in Int : RunTo(g, target)

SimNext == SimCommand \/ ProgramStep

SimSpec == (\E visited \in SUBSET Int : SimInit(visited)) /\ [][SimNext]_vars
-----------------------------------------------------------------------------
\* Stepping evaluates the core as often as it was told to and no more, and when
\* it stops by itself it has made every step; a run or a change of mode in
\* between may use the steps up.
StepsExact ==
  /\ stepped > 0 => stepped <= stepSize
  /\ at = "input" /\ steppingEnabled /\ ~simRunning /\ whole => stepped >= stepSize

\* A free run that met the break address stays where it is until it is told to
\* go on: neither an arming of the breakpoint, a pulse nor a step size restarts it.
BreakHolds == hit /\ at = "input" => ~simRunning

\* A press of Home gives the core one falling edge and "lower[s] irq for the current
\* duration value" (model.h) before the pin rises again: no pause, resume or second
\* press cuts the pulse short of its duration or in two.
PulseWhole ==
  [][irqTriggered /\ ~irqTriggered' /\ ~disturbed /\ irqDuration >= 0 =>
       edges = 1 /\ low >= irqDuration]_vars

\* Every reset and every run comes back to the keyboard.
RunReturns == at \in {"reset", "leave", "search"} ~> at \in {"input", "exit"}
=============================================================================
