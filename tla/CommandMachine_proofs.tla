----------------------- MODULE CommandMachine_proofs -----------------------
(***************************************************************************)
(* Proofs of the safety properties of the command machine, for every       *)
(* length of the status answer and every timing of the UART that           *)
(* TimingAssumption admits.                                                *)
(***************************************************************************)
EXTENDS CommandMachine, TLAPS

LEMMA Timing ==
  /\ StatusBytes \in 1..128
  /\ TxClocks \in Nat /\ TailClocks \in 0..TxClocks /\ RxClocks \in Nat
  /\ RxClocks >= TailClocks + 2
  BY TimingAssumption, StatusAssumption DEF Timely

\* Every state of the machine runs twice, first with next_state still its own, so
\* the invariants are about the pair.
At(s, n) == state = s /\ next_state = n

\* Where each state leads, and the commands on whose way it lies.
RouteOK ==
  /\ state = "CSReset" => next_state \in {state, "CSReset1"}
  /\ state = "CSReset1" => next_state \in {state, "CSResetComplete"}
  /\ state = "CSResetComplete" => next_state \in {state, "CSIdle"}
  /\ state = "CSIdle" => next_state \in {state, Dispatch[display_byte]}
  /\ state = "CSCPUResetAssert" =>
       display_byte = "r" /\ next_state \in {state, "CSCPUResetDeassert"}
  /\ state = "CSCPUResetDeassert" => display_byte = "r" /\ next_state \in {state, "CSSend"}
  /\ state = "CSResetAssertToggle" => display_byte = "e" /\ next_state \in {state, "CSSend"}
  /\ state = "CSCPUClockRise" => display_byte = "z" /\ next_state \in {state, "CSSend"}
  /\ state = "CSCPUClockFall" => display_byte \in {"x", "c"} /\ next_state \in {state, "CSSend"}
  /\ state = "CSCPUClockToggle" => display_byte = "c" /\ next_state \in {state, "CSCPUClockFall"}
  /\ state = "CSClockControlMan" => display_byte = "j" /\ next_state \in {state, "CSSend"}
  /\ state = "CSClockControlRun" => display_byte = "k" /\ next_state \in {state, "CSSend"}
  /\ state = "CSClockControlPll" => display_byte = "l" /\ next_state \in {state, "CSSend"}
  /\ state = "CSStatusRequest" => display_byte = "s" /\ next_state \in {state, "CSStatusSend"}
  /\ state = "CSStatusSend" => display_byte = "s" /\ next_state \in {state, "CSStatusSending"}
  /\ state = "CSStatusSending" =>
       display_byte = "s" /\ next_state \in {state, "CSStatusSend", "CSIdle"}
  /\ state = "CSSend" => display_byte # "s" /\ next_state \in {state, "CSSending"}
  /\ state = "CSSending" => display_byte # "s" /\ next_state \in {state, "CSSend", "CSIdle"}

\* The number of the byte of the answer that is being sent.
Count == IF display_byte = "s" THEN cnt_status_req_byte ELSE cnt_byte

CountsOK ==
  /\ cnt_status_req_byte < StatusBytes
  /\ state \notin {"CSSend", "CSSending"} \/ next_state = "CSIdle" => cnt_byte = 0
  /\ state \notin {"CSStatusSend", "CSStatusSending"} \/ next_state = "CSIdle" =>
       cnt_status_req_byte = 0

\* A byte is with UARTTx.
OnTheLine == state = next_state /\ state \in {"CSSending", "CSStatusSending"}

TransmitOK ==
  /\ tx_state = "TxReset" => At("CSReset", "CSReset") /\ ~locked
  /\ tx_state # "TxReset" =>
       /\ tx_complete <=> tx_state = "TxComplete"
       /\ OnTheLine <=> tx_state \in {"Sending", "TxComplete"}
       /\ ~OnTheLine =>
            (tx_en = 0 <=> At("CSSend", "CSSending") \/ At("CSStatusSend", "CSStatusSending"))
  /\ OnTheLine /\ tx_taken /\ tx_state = "Sending" => tx_left < TailClocks
  /\ OnTheLine /\ tx_state = "TxComplete" => tx_taken

\* Before the first command, after the last byte of an answer was taken, and between.
Booting == state \in {"CSReset", "CSReset1"} \/ At("CSResetComplete", "CSResetComplete")
Answered ==
  \/ OnTheLine /\ tx_taken /\ Count = Wanted(display_byte) - 1
  \/ state # "CSIdle" /\ next_state = "CSIdle"
Busy == ~Booting /\ ~Answered /\ ~At("CSIdle", "CSIdle")

\* Clocks until the machine listens, once the client may send again.
Remaining ==
  IF next_state = "CSIdle" THEN 1 ELSE IF tx_state = "TxComplete" THEN 2 ELSE tx_left + 3

\* The client sends when it has its answer, and its byte takes longer than the
\* machine's way back to CSIdle.
LinkOK ==
  /\ Booting => asked = NoCommand /\ rx_left = 0 /\ (locked => reset = 0)
  /\ Busy => /\ asked = display_byte /\ rx_left = 0
             /\ read = IF OnTheLine /\ tx_taken THEN Count + 1 ELSE Count
  /\ Answered => rx_left = 0 \/ rx_left >= Remaining
  /\ rx_left > 0 => asked = rx_byte /\ read = 0
  /\ rx_complete /\ state # "CSReset" =>
       At("CSIdle", "CSIdle") /\ asked = rx_byte /\ read = 0 /\ rx_left = 0

\* The reset sequence gives the processor an edge with reset low by its second clock.
ResetOK ==
  /\ display_byte = "r" /\ clock_select # 1 =>
       /\ At("CSCPUResetDeassert", "CSCPUResetDeassert") =>
            \/ cpu_resets
            \/ cnt_reset_hold = 0 /\ IF clock_select = 0 THEN man_clock = 0 ELSE ~pll_edge
       /\ state \in {"CSSend", "CSSending"} \/ At("CSCPUResetDeassert", "CSSend") => cpu_resets
  /\ At("CSCPUResetAssert", "CSCPUResetDeassert") => reset = 0 /\ cnt_reset_hold = 0
  /\ At("CSCPUResetDeassert", "CSCPUResetDeassert") => reset = 0

\* A clock command has its edge behind it after its first state.
Stepped ==
  \/ state \in {"CSSend", "CSSending"}
  \/ next_state = "CSSend"
  \/ display_byte = "c" /\ next_state = "CSCPUClockFall"

EdgesOK ==
  clock_select = 0 /\ display_byte \notin {"r", "j"} =>
    /\ Stepped => cpu_edges = IF display_byte \in {"z", "c"} THEN 1 - was_clock ELSE 0
    /\ Stepped /\ state \in {"CSCPUClockRise", "CSCPUClockToggle"} => man_clock = 1
    /\ ~Stepped /\ next_state = Dispatch[display_byte] =>
         cpu_edges = 0 /\ man_clock = was_clock

\* The byte that is being sent is the one the client reads next.
DataOK ==
  /\ At("CSSend", "CSSending") \/ At("CSStatusSend", "CSStatusSending") =>
       tx_byte = Answer[display_byte][Count + 1]
  /\ OnTheLine /\ ~tx_taken => sending = Answer[display_byte][Count + 1]

\* The inductive invariant.
CommandInv ==
  /\ TypeOK /\ RouteOK /\ CountsOK /\ TransmitOK /\ LinkOK /\ DataOK
  /\ ResetOK /\ EdgesOK
-----------------------------------------------------------------------------
LEMMA DispatchOf ==
  /\ Dispatch["r"] = "CSCPUResetAssert" /\ Dispatch["z"] = "CSCPUClockRise"
  /\ Dispatch["x"] = "CSCPUClockFall" /\ Dispatch["c"] = "CSCPUClockToggle"
  /\ Dispatch["e"] = "CSResetAssertToggle" /\ Dispatch["s"] = "CSStatusRequest"
  /\ Dispatch["j"] = "CSClockControlMan" /\ Dispatch["k"] = "CSClockControlRun"
  /\ Dispatch["l"] = "CSClockControlPll" /\ Dispatch["?"] = "CSSend"
  BY DEF Dispatch, Command

LEMMA DispatchType == \A c \in Command : Dispatch[c] \in State
  BY DEF State

LEMMA StateType == State =
    {"CSCPUResetAssert", "CSCPUClockRise", "CSCPUClockFall", "CSCPUClockToggle",
     "CSResetAssertToggle", "CSStatusRequest", "CSClockControlMan", "CSClockControlRun",
     "CSClockControlPll", "CSSend", "CSReset", "CSReset1", "CSResetComplete",
     "CSCPUResetDeassert", "CSStatusSend", "CSStatusSending", "CSIdle", "CSSending"}
  BY DispatchOf DEF State, Command

\* Types.
LEMMA MachineTypes ==
  ASSUME TypeOK, Machine
  PROVE  /\ state' \in State /\ next_state' \in State
         /\ reset' \in 0..1 /\ man_clock' \in 0..1 /\ clock_select' \in 0..3
         /\ cnt_byte' \in 0..3 /\ cnt_reset_hold' \in 0..15 /\ cnt_status_req_byte' \in 0..127
         /\ tx_en' \in 0..1 /\ display_byte' \in Command
         /\ locked' \in BOOLEAN
  <1> USE DEF TypeOK
  <1>1. state' \in State /\ locked' \in BOOLEAN
    BY DEF Machine
  <1> USE DispatchType, StateType
  <1>2. CASE CSReset
    BY <1>1, <1>2 DEF CSReset
  <1>3. CASE CSReset1
    BY <1>1, <1>3 DEF CSReset1
  <1>4. CASE CSResetComplete
    BY <1>1, <1>4 DEF CSResetComplete
  <1>5. CASE CSCPUResetAssert
    BY <1>1, <1>5 DEF CSCPUResetAssert
  <1>6. CASE CSCPUResetDeassert
    BY <1>1, <1>6 DEF CSCPUResetDeassert
  <1>7. CASE CSResetAssertToggle
    BY <1>1, <1>7 DEF CSResetAssertToggle
  <1>8. CASE CSCPUClock
    BY <1>1, <1>8 DEF CSCPUClock
  <1>9. CASE CSClockControl
    BY <1>1, <1>9 DEF CSClockControl
  <1>10. CASE CSStatusRequest
    BY <1>1, <1>10 DEF CSStatusRequest
  <1>11. CASE CSStatusSend
    BY <1>1, <1>11 DEF CSStatusSend
  <1>12. CASE CSStatusSending
    BY <1>1, <1>12 DEF CSStatusSending
  <1>13. CASE CSIdle
    BY <1>1, <1>13 DEF CSIdle
  <1>14. CASE CSSend
    BY <1>1, <1>14 DEF CSSend
  <1>15. CASE CSSending
    BY <1>1, <1>15 DEF CSSending
  <1> QED
    BY <1>2, <1>3, <1>4, <1>5, <1>6, <1>7, <1>8, <1>9, <1>10, <1>11, <1>12, <1>13, <1>14,
       <1>15 DEF Machine

LEMMA UartTypes ==
  ASSUME TypeOK, Transmit, Read, Receive
  PROVE  /\ rx_byte' \in Command /\ rx_complete' \in BOOLEAN /\ rx_left' \in 0..RxClocks
         /\ tx_complete' \in BOOLEAN /\ tx_taken' \in BOOLEAN /\ tx_left' \in 0..TxClocks
         /\ tx_state' \in {"TxReset", "TxIdle", "Sending", "TxComplete"}
         /\ asked' \in Command \cup {NoCommand} /\ read' \in 0..255
  <1> USE Timing DEF TypeOK
  <1>1. rx_byte' \in Command /\ rx_complete' \in BOOLEAN /\ rx_left' \in 0..RxClocks
    BY DEF Receive, Reception
  <1>2. tx_complete' \in BOOLEAN /\ tx_taken' \in BOOLEAN
    BY Zenon DEF Transmit, Transmission
  <1>4. /\ tx_left' \in 0..TxClocks
        /\ tx_state' \in {"TxReset", "TxIdle", "Sending", "TxComplete"}
    BY DEF Transmit, Transmission
  <1>3. asked' \in Command \cup {NoCommand} /\ read' \in 0..255
    BY DEF Read, client
  <1> QED
    BY <1>1, <1>2, <1>3, <1>4

LEMMA ProcessorTypes ==
  ASSUME TypeOK, Processor
  PROVE  /\ cpu_edges' \in 0..2 /\ cpu_resets' \in BOOLEAN /\ pll_edge' \in BOOLEAN
         /\ was_clock' \in 0..1
  <1>1. PICK rises \in CpuClockRises, seen \in {reset, reset'} :
    /\ pll_edge' = (rises /\ clock_select' >= 2)
    /\ IF state = "CSIdle" /\ rx_complete
       THEN cpu_edges' = 0 /\ cpu_resets' = FALSE
            /\ was_clock' = man_clock /\ was_reset' = reset
       ELSE /\ cpu_edges' = IF rises /\ cpu_edges < 2 THEN cpu_edges + 1 ELSE cpu_edges
            /\ cpu_resets' = (cpu_resets \/ (rises /\ seen = 0))
            /\ UNCHANGED <<was_clock, was_reset>>
    BY DEF Processor
  <1>2. rises \in BOOLEAN
    <2>1. CpuClockRises \subseteq BOOLEAN
      BY Zenon DEF CpuClockRises
    <2> QED
      BY <1>1, <2>1
  <1>3. pll_edge' \in BOOLEAN
    BY <1>1, Zenon
  <1>4. cpu_resets' \in BOOLEAN
    BY <1>1, Zenon DEF TypeOK
  <1>5. cpu_edges' \in 0..2 /\ was_clock' \in 0..1
    BY <1>1, <1>2 DEF TypeOK
  <1> QED
    BY <1>3, <1>4, <1>5

LEMMA TypesInit == Init => TypeOK
  <1> SUFFICES ASSUME Init PROVE TypeOK
    OBVIOUS
  <1>1. /\ locked \in BOOLEAN /\ tx_complete \in BOOLEAN /\ rx_complete \in BOOLEAN
        /\ tx_taken \in BOOLEAN /\ pll_edge \in BOOLEAN /\ cpu_resets \in BOOLEAN
    BY Zenon DEF Init, AtPowerUp
  <1>2. /\ state \in State /\ next_state \in State
        /\ display_byte \in Command /\ rx_byte \in Command
    BY StateType DEF Init, AtPowerUp, Command
  <1> QED
    BY <1>1, <1>2, Timing DEF Init, AtPowerUp, TypeOK

LEMMA TypesStep == TypeOK /\ [Next]_vars => TypeOK'
  <1> SUFFICES ASSUME TypeOK, [Next]_vars PROVE TypeOK'
    OBVIOUS
  <1>1. CASE Clock
    BY <1>1, MachineTypes, UartTypes, ProcessorTypes DEF Clock, TypeOK
  <1>2. CASE ClientSend
    BY <1>2, Timing DEF ClientSend, Arrival, TypeOK, top, cpu
  <1>3. CASE UNCHANGED vars
    BY <1>3 DEF vars, top, uart, client, cpu, TypeOK
  <1> QED
    BY <1>1, <1>2, <1>3 DEF Next

\* Type correctness of the machine, the line and the client, for every length of the
\* status answer and every timing (the declarations at Top.sv:265).
THEOREM CommandTypes == Spec => []TypeOK
  BY TypesInit, TypesStep, PTL DEF Spec

\* A byte is complete, and a command arrives, only when its state runs the first time.
LEMMA FirstRun ==
  ASSUME TypeOK, TransmitOK, LinkOK
  PROVE  /\ state \in {"CSSending", "CSStatusSending"} /\ tx_complete => next_state = state
         /\ state = "CSIdle" /\ rx_complete => next_state = state
  <1>1. state \in {"CSSending", "CSStatusSending"} => tx_state # "TxReset"
    BY DEF TransmitOK, At
  <1> QED
    BY <1>1 DEF TransmitOK, LinkOK, OnTheLine, At

\* The way of a command through the states.
LEMMA RouteStep ==
  ASSUME TypeOK, RouteOK, TransmitOK, LinkOK, Machine
  PROVE  RouteOK'
  <1> USE FirstRun, DispatchOf DEF RouteOK, TypeOK, Command
  <1>0. state' = next_state
    BY DEF Machine
  <1>1. CASE CSReset
    BY <1>1, <1>0 DEF CSReset
  <1>2. CASE CSReset1
    BY <1>2, <1>0 DEF CSReset1
  <1>3. CASE CSResetComplete
    BY <1>3, <1>0 DEF CSResetComplete
  <1>4. CASE CSCPUResetAssert
    BY <1>4, <1>0 DEF CSCPUResetAssert
  <1>5. CASE CSCPUResetDeassert
    BY <1>5, <1>0 DEF CSCPUResetDeassert
  <1>6. CASE CSResetAssertToggle
    BY <1>6, <1>0 DEF CSResetAssertToggle
  <1>7. CASE CSCPUClock
    BY <1>7, <1>0 DEF CSCPUClock
  <1>8. CASE CSClockControl
    BY <1>8, <1>0 DEF CSClockControl
  <1>9. CASE CSStatusRequest
    BY <1>9, <1>0 DEF CSStatusRequest
  <1>10. CASE CSStatusSend
    BY <1>10, <1>0 DEF CSStatusSend
  <1>11. CASE CSStatusSending
    BY <1>11, <1>0 DEF CSStatusSending
  <1>12. CASE CSIdle
    BY <1>12, <1>0 DEF CSIdle
  <1>13. CASE CSSend
    BY <1>13, <1>0 DEF CSSend
  <1>14. CASE CSSending
    BY <1>14, <1>0 DEF CSSending
  <1> QED
    BY <1>1, <1>2, <1>3, <1>4, <1>5, <1>6, <1>7,
       <1>8, <1>9, <1>10, <1>11, <1>12, <1>13, <1>14 DEF Machine

LEMMA CountsStep ==
  ASSUME TypeOK, RouteOK, CountsOK, TransmitOK, LinkOK, Machine
  PROVE  CountsOK'
  <1> USE FirstRun, Timing, DispatchOf DEF RouteOK, TypeOK, Command, CountsOK
  <1>0. state' = next_state
    BY DEF Machine
  <1>1. CASE CSReset
    BY <1>1, <1>0 DEF CSReset
  <1>2. CASE CSReset1
    BY <1>2, <1>0 DEF CSReset1
  <1>3. CASE CSResetComplete
    BY <1>3, <1>0 DEF CSResetComplete
  <1>4. CASE CSCPUResetAssert
    BY <1>4, <1>0 DEF CSCPUResetAssert
  <1>5. CASE CSCPUResetDeassert
    BY <1>5, <1>0 DEF CSCPUResetDeassert
  <1>6. CASE CSResetAssertToggle
    BY <1>6, <1>0 DEF CSResetAssertToggle
  <1>7. CASE CSCPUClock
    BY <1>7, <1>0 DEF CSCPUClock
  <1>8. CASE CSClockControl
    BY <1>8, <1>0 DEF CSClockControl
  <1>9. CASE CSStatusRequest
    BY <1>9, <1>0 DEF CSStatusRequest
  <1>10. CASE CSStatusSend
    BY <1>10, <1>0 DEF CSStatusSend
  <1>11. CASE CSStatusSending
    BY <1>11, <1>0 DEF CSStatusSending
  <1>12. CASE CSIdle
    BY <1>12, <1>0 DEF CSIdle
  <1>13. CASE CSSend
    BY <1>13, <1>0 DEF CSSend
  <1>14. CASE CSSending
    BY <1>14, <1>0 DEF CSSending
  <1> QED
    BY <1>1, <1>2, <1>3, <1>4, <1>5, <1>6, <1>7,
       <1>8, <1>9, <1>10, <1>11, <1>12, <1>13, <1>14 DEF Machine

LEMMA TransmitStep ==
  ASSUME TypeOK, RouteOK, TransmitOK, LinkOK, Machine, Transmit
  PROVE  TransmitOK'
  <1> USE FirstRun, Timing, DispatchOf
      DEF RouteOK, TypeOK, Command, TransmitOK, At, OnTheLine, Transmit, Transmission
  <1>0. state' = next_state /\ (locked' = locked \/ locked')
    BY DEF Machine
  <1>1. CASE CSReset
    BY <1>1, <1>0 DEF CSReset
  <1>2. CASE CSReset1
    BY <1>2, <1>0 DEF CSReset1
  <1>3. CASE CSResetComplete
    BY <1>3, <1>0 DEF CSResetComplete
  <1>4. CASE CSCPUResetAssert
    BY <1>4, <1>0 DEF CSCPUResetAssert
  <1>5. CASE CSCPUResetDeassert
    BY <1>5, <1>0 DEF CSCPUResetDeassert
  <1>6. CASE CSResetAssertToggle
    BY <1>6, <1>0 DEF CSResetAssertToggle
  <1>7. CASE CSCPUClock
    BY <1>7, <1>0 DEF CSCPUClock
  <1>8. CASE CSClockControl
    BY <1>8, <1>0 DEF CSClockControl
  <1>9. CASE CSStatusRequest
    BY <1>9, <1>0 DEF CSStatusRequest
  <1>10. CASE CSStatusSend
    BY <1>10, <1>0 DEF CSStatusSend
  <1>11. CASE CSStatusSending
    BY <1>11, <1>0 DEF CSStatusSending
  <1>12. CASE CSIdle
    BY <1>12, <1>0 DEF CSIdle
  <1>13. CASE CSSend
    BY <1>13, <1>0 DEF CSSend
  <1>14. CASE CSSending
    BY <1>14, <1>0 DEF CSSending
  <1> QED
    BY <1>1, <1>2, <1>3, <1>4, <1>5, <1>6, <1>7,
       <1>8, <1>9, <1>10, <1>11, <1>12, <1>13, <1>14 DEF Machine

LEMMA LinkStep ==
  ASSUME TypeOK, RouteOK, CountsOK, TransmitOK, LinkOK, Machine, Transmit, Read, Receive,
         RouteOK', CountsOK', TransmitOK'
  PROVE  LinkOK'
  <1> USE FirstRun, Timing, CommandAssumption, DispatchOf
      DEF RouteOK, TypeOK, Command, CountsOK, TransmitOK, LinkOK, At, OnTheLine,
          Booting, Answered, Busy, Remaining, Count, Wanted, Transmit, Transmission, Read, Receive,
          Reception, client
  <1>0. state' = next_state
    BY DEF Machine
  <1>1. CASE CSReset
    BY <1>1, <1>0 DEF CSReset
  <1>2. CASE CSReset1
    BY <1>2, <1>0 DEF CSReset1
  <1>3. CASE CSResetComplete
    BY <1>3, <1>0 DEF CSResetComplete
  <1>4. CASE CSCPUResetAssert
    BY <1>4, <1>0 DEF CSCPUResetAssert
  <1>5. CASE CSCPUResetDeassert
    BY <1>5, <1>0 DEF CSCPUResetDeassert
  <1>6. CASE CSResetAssertToggle
    BY <1>6, <1>0 DEF CSResetAssertToggle
  <1>7. CASE CSCPUClock
    BY <1>7, <1>0 DEF CSCPUClock
  <1>8. CASE CSClockControl
    BY <1>8, <1>0 DEF CSClockControl
  <1>9. CASE CSStatusRequest
    BY <1>9, <1>0 DEF CSStatusRequest
  <1>10. CASE CSStatusSend
    BY <1>10, <1>0 DEF CSStatusSend
  <1>11. CASE CSStatusSending
    BY <1>11, <1>0 DEF CSStatusSending
  <1>12. CASE CSIdle
    BY <1>12, <1>0 DEF CSIdle
  <1>13. CASE CSSend
    BY <1>13, <1>0 DEF CSSend
  <1>14. CASE CSSending
    BY <1>14, <1>0 DEF CSSending
  <1> QED
    BY <1>1, <1>2, <1>3, <1>4, <1>5, <1>6, <1>7,
       <1>8, <1>9, <1>10, <1>11, <1>12, <1>13, <1>14 DEF Machine

LEMMA AnswerOf ==
  ASSUME NEW c \in Command
  PROVE  /\ Len(Answer[c]) = Wanted(c)
         /\ \A i \in 0..Wanted(c) - 1 :
              Answer[c][i + 1] = IF c = "s" THEN Status(i) ELSE AnswerByte(c, i)
  <1>1. CASE c = "s"
    <2>1. Answer[c] = [i \in 1..StatusBytes |-> Status(i - 1)]
      BY <1>1 DEF Answer
    <2>2. Len(Answer[c]) = StatusBytes
      BY <2>1, Timing
    <2>3. ASSUME NEW i \in 0..StatusBytes - 1
          PROVE  Answer[c][i + 1] = Status(i)
      <3>1. i + 1 \in 1..StatusBytes /\ (i + 1) - 1 = i
        BY Timing
      <3> QED
        BY <2>1, <3>1
    <2> QED
      BY <1>1, <2>2, <2>3 DEF Wanted
  <1>2. CASE c # "s"
    <2>1. Answer[c] = [i \in 1..4 |-> AnswerByte(c, i - 1)]
      BY <1>2 DEF Answer
    <2>2. Len(Answer[c]) = 4
      BY <2>1
    <2>3. ASSUME NEW i \in 0..3
          PROVE  Answer[c][i + 1] = AnswerByte(c, i)
      <3>1. i + 1 \in 1..4 /\ (i + 1) - 1 = i
        OBVIOUS
      <3> QED
        BY <2>1, <3>1
    <2> QED
      BY <1>2, <2>2, <2>3 DEF Wanted
  <1> QED
    BY <1>1, <1>2

\* The byte is chosen in CSSend or CSStatusSend, where UARTTx is idle, and stays.
LEMMA DataStep ==
  ASSUME TypeOK, RouteOK, CountsOK, TransmitOK, LinkOK, DataOK, Machine, Transmit
  PROVE  DataOK'
  <1> USE FirstRun DEF RouteOK, TypeOK, At, OnTheLine
  <1>0. state' = next_state
    BY DEF Machine
  <1>1. CASE CSSend
    <2>1. tx_byte' = Answer[display_byte][cnt_byte + 1]
      BY <1>1, AnswerOf DEF CSSend, Wanted
    <2> QED
      BY <1>0, <1>1, <2>1 DEF CSSend, DataOK, TransmitOK, Transmit, Transmission, Count
  <1>2. CASE CSStatusSend
    <2>1. tx_byte' = Answer[display_byte][cnt_status_req_byte + 1]
      <3>1. tx_byte' = Status(cnt_status_req_byte) /\ display_byte = "s" /\ "s" \in Command
        BY <1>2 DEF CSStatusSend, Command
      <3>2. cnt_status_req_byte \in 0..StatusBytes - 1
        BY Timing DEF CountsOK
      <3> QED
        BY <3>1, <3>2, AnswerOf DEF Wanted
    <2> QED
      BY <1>0, <1>2, <2>1 DEF CSStatusSend, DataOK, TransmitOK, Transmit, Transmission, Count
  <1>3. CASE CSSending \/ CSStatusSending
    BY <1>0, <1>3 DEF CSSending, CSStatusSending, DataOK, TransmitOK, Transmit, Transmission, Count
  <1>4. CASE CSIdle
    BY <1>0, <1>4, DispatchOf DEF CSIdle, DataOK, Command
  <1>5. CASE CSReset \/ CSReset1 \/ CSResetComplete \/ CSCPUResetAssert
             \/ CSCPUResetDeassert \/ CSResetAssertToggle
    BY <1>0, <1>5 DEF CSReset, CSReset1, CSResetComplete, CSCPUResetAssert,
       CSCPUResetDeassert, CSResetAssertToggle, DataOK
  <1>6. CASE CSCPUClock \/ CSClockControl \/ CSStatusRequest
    BY <1>0, <1>6 DEF CSCPUClock, CSClockControl, CSStatusRequest, DataOK
  <1> QED
    BY <1>1, <1>2, <1>3, <1>4, <1>5, <1>6 DEF Machine

Arrives == state = "CSIdle" /\ rx_complete

\* What a period means for the processor: with the manual clock, and with the PLL's.
LEMMA ProcessorStep ==
  ASSUME TypeOK, Processor, TypeOK'
  PROVE  /\ Arrives => cpu_edges' = 0 /\ was_clock' = man_clock
         /\ ~Arrives => was_clock' = was_clock /\ (cpu_resets => cpu_resets')
         /\ ~Arrives /\ clock_select = 0 /\ clock_select' = 0 =>
              /\ cpu_edges' = IF man_clock = 0 /\ man_clock' = 1 /\ cpu_edges < 2
                              THEN cpu_edges + 1 ELSE cpu_edges
              /\ reset = 0 /\ reset' = 0 /\ man_clock = 0 /\ man_clock' = 1 => cpu_resets'
         /\ ~Arrives /\ clock_select >= 2 /\ clock_select' >= 2 /\ reset = 0 /\ reset' = 0 =>
              /\ ~pll_edge => cpu_resets'
              /\ pll_edge' => cpu_resets'
  <1>1. PICK rises \in CpuClockRises, seen \in {reset, reset'} :
    /\ pll_edge' = (rises /\ clock_select' >= 2)
    /\ IF state = "CSIdle" /\ rx_complete
       THEN cpu_edges' = 0 /\ cpu_resets' = FALSE
            /\ was_clock' = man_clock /\ was_reset' = reset
       ELSE /\ cpu_edges' = IF rises /\ cpu_edges < 2 THEN cpu_edges + 1 ELSE cpu_edges
            /\ cpu_resets' = (cpu_resets \/ (rises /\ seen = 0))
            /\ UNCHANGED <<was_clock, was_reset>>
    BY DEF Processor
  <1>2. /\ clock_select = 0 /\ clock_select' = 0 => rises = (man_clock = 0 /\ man_clock' = 1)
        /\ ~(clock_select = 0 /\ clock_select' = 0) /\ clock_select >= 2 /\ clock_select' >= 2
             /\ ~pll_edge => rises = TRUE
    BY Zenon DEF CpuClockRises
  <1>3. clock_select >= 2 => ~(clock_select = 0)
    BY DEF TypeOK
  <1>4. reset = 0 /\ reset' = 0 => seen = 0
    BY <1>1
  <1>5. Arrives => cpu_edges' = 0 /\ was_clock' = man_clock
    BY <1>1 DEF Arrives
  <1>6. ~Arrives => was_clock' = was_clock /\ (cpu_resets => cpu_resets')
    BY <1>1, Zenon DEF Arrives
  <1>7. ASSUME ~Arrives, clock_select = 0, clock_select' = 0
        PROVE  /\ cpu_edges' = IF man_clock = 0 /\ man_clock' = 1 /\ cpu_edges < 2
                               THEN cpu_edges + 1 ELSE cpu_edges
               /\ reset = 0 /\ reset' = 0 /\ man_clock = 0 /\ man_clock' = 1 => cpu_resets'
    <2>1. rises <=> man_clock = 0 /\ man_clock' = 1
      BY <1>2, <1>7
    <2>2. cpu_resets' <=> cpu_resets \/ (rises /\ seen = 0)
      BY <1>1, <1>7 DEF Arrives
    <2>3. cpu_edges' = IF rises /\ cpu_edges < 2 THEN cpu_edges + 1 ELSE cpu_edges
      BY <1>1, <1>7 DEF Arrives
    <2> QED
      BY <2>1, <2>2, <2>3, <1>4
  <1>8. ASSUME ~Arrives, clock_select >= 2, clock_select' >= 2, reset = 0, reset' = 0
        PROVE  (~pll_edge => cpu_resets') /\ (pll_edge' => cpu_resets')
    <2>1. cpu_resets' <=> cpu_resets \/ (rises /\ seen = 0)
      BY <1>1, <1>8 DEF Arrives
    <2>2. ~pll_edge => rises
      BY <1>2, <1>3, <1>8
    <2>3. pll_edge' <=> rises
      BY <1>1, <1>8
    <2> QED
      BY <2>1, <2>2, <2>3, <1>4, <1>8
  <1> QED
    BY <1>5, <1>6, <1>7, <1>8

LEMMA ResetStep ==
  ASSUME TypeOK, RouteOK, TransmitOK, LinkOK, ResetOK, Machine, Processor, TypeOK', RouteOK'
  PROVE  ResetOK'
  <1> USE FirstRun, ProcessorStep, DispatchOf DEF RouteOK, TypeOK, Command, ResetOK, At, Arrives
  <1>0. state' = next_state
    BY DEF Machine
  <1>1. CASE CSReset
    BY <1>1, <1>0 DEF CSReset
  <1>2. CASE CSReset1
    BY <1>2, <1>0 DEF CSReset1
  <1>3. CASE CSResetComplete
    BY <1>3, <1>0 DEF CSResetComplete
  <1>4. CASE CSCPUResetAssert
    BY <1>4, <1>0 DEF CSCPUResetAssert
  <1>5. CASE CSCPUResetDeassert
    BY <1>5, <1>0 DEF CSCPUResetDeassert
  <1>6. CASE CSResetAssertToggle
    BY <1>6, <1>0 DEF CSResetAssertToggle
  <1>7. CASE CSCPUClock
    BY <1>7, <1>0 DEF CSCPUClock
  <1>8. CASE CSClockControl
    BY <1>8, <1>0 DEF CSClockControl
  <1>9. CASE CSStatusRequest
    BY <1>9, <1>0 DEF CSStatusRequest
  <1>10. CASE CSStatusSend
    BY <1>10, <1>0 DEF CSStatusSend
  <1>11. CASE CSStatusSending
    BY <1>11, <1>0 DEF CSStatusSending
  <1>12. CASE CSIdle
    BY <1>12, <1>0 DEF CSIdle
  <1>13. CASE CSSend
    BY <1>13, <1>0 DEF CSSend
  <1>14. CASE CSSending
    BY <1>14, <1>0 DEF CSSending
  <1> QED
    BY <1>1, <1>2, <1>3, <1>4, <1>5, <1>6, <1>7,
       <1>8, <1>9, <1>10, <1>11, <1>12, <1>13, <1>14 DEF Machine

LEMMA EdgesStep ==
  ASSUME TypeOK, RouteOK, TransmitOK, LinkOK, EdgesOK, Machine, Processor, TypeOK', RouteOK'
  PROVE  EdgesOK'
  <1> SUFFICES ASSUME clock_select' = 0, display_byte' \notin {"r", "j"}
               PROVE  EdgesOK'
    BY DEF EdgesOK
  <1> USE DispatchOf DEF RouteOK, Command
  <1>0. /\ state' = next_state /\ display_byte \in Command /\ display_byte' \in Command
        /\ was_clock \in 0..1 /\ man_clock \in 0..1 /\ cpu_edges \in 0..2
    BY DEF Machine, TypeOK
  <1>e. ASSUME state # "CSIdle", clock_select = 0
        PROVE  /\ was_clock' = was_clock
               /\ cpu_edges' = IF man_clock = 0 /\ man_clock' = 1 /\ cpu_edges < 2
                               THEN cpu_edges + 1 ELSE cpu_edges
    BY <1>e, ProcessorStep DEF Arrives
  <1>1. CASE CSReset \/ CSReset1 \/ CSResetComplete
    BY <1>0, <1>1 DEF CSReset, CSReset1, CSResetComplete, EdgesOK, Stepped
  <1>2. CASE CSCPUResetAssert \/ CSCPUResetDeassert
    BY <1>0, <1>2 DEF CSCPUResetAssert, CSCPUResetDeassert
  <1>3. CASE CSResetAssertToggle
    BY <1>0, <1>3, <1>e DEF CSResetAssertToggle, EdgesOK, Stepped
  <1>4. CASE CSCPUClock
    <2>1. CASE state = "CSCPUClockRise"
      BY <1>0, <1>4, <1>e, <2>1 DEF CSCPUClock, EdgesOK, Stepped
    <2>2. CASE state = "CSCPUClockFall"
      BY <1>0, <1>4, <1>e, <2>2 DEF CSCPUClock, EdgesOK, Stepped
    <2>3. CASE state = "CSCPUClockToggle"
      BY <1>0, <1>4, <1>e, <2>3 DEF CSCPUClock, EdgesOK, Stepped
    <2> QED
      BY <1>4, <2>1, <2>2, <2>3 DEF CSCPUClock
  <1>5. CASE CSClockControl
    BY <1>0, <1>5 DEF CSClockControl
  <1>6. CASE CSStatusRequest \/ CSStatusSend \/ CSStatusSending
    BY <1>0, <1>6 DEF CSStatusRequest, CSStatusSend, CSStatusSending, EdgesOK, Stepped
  <1>7. CASE CSIdle
    <2>1. CASE Arrives
      <3>1. cpu_edges' = 0 /\ was_clock' = man_clock /\ man_clock' = man_clock
        BY <2>1, <1>7, ProcessorStep DEF CSIdle
      <3>2. state' = "CSIdle" /\ next_state' = Dispatch[display_byte']
        BY <1>0, <1>7, <2>1, FirstRun DEF CSIdle, Arrives
      <3> QED
        BY <1>0, <3>1, <3>2 DEF EdgesOK, Stepped
    <2>2. CASE ~Arrives
      <3>1. /\ next_state' = next_state /\ display_byte' = display_byte /\ clock_select = 0
            /\ cpu_edges' = cpu_edges /\ was_clock' = was_clock /\ man_clock' = man_clock
        BY <1>0, <1>7, <2>2, ProcessorStep DEF CSIdle, Arrives
      <3> QED
        BY <1>0, <1>7, <3>1 DEF CSIdle, EdgesOK, Stepped
    <2> QED
      BY <2>1, <2>2
  <1>8. CASE CSSend \/ CSSending
    <2>1. cpu_edges' = cpu_edges /\ was_clock' = was_clock
      BY <1>0, <1>8, <1>e DEF CSSend, CSSending
    <2>2. display_byte' = display_byte /\ clock_select = 0 /\ state \in {"CSSend", "CSSending"}
      BY <1>8 DEF CSSend, CSSending
    <2>3. cpu_edges = IF display_byte \in {"z", "c"} THEN 1 - was_clock ELSE 0
      BY <2>2 DEF EdgesOK, Stepped
    <2>4. Stepped' \/ next_state' = "CSIdle"
      BY <1>0, <1>8 DEF CSSend, CSSending, Stepped
    <2>5. /\ Dispatch[display_byte'] # "CSIdle"
          /\ state' \notin {"CSCPUClockRise", "CSCPUClockToggle"}
      BY <1>0, <2>2
    <2> QED
      BY <2>1, <2>2, <2>3, <2>4, <2>5 DEF EdgesOK
  <1> QED
    BY <1>1, <1>2, <1>3, <1>4, <1>5, <1>6, <1>7, <1>8 DEF Machine

-----------------------------------------------------------------------------
LEMMA CommandInvInit == Init => CommandInv
  <1> SUFFICES ASSUME Init PROVE CommandInv
    OBVIOUS
  <1> USE Timing, DispatchOf DEF Init, AtPowerUp, At, OnTheLine
  <1>1. RouteOK /\ CountsOK /\ TransmitOK
    BY DEF RouteOK, CountsOK, TransmitOK
  <1>2. LinkOK
    BY DEF LinkOK, Booting, Answered, Busy
  <1>3. ResetOK /\ EdgesOK /\ DataOK
    BY DEF ResetOK, EdgesOK, Stepped, DataOK
  <1> QED
    BY <1>1, <1>2, <1>3, TypesInit DEF CommandInv

LEMMA ClockKeeps == CommandInv /\ Clock => CommandInv'
  <1> SUFFICES ASSUME CommandInv, Clock PROVE CommandInv'
    OBVIOUS
  <1> USE DEF CommandInv, Clock
  <1>1. TypeOK'
    BY TypesStep DEF Next
  <1>2. RouteOK' /\ CountsOK'
    BY RouteStep, CountsStep
  <1>3. TransmitOK'
    BY TransmitStep
  <1>4. LinkOK'
    BY <1>2, <1>3, LinkStep
  <1>5. ResetOK' /\ EdgesOK'
    BY <1>1, <1>2, ResetStep, EdgesStep
  <1>6. DataOK'
    BY DataStep
  <1> QED
    BY <1>1, <1>2, <1>3, <1>4, <1>5, <1>6

LEMMA SendKeeps == CommandInv /\ ClientSend => CommandInv'
  <1> SUFFICES ASSUME CommandInv, ClientSend PROVE CommandInv'
    OBVIOUS
  <1> USE DEF CommandInv
  <1>1. TypeOK'
    BY TypesStep DEF Next
  <1>2. RouteOK' /\ CountsOK' /\ ResetOK' /\ EdgesOK' /\ TransmitOK' /\ DataOK'
    BY DEF ClientSend, Arrival, top, cpu, RouteOK, CountsOK, ResetOK, EdgesOK, TransmitOK,
       DataOK, At,
           OnTheLine, Stepped, Count
  <1>3. LinkOK'
    BY Timing, CommandAssumption
       DEF ClientSend, Arrival, top, cpu, TypeOK, RouteOK, TransmitOK, LinkOK, At, OnTheLine,
           Booting,
           Answered, Busy, Remaining, Count, Wanted
  <1> QED
    BY <1>1, <1>2, <1>3

LEMMA CommandInvStep == CommandInv /\ [Next]_vars => CommandInv'
  <1> SUFFICES ASSUME CommandInv, [Next]_vars PROVE CommandInv'
    OBVIOUS
  <1>1. CASE UNCHANGED vars
    BY <1>1 DEF vars, top, uart, client, cpu, CommandInv, TypeOK, RouteOK, CountsOK, TransmitOK,
                LinkOK, DataOK, ResetOK, EdgesOK, At, OnTheLine, Booting, Answered, Busy,
                Remaining, Count, Stepped
  <1> QED
    BY <1>1, ClockKeeps, SendKeeps DEF Next

LEMMA CommandInvHolds == Spec => []CommandInv
  BY CommandInvInit, CommandInvStep, PTL DEF Spec

\* No command is lost: the machine is back in CSIdle before the client's next byte is
\* complete, for every RxClocks of at least TailClocks + 2 (Top.sv CSIdle).
THEOREM CommandsHeard == Spec => []NoCommandLost
  <1>1. CommandInv => NoCommandLost
    BY DEF CommandInv, LinkOK, NoCommandLost, At
  <1> QED
    BY <1>1, CommandInvHolds, PTL

\* "r" resets the processor, stopped or not, with the manual clock and with the PLL's
\* (Top.sv CSCPUResetAssert, CSCPUResetDeassert).
THEOREM ResetIsSeen == Spec => []ResetReachesCPU
  <1>1. CommandInv => ResetReachesCPU
    BY DEF CommandInv, ResetOK, ResetReachesCPU
  <1> QED
    BY <1>1, CommandInvHolds, PTL

\* A clock command is one edge or none, although its states run twice (Top.sv
\* CSCPUClockRise to CSCPUClockToggle).
THEOREM StepsAreSingle == Spec => []StepsOnce
  <1>1. CommandInv => StepsOnce
    BY DEF CommandInv, EdgesOK, Stepped, StepsOnce
  <1> QED
    BY <1>1, CommandInvHolds, PTL

-----------------------------------------------------------------------------
\* The client reads a byte while it waits for it, and it is the right one.
LEMMA ReadIsReply ==
  ASSUME CommandInv, Clock, client' # client
  PROVE  Server!Reply
  <1> USE DEF CommandInv, Clock
  <1>1. tx_taken' /\ ~tx_taken
    BY DEF Read
  <1>2. tx_state = "Sending"
    BY <1>1 DEF Transmit, Transmission
  <1>3. OnTheLine /\ state # "CSReset"
    BY <1>2 DEF TransmitOK, OnTheLine
  <1>4. Busy
    BY <1>1, <1>3 DEF Busy, Booting, Answered, OnTheLine, At
  <1>5. /\ asked = display_byte /\ read = Count /\ display_byte \in Command
        /\ asked # NoCommand
    BY <1>1, <1>4, CommandAssumption DEF LinkOK, TypeOK
  <1>6. sending = Answer[asked][read + 1]
    BY <1>1, <1>3, <1>5 DEF DataOK
  <1>7. read \in 0..127 /\ (read + 1) % 256 = read + 1
    BY <1>5 DEF Count, TypeOK
  <1>8. last' = sending /\ read' = read + 1
        /\ asked' = IF read' = Wanted(asked) THEN NoCommand ELSE asked
    BY <1>1, <1>5, <1>7 DEF Read
  <1>9. Len(Answer[asked]) = Wanted(asked)
    BY <1>5, AnswerOf
  <1> QED
    BY <1>5, <1>6, <1>8, <1>9 DEF Server!Reply

\* The safety half of AnswersCommands: what the client has read is the answer to its
\* own command, byte for byte, for every length and timing; that the answer always
\* comes is left to the run (Top.sv CSSend to CSSending, CSStatusSend to
\* CSStatusSending; main.go readPort).
THEOREM AnswersAreExact == Spec => Server!Init /\ [][Server!Next]_(Server!vars)
  <1>1. Init => Server!Init
    BY DEF Init, AtPowerUp, Server!Init
  <1>2. CommandInv /\ [Next]_vars => [Server!Next]_(Server!vars)
    <2> SUFFICES ASSUME CommandInv, [Next]_vars PROVE [Server!Next]_(Server!vars)
      OBVIOUS
    <2>1. CASE Clock /\ client' = client
      BY <2>1 DEF client, Server!vars
    <2>2. CASE Clock /\ client' # client
      BY <2>2, ReadIsReply DEF Server!Next
    <2>3. CASE ClientSend
      BY <2>3 DEF ClientSend, Arrival, Server!Next, Server!Ask, Answer
    <2>4. CASE UNCHANGED vars
      BY <2>4 DEF vars, client, Server!vars
    <2> QED
      BY <2>1, <2>2, <2>3, <2>4 DEF Next
  <1> QED
    BY <1>1, <1>2, CommandInvHolds, PTL DEF Spec
=============================================================================
