------------------------------ MODULE CommandMachine ------------------------------
(* The machine in Top that takes commands from the UART, drives the processor's
   clock and reset and answers, with the client at the other end of the line.
   The UART is modelled by what ByteChannel promises and by its timing. One Clock
   is one period of clk. *)
EXTENDS UARTTiming, Sequences

CONSTANTS
  NoCommand,      \* no request is outstanding
  StatusBytes     \* bytes of a status answer

ASSUME StatusAssumption == StatusBytes \in 1..128

VARIABLES
  state, next_state, man_clock, clock_select, cnt_byte, cnt_reset_hold,
  cnt_status_req_byte, tx_en, tx_byte, display_byte,
  locked,                         \* the PLL has locked
  rx_byte,                        \* the byte UARTRx gets
  asked, read, last, follow,      \* client: request, bytes read, and "s" is next
  pll_edge,                       \* the PLL's clock rose in the last period
  cpu_edges, cpu_resets,          \* history: edges since the command, one of them in reset
  was_clock, was_reset            \* history: man_clock and reset when it came

top == <<state, next_state, reset, man_clock, clock_select, cnt_byte, cnt_reset_hold,
         cnt_status_req_byte, tx_en, tx_byte, display_byte, locked>>
uart == <<tx_state, tx_left, tx_taken, tx_complete, sending, rx_left, rx_byte, rx_complete>>
client == <<asked, read, last, follow>>
cpu == <<pll_edge, cpu_edges, cpu_resets, was_clock, was_reset>>
vars == <<top, uart, client, cpu>>

-----------------------------------------------------------------------------------
(* Commands and answers. A byte is a pair; the second part numbers status bytes. *)

Command == {"r", "z", "x", "c", "e", "s", "j", "k", "l", "?"}
ASSUME CommandAssumption == NoCommand \notin Command
Text(c) == <<c, 0>>
Status(i) == <<"status", i>>

\* The state that carries out a command.
Dispatch == [c \in Command |->
  CASE c = "r" -> "CSCPUResetAssert"   [] c = "z" -> "CSCPUClockRise"
    [] c = "x" -> "CSCPUClockFall"     [] c = "c" -> "CSCPUClockToggle"
    [] c = "e" -> "CSResetAssertToggle" [] c = "s" -> "CSStatusRequest"
    [] c = "j" -> "CSClockControlMan"  [] c = "k" -> "CSClockControlRun"
    [] c = "l" -> "CSClockControlPll"  [] OTHER -> "CSSend"]

Letters(c) ==
  CASE c = "r" -> <<"R", "s">> [] c = "e" -> <<"R", "a">>
    [] c = "z" -> <<"C", "r">> [] c = "x" -> <<"C", "f">> [] c = "c" -> <<"C", "t">>
    [] c \in {"j", "k"} -> <<"K", "k">> [] OTHER -> <<"O", "k">>

\* tx_byte in CSSend.
AnswerByte(c, i) == Text((Letters(c) \o <<"CR", "LF">>)[i + 1])

State == {Dispatch[c] : c \in Command} \cup
  {"CSReset", "CSReset1", "CSResetComplete", "CSCPUResetDeassert", "CSStatusSend",
   "CSStatusSending", "CSIdle", "CSSending"}

TypeOK ==
  /\ state \in State /\ next_state \in State
  /\ reset \in 0..1 /\ man_clock \in 0..1 /\ clock_select \in 0..3
  /\ cnt_byte \in 0..3 /\ cnt_reset_hold \in 0..15 /\ cnt_status_req_byte \in 0..127
  /\ tx_en \in 0..1 /\ display_byte \in Command /\ rx_byte \in Command
  /\ locked \in BOOLEAN /\ tx_complete \in BOOLEAN /\ rx_complete \in BOOLEAN
  /\ tx_state \in {"TxReset", "TxIdle", "Sending", "TxComplete"}
  /\ tx_taken \in BOOLEAN /\ pll_edge \in BOOLEAN /\ was_clock \in 0..1
  /\ tx_left \in 0..TxClocks /\ rx_left \in 0..RxClocks
  /\ asked \in Command \cup {NoCommand} /\ read \in 0..255
  /\ cpu_edges \in 0..2 /\ cpu_resets \in BOOLEAN

Init ==
  /\ state = "CSReset" /\ next_state = "CSReset"
  /\ reset \in 0..1 /\ man_clock \in 0..1 /\ clock_select \in 0..3
  /\ cnt_byte = 0 /\ cnt_reset_hold = 0 /\ cnt_status_req_byte = 0
  /\ tx_en \in 0..1 /\ tx_byte = Text("?") /\ display_byte = "?"
  /\ locked = FALSE
  /\ AtPowerUp /\ sending = Text("?") /\ rx_byte = "?"
  /\ asked = NoCommand /\ read = 0 /\ last = <<>> /\ follow = FALSE
  /\ pll_edge = FALSE
  /\ cpu_edges = 0 /\ cpu_resets = FALSE /\ was_clock = 0 /\ was_reset = 0

-----------------------------------------------------------------------------------
(* The machine. state follows next_state one clock later. *)

CSReset ==
  /\ state = "CSReset"
  /\ reset' = 0 /\ tx_en' = 1 /\ man_clock' = 0 /\ clock_select' = 0
  /\ cnt_byte' = 0 /\ cnt_reset_hold' = 0
  /\ next_state' = "CSReset1"
  /\ UNCHANGED <<cnt_status_req_byte, tx_byte, display_byte>>

CSReset1 ==
  /\ state = "CSReset1"
  /\ reset' = 0
  /\ next_state' = IF locked THEN "CSResetComplete" ELSE next_state
  /\ UNCHANGED <<man_clock, clock_select, cnt_byte, cnt_reset_hold, cnt_status_req_byte,
                 tx_en, tx_byte, display_byte>>

CSResetComplete ==
  /\ state = "CSResetComplete"
  /\ reset' = 1
  /\ next_state' = "CSIdle"
  /\ UNCHANGED <<man_clock, clock_select, cnt_byte, cnt_reset_hold, cnt_status_req_byte,
                 tx_en, tx_byte, display_byte>>

CSCPUResetAssert ==
  /\ state = "CSCPUResetAssert"
  /\ reset' = 0 /\ cnt_reset_hold' = 0 /\ tx_en' = 1 /\ man_clock' = 1 - man_clock
  /\ next_state' = "CSCPUResetDeassert"
  /\ UNCHANGED <<clock_select, cnt_byte, cnt_status_req_byte, tx_byte, display_byte>>

\* Mutant: the reset is not held.
CSCPUResetDeassert_Short ==
  /\ state = "CSCPUResetDeassert"
  /\ reset' = 1 /\ next_state' = "CSSend"
  /\ man_clock' = 1 - man_clock
  /\ UNCHANGED <<clock_select, cnt_byte, cnt_reset_hold, cnt_status_req_byte, tx_en, tx_byte,
                 display_byte>>

CSCPUResetDeassert ==
  /\ state = "CSCPUResetDeassert"
  /\ \/ /\ cnt_reset_hold = 15
        /\ reset' = 1 /\ next_state' = "CSSend" /\ UNCHANGED cnt_reset_hold
     \/ /\ cnt_reset_hold < 15
        /\ cnt_reset_hold' = cnt_reset_hold + 1 /\ UNCHANGED <<reset, next_state>>
  /\ man_clock' = 1 - man_clock
  /\ UNCHANGED <<clock_select, cnt_byte, cnt_status_req_byte, tx_en, tx_byte, display_byte>>

CSResetAssertToggle ==
  /\ state = "CSResetAssertToggle"
  /\ reset' = 1 - reset
  /\ next_state' = "CSSend"
  /\ UNCHANGED <<man_clock, clock_select, cnt_byte, cnt_reset_hold, cnt_status_req_byte,
                 tx_en, tx_byte, display_byte>>

\* Mutant: the toggle toggles, as the reset sequence does.
CSCPUClock_Toggles ==
  /\ \/ state = "CSCPUClockRise" /\ man_clock' = 1 /\ next_state' = "CSSend"
     \/ state = "CSCPUClockFall" /\ man_clock' = 0 /\ next_state' = "CSSend"
     \/ /\ state = "CSCPUClockToggle"
        /\ man_clock' = 1 - man_clock /\ next_state' = "CSCPUClockFall"
  /\ UNCHANGED <<reset, clock_select, cnt_byte, cnt_reset_hold, cnt_status_req_byte,
                 tx_en, tx_byte, display_byte>>

CSCPUClock ==
  /\ \/ state = "CSCPUClockRise" /\ man_clock' = 1 /\ next_state' = "CSSend"
     \/ state = "CSCPUClockFall" /\ man_clock' = 0 /\ next_state' = "CSSend"
     \/ state = "CSCPUClockToggle" /\ man_clock' = 1 /\ next_state' = "CSCPUClockFall"
  /\ UNCHANGED <<reset, clock_select, cnt_byte, cnt_reset_hold, cnt_status_req_byte,
                 tx_en, tx_byte, display_byte>>

CSClockControl ==
  /\ \/ state = "CSClockControlMan" /\ clock_select' = 0
     \/ state = "CSClockControlRun" /\ clock_select' = 1
     \/ state = "CSClockControlPll" /\ clock_select' = 2
  /\ next_state' = "CSSend"
  /\ UNCHANGED <<reset, man_clock, cnt_byte, cnt_reset_hold, cnt_status_req_byte,
                 tx_en, tx_byte, display_byte>>

CSStatusRequest ==
  /\ state = "CSStatusRequest"
  /\ cnt_status_req_byte' = 0
  /\ next_state' = "CSStatusSend"
  /\ UNCHANGED <<reset, man_clock, clock_select, cnt_byte, cnt_reset_hold, tx_en, tx_byte,
                 display_byte>>

CSStatusSend ==
  /\ state = "CSStatusSend"
  /\ tx_en' = 0 /\ tx_byte' = Status(cnt_status_req_byte)
  /\ next_state' = "CSStatusSending"
  /\ UNCHANGED <<reset, man_clock, clock_select, cnt_byte, cnt_reset_hold,
                 cnt_status_req_byte, display_byte>>

CSStatusSending ==
  /\ state = "CSStatusSending"
  /\ tx_en' = 1
  /\ \/ /\ tx_complete /\ cnt_status_req_byte = StatusBytes - 1
        /\ next_state' = "CSIdle" /\ cnt_status_req_byte' = 0
     \/ /\ tx_complete /\ cnt_status_req_byte # StatusBytes - 1
        /\ next_state' = "CSStatusSend"
        /\ cnt_status_req_byte' = (cnt_status_req_byte + 1) % 128
     \/ ~tx_complete /\ UNCHANGED <<next_state, cnt_status_req_byte>>
  /\ UNCHANGED <<reset, man_clock, clock_select, cnt_byte, cnt_reset_hold, tx_byte, display_byte>>

CSIdle ==
  /\ state = "CSIdle"
  /\ IF rx_complete
     THEN display_byte' = rx_byte /\ next_state' = Dispatch[rx_byte]
     ELSE UNCHANGED <<display_byte, next_state>>
  /\ UNCHANGED <<reset, man_clock, clock_select, cnt_byte, cnt_reset_hold,
                 cnt_status_req_byte, tx_en, tx_byte>>

\* Mutant: the byte is counted where it is started, in a state that runs twice.
CSSend_Counts ==
  /\ state = "CSSend"
  /\ tx_en' = 0 /\ tx_byte' = AnswerByte(display_byte, cnt_byte)
  /\ cnt_byte' = (cnt_byte + 1) % 4
  /\ next_state' = "CSSending"
  /\ UNCHANGED <<reset, man_clock, clock_select, cnt_reset_hold, cnt_status_req_byte, display_byte>>

CSSend ==
  /\ state = "CSSend"
  /\ tx_en' = 0 /\ tx_byte' = AnswerByte(display_byte, cnt_byte)
  /\ next_state' = "CSSending"
  /\ UNCHANGED <<reset, man_clock, clock_select, cnt_byte, cnt_reset_hold,
                 cnt_status_req_byte, display_byte>>

\* Mutant: the counter is not cleared after the last byte.
CSSending_NoClear ==
  /\ state = "CSSending"
  /\ tx_en' = 1
  /\ \/ /\ tx_complete /\ cnt_byte' = cnt_byte + 1
        /\ next_state' = IF cnt_byte = 3 THEN "CSIdle" ELSE "CSSend"
     \/ ~tx_complete /\ UNCHANGED <<next_state, cnt_byte>>
  /\ UNCHANGED <<reset, man_clock, clock_select, cnt_reset_hold, cnt_status_req_byte,
                 tx_byte, display_byte>>

CSSending ==
  /\ state = "CSSending"
  /\ tx_en' = 1
  /\ \/ tx_complete /\ cnt_byte = 3 /\ next_state' = "CSIdle" /\ cnt_byte' = 0
     \/ tx_complete /\ cnt_byte < 3 /\ next_state' = "CSSend" /\ cnt_byte' = cnt_byte + 1
     \/ ~tx_complete /\ UNCHANGED <<next_state, cnt_byte>>
  /\ UNCHANGED <<reset, man_clock, clock_select, cnt_reset_hold, cnt_status_req_byte,
                 tx_byte, display_byte>>

Machine ==
  /\ \/ CSReset \/ CSReset1 \/ CSResetComplete
     \/ CSCPUResetAssert \/ CSCPUResetDeassert \/ CSResetAssertToggle
     \/ CSCPUClock \/ CSClockControl
     \/ CSStatusRequest \/ CSStatusSend \/ CSStatusSending
     \/ CSIdle \/ CSSend \/ CSSending
  /\ state' = next_state
  /\ locked' \in {locked, TRUE}

-----------------------------------------------------------------------------------
(* The UART, as UARTTx and UARTRx behave seen from the machine, and the client's
   reads. *)

Transmit == Transmission(tx_en = 0, tx_byte)

\* Mutant: the client does not wait for the line feed.
Wanted_Three(c) == IF c = "s" THEN StatusBytes ELSE 3

\* What a request makes the client read before it sends again.
Wanted(c) == IF c = "s" THEN StatusBytes ELSE 4

\* readPort gets the byte the line hands over.
Read ==
  IF tx_taken' /\ ~tx_taken
  THEN /\ last' = sending /\ read' = (read + 1) % 256
       /\ asked' = IF asked # NoCommand /\ read' = Wanted(asked) THEN NoCommand ELSE asked
       /\ UNCHANGED follow
  ELSE UNCHANGED client

Receive == Reception /\ UNCHANGED rx_byte

-----------------------------------------------------------------------------------
(* The processor's clock. In manual mode it rises when man_clock does. The run
   clock and the PLL's clock run beside clk: in a period the first rises or not,
   the second does not stay low for two periods. A rising edge that meets a
   change of reset may see either value. *)

CpuClockRises ==
  IF clock_select = 0 /\ clock_select' = 0
  THEN {man_clock = 0 /\ man_clock' = 1}
  ELSE IF clock_select >= 2 /\ clock_select' >= 2 /\ ~pll_edge THEN {TRUE}
  ELSE BOOLEAN

Processor ==
  \E rises \in CpuClockRises, seen \in {reset, reset'} :
    /\ pll_edge' = (rises /\ clock_select' >= 2)
    /\ IF state = "CSIdle" /\ rx_complete
       THEN cpu_edges' = 0 /\ cpu_resets' = FALSE
            /\ was_clock' = man_clock /\ was_reset' = reset
       ELSE /\ cpu_edges' = IF rises /\ cpu_edges < 2 THEN cpu_edges + 1 ELSE cpu_edges
            /\ cpu_resets' = (cpu_resets \/ (rises /\ seen = 0))
            /\ UNCHANGED <<was_clock, was_reset>>

-----------------------------------------------------------------------------------
Clock == Machine /\ Transmit /\ Read /\ Receive /\ Processor

(* The client sends a command once it is up; after the answer to any command but
   "s" it asks for the status. *)
ClientSend ==
  /\ asked = NoCommand
  /\ locked /\ reset = 1
  /\ \E c \in Command :
       /\ follow => c = "s"
       /\ asked' = c /\ rx_byte' = c /\ follow' = (c # "s")
  /\ read' = 0 /\ Arrival
  /\ UNCHANGED <<last, top, cpu, tx_state, tx_left, tx_taken, tx_complete, sending, rx_complete>>

Next == Clock \/ ClientSend

\* The oscillator runs and the PLL locks.
Spec == Init /\ [][Next]_vars /\ WF_vars(Clock /\ locked')
-----------------------------------------------------------------------------------
Answer == [c \in Command |->
  IF c = "s" THEN [i \in 1..StatusBytes |-> Status(i - 1)]
  ELSE [i \in 1..4 |-> AnswerByte(c, i - 1)]]

Server == INSTANCE CommandServer

(* The client reads exactly the bytes of its own command, in order, none missing,
   doubled or left over for the next read, and always gets them: it reads a fixed
   number and has no timeout (main.go readPort; Top.sv CSSend to CSSending,
   CSStatusSend to CSStatusSending). *)
AnswersCommands == Server!Spec

(* rx_complete is high for one clock and only CSIdle looks at it, so a command that
   completes at any other time would vanish (Top.sv CSIdle). *)
NoCommandLost ==
  rx_complete /\ state # "CSReset" => state = "CSIdle" /\ next_state = "CSIdle"

(* When "r" is answered the processor, whose reset is synchronous, has seen an edge
   of its own clock with reset low, whether the clock is the manual one, stopped
   high or low, or the PLL's (Top.sv CSCPUResetAssert, CSCPUResetDeassert). The run
   clock is too slow for this and is excepted. *)
ResetReachesCPU ==
  state = "CSSend" /\ display_byte = "r" /\ clock_select # 1 => cpu_resets

(* In manual mode a clock command gives the processor one edge if the clock was low
   and none if it was high, and a command that is not about the clock gives none,
   although every state runs twice (Top.sv CSCPUClockRise to CSCPUClockToggle). *)
StepsOnce ==
  state = "CSSend" /\ clock_select = 0 /\ display_byte \notin {"r", "j"} =>
    cpu_edges = IF display_byte \in {"z", "c"} THEN 1 - was_clock ELSE 0

(* "For manually controlling Reset with clocks" (Top.sv:327): once "e" is answered
   the reset is the opposite of what it was, for the clock commands that follow. *)
ToggleHolds ==
  state = "CSSend" /\ display_byte = "e" => reset # was_reset
===================================================================================
