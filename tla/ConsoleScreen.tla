---------------------------- MODULE ConsoleScreen ----------------------------
(***************************************************************************)
(* The console's screen: the show methods of console.cpp.  A row of it     *)
(* holds what was last written there, so what the reader sees is a copy    *)
(* that each command and each pass has to renew.                           *)
(***************************************************************************)
EXTENDS Simulation, Sequences, SequencesExt

CONSTANTS
  MemLen,     \* words of memory (1024)
  MemRows     \* rows of the memory window (32)

ASSUME ScreenAssumption == MemRows \in Nat \ {0} /\ MemLen \in Nat /\ MemLen > MemRows + 1

VARIABLES
  fromAddr, timeStepDelayms, irqTriggerPoint, selectedReg, bank,  \* the model's, for show
  shown,                    \* the rows of properties
  clockRow, p_clkState,     \* the clock's row, and its last edge: 0 rising, 1 falling
  window,                   \* the word whose contents a row of the window shows
  marks,                    \* the markers beside the window
  p_pcMarker, p_pcpMarker,  \* the rows of the last PC and PC_prior markers
  looped                    \* history: a loop drove the clock since its row showed an edge

viewed == <<fromAddr, timeStepDelayms, irqTriggerPoint, selectedReg, bank>>
markers == <<marks, p_pcMarker, p_pcpMarker>>
clockShown == <<clockRow, p_clkState, looped>>
screen == <<shown, clockShown, window, markers>>

rowOffset == 3
WindowRows == rowOffset .. rowOffset + MemRows - 1

word_to_byte_addr(wa) == 4 * wa
byte_to_word_addr(ba) == ba \div 4
-----------------------------------------------------------------------------
\* Labels: the enumerations of TypeEnums.sv in their order, and what the console
\* prints for a code.

MatrixState == <<"Reset", "Fetch", "Decode", "Execute", "Halt">>
ResetState == <<"Sync0", "Vector0", "Vector1", "Vector2", "Vector3">>
InstructionState == <<
  "STStore", "STMemAcc", "STMemWrt", "STMemRrd", "ITLoad", "ITLDMemAcc", "ITLDMemMdr",
  "ITLDMemCmpl", "RType", "RTCmpl", "BType", "BTBranch", "BTCmpl", "ITALU", "ITALUCmpl",
  "JTJal", "JTJalRtr", "ITJalr", "ITJalrRtr", "UType", "UTCmpl", "UTypeAui", "UTAuiCmpl",
  "ITEbreak", "ITECall", "ITCSR", "ITCSRLd", "IRQ0", "IRQ1", "IRQ2", "ITMret", "ITMretClr",
  "PreFetch", "IRUnknown">>
ALU_Ops == [Add |-> 0, Sub |-> 2, Xor |-> 32, Or |-> 48, And |-> 56, Sll |-> 8, Srl |-> 40,
            Sra |-> 42, Slt |-> 16, Sltu |-> 24]

Code(enum, value) == (CHOOSE i \in DOMAIN enum : enum[i] = value) - 1

showCPUState(value) ==
  CASE value = 0 -> "Reset" [] value = 1 -> "Fetch" [] value = 2 -> "Decode"
    [] value = 3 -> "Execute" [] value = 4 -> "Halt" [] OTHER -> ""

showVectorState(value) ==
  CASE value = 0 -> "Sync0" [] value = 1 -> "Vector0" [] value = 2 -> "Vector1"
    [] value = 3 -> "Vector2" [] value = 4 -> "Vector3" [] OTHER -> ""

\* Broken variant: the list of a core without interrupts.
showIRState_NoIRQ(value) ==
  IF value <= 26 THEN InstructionState[value + 1]
  ELSE CASE value = 27 -> "PreFetch" [] value = 28 -> "IRUnknown" [] OTHER -> ""

showIRState(value) ==
  LET labels == <<
    "STStore", "STMemAcc", "STMemWrt", "STMemRrd", "ITLoad", "ITLDMemAcc", "ITLDMemMdr",
    "ITLDMemCmpl", "RType", "RTCmpl", "BType", "BTBranch", "BTCmpl", "ITALU", "ITALUCmpl",
    "JTJal", "JTJalRtr", "ITJalr", "ITJalrRtr", "UType", "UTCmpl", "UTypeAui", "UTAuiCmpl",
    "ITEbreak", "ITECall", "ITCSR", "ITCSRLd", "IRQ0", "IRQ1", "IRQ2", "ITMret", "ITMretClr",
    "PreFetch", "IRUnknown">>
  IN IF value + 1 \in DOMAIN labels THEN labels[value + 1] ELSE ""

showALUOp(value) ==
  CASE value = 0 -> "Add" [] value = 2 -> "Sub" [] value = 8 -> "Sll" [] value = 16 -> "Slt"
    [] value = 24 -> "Sltu" [] value = 32 -> "Xor" [] value = 40 -> "Srl" [] value = 42 -> "Sra"
    [] value = 48 -> "Or" [] value = 56 -> "And" [] OTHER -> ""

\* The letters printed, of V, N, C and Z.
showALUFlags(value) ==
  << {}, {"Z"}, {"C"}, {"C", "Z"}, {"N"}, {"N", "Z"}, {"N", "C"}, {"N", "C", "Z"},
     {"V"}, {"V", "Z"}, {"V", "C"}, {"V", "C", "Z"}, {"V", "N"}, {"V", "N", "Z"},
     {"V", "N", "C"}, {"V", "N", "C", "Z"} >>[value + 1]
-----------------------------------------------------------------------------
\* show(): the rows it writes, as the model is now.
Rows == [
  simRunning |-> simRunning, delayTime |-> timeStepDelayms, stepSize |-> stepSize,
  reset |-> reset_i, state |-> showCPUState(Code(MatrixState, state)),
  pc |-> byte_to_word_addr(pc), pc_prior |-> byte_to_word_addr(pc_prior),
  breakAt |-> byte_to_word_addr(breakAddr), irqTrigPt |-> irqTriggerPoint,
  irqDuration |-> irqDuration, irqEnabled |-> irqEnabled, irqTriggered |-> irqTriggered,
  brkEnabled |-> breakEnabled, freeRun |-> freeRun, stepping |-> steppingEnabled,
  reg |-> bank[selectedReg]]

\* The clock's row, with the clock as the last update() left it: an edge, or the
\* level the last edge shown has led to; shown again after it, the level alone.
showClockEdge(p_clk, clk, again) ==
  /\ p_clkState' = IF p_clk # clk THEN p_clk ELSE p_clkState
  /\ looped' = (looped /\ p_clk = clk)
  /\ clockRow' = IF p_clk # clk /\ ~again THEN IF clk = 1 THEN "rise" ELSE "fall"
                 ELSE IF p_clkState' = 0 THEN "high" ELSE "low"

Put(ms, row, mark) == {m \in ms : m[1] # row} \cup {<<row, mark>>}
Row(wa, from) == wa - from + rowOffset
InWindow(wa, from) == wa >= from /\ wa < MemLen /\ wa < from + MemRows

\* showPCMarker and showPCPriorMarker, over the markers left; the second may
\* cover the first.  pcp is the row held for that one if it is not drawn.
showMarkers(left, from, wa, prior, pcp) ==
  LET one == IF InWindow(wa, from) THEN Put(left, Row(wa, from), "PC>") ELSE left
  IN /\ marks' = IF InWindow(prior, from) THEN Put(one, Row(prior, from), "PCP>") ELSE one
     /\ p_pcMarker' = IF InWindow(wa, from) THEN Row(wa, from) ELSE p_pcMarker
     /\ p_pcpMarker' = IF InWindow(prior, from) THEN Row(prior, from) ELSE pcp

MarkersOver(left, pcp) ==
  showMarkers(left, fromAddr', byte_to_word_addr(pc'), byte_to_word_addr(pc_prior'), pcp)

\* Broken variant: the old marker of PC_prior is not erased.
MarksLeft_PCOnly == {m \in marks : m[1] # p_pcMarker}

\* show() erases the last markers by their rows, the commands the whole column.
MarksLeft == {m \in marks : m[1] \notin {p_pcMarker, p_pcpMarker}}
clearPCMarkerCol == {m \in marks : m[1] \notin WindowRows}

\* show() while the clock is clk, after p_clk; again if it is called once more at
\* the end of the pass.
show(p_clk, clk, again) ==
  /\ shown' = Rows'
  /\ showClockEdge(p_clk, clk, again)
  /\ MarkersOver(MarksLeft, p_pcpMarker)
  /\ UNCHANGED window
showStill == show(clk_i', clk_i', FALSE)

\* One row, written by itself.
showRow(name, value) ==
  shown' = [shown EXCEPT ![name] = value] /\ UNCHANGED <<clockShown, window, markers>>

\* The memory window; a row past the end of memory keeps what it showed.
Shown(from, before) ==
  LET first == IF from < 0 THEN 0 ELSE IF from > MemLen THEN MemLen - 1 - MemRows ELSE from
  IN [row \in WindowRows |->
        IF first + row - rowOffset < MemLen THEN first + row - rowOffset ELSE before[row]]

\* The window moved, with its markers.
showWindow == window' = Shown(fromAddr', window) /\ MarkersOver(clearPCMarkerCol, p_pcpMarker)

ScreenInit ==
  /\ fromAddr = 0 /\ timeStepDelayms = 5 /\ irqTriggerPoint = 1202 /\ selectedReg = 0
  /\ bank = [r \in {0, 3} |-> 0]
  /\ shown = Rows /\ clockRow = "low" /\ p_clkState = 1 /\ looped = FALSE
  /\ window = [row \in WindowRows |-> row - rowOffset]
  /\ marks = {<<rowOffset, "PCP>">>} /\ p_pcMarker = rowOffset /\ p_pcpMarker = rowOffset
-----------------------------------------------------------------------------
\* After every pass the rows a reader steers by show what is: no command and no
\* end of a run leaves one behind.  (Not so: the trigger of an interrupt pressed
\* while nothing runs, and the rows listed in the README.)
ScreenCurrent ==
  at = "input" =>
    /\ \A name \in {"simRunning", "stepSize", "reset", "state", "irqEnabled", "irqDuration",
                    "brkEnabled", "freeRun", "stepping", "delayTime", "irqTrigPt"} :
         shown[name] = Rows[name]
    /\ simRunning => shown.irqTriggered = irqTriggered
    /\ ~looped => (clockRow \in {"rise", "high"} <=> clk_i = 1)

\* Each marker stands by the word it is about, and a PC whose word the window
\* shows has one, as long as the window starts within the memory.
MarkersPoint ==
  at = "input" =>
    /\ fromAddr \in 0 .. MemLen =>
         \A m \in marks :
           window[m[1]] = byte_to_word_addr(IF m[2] = "PC>" THEN pc ELSE pc_prior)
    /\ fromAddr \in 0 .. MemLen - MemRows /\ (\E row \in WindowRows : window[row] = byte_to_word_addr(pc)) =>
         \E m \in marks : window[m[1]] = byte_to_word_addr(pc)

\* While the console waits, its screen names the core's state as the core does,
\* and would name every other state, operation and set of flags so: the lists
\* agree with the core's enumerations and with the order of the ALU's flags.
LabelsMatch ==
  at = "input" =>
    /\ shown.state = state
    /\ \A s \in ToSet(ResetState) : showVectorState(Code(ResetState, s)) = s
    /\ \A s \in ToSet(InstructionState) : showIRState(Code(InstructionState, s)) = s
    /\ \A op \in DOMAIN ALU_Ops : showALUOp(ALU_Ops[op]) = op
    /\ \A f \in SUBSET {"V", "N", "C", "Z"} :
         LET bit(letter, weight) == IF letter \in f THEN weight ELSE 0
         IN showALUFlags(bit("V", 8) + bit("N", 4) + bit("C", 2) + bit("Z", 1)) = f
=============================================================================
