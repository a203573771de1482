--------------------------- MODULE InterruptFlow ---------------------------
(***************************************************************************)
(* What the interrupt logic of ControlMatrix promises to software and to   *)
(* the device on the interrupt pin.  Four history variables record what    *)
(* the properties speak of; they never constrain the control unit.         *)
(***************************************************************************)
EXTENDS ControlMatrix

VARIABLES
  owed,    \* the pin fell and neither a handler nor a reset answered it yet
  heard,   \* since the last handler was entered, or the last reset began, the
           \* pin fell or software set mip.MEIP
  armed,   \* software wrote mie since the last reset
  resume   \* where the interrupted program must continue

history  == <<owed, heard, armed, resume>>
flowVars == <<vars, history>>

\* The clock edge at hand makes software's write to the named CSR.
SoftwareWrites(csr) ==
  /\ state = "Execute" /\ ir.funct12 = csr
  /\ \/ ir_state = "ITCSRLd"
     \/ ir_state = "ITCSR" /\ ir.funct3 = CSRRW /\ ir.rd = X0

FlowInit ==
  /\ Init
  /\ owed = FALSE /\ heard = FALSE /\ armed = FALSE
  /\ resume = mepc

\* What the histories record of a clock. An edge that the latch still holds when
\* a reset begins survives it as a pending bit, and is therefore still heard.
Watched ==
  /\ owed' = (owed /\ state # "IRQ1" /\ ~Resetting("Vector2"))
  /\ heard' = IF Resetting("Vector0") THEN irq_triggered
              ELSE state # "IRQ1" /\ (heard \/ (SoftwareWrites("Mip") /\ MEI \in mip'))
  /\ armed' = (~Resetting("Vector0") /\ (armed \/ SoftwareWrites("Mie")))
  /\ resume' = IF state = "PreFetch" /\ InterruptTaken /\ ~interrupt_in_progress
               THEN pc
               ELSE IF SoftwareWrites("Mepc") THEN mepc' ELSE resume

FlowClock == Clock /\ Watched

FlowIrqFalls == IrqFalls /\ owed' = TRUE /\ heard' = TRUE /\ UNCHANGED <<armed, resume>>

FlowResetPin == ResetPin /\ UNCHANGED history

FlowNext == FlowClock \/ FlowIrqFalls \/ FlowResetPin

FlowSpec == FlowInit /\ [][FlowNext]_flowVars

FairFlowSpec == FlowSpec /\ WF_flowVars(FlowClock)
-----------------------------------------------------------------------------
InReset == state = "Reset" /\ vector_state # "Vector3"

FlowTypeOK ==
  /\ TypeOK
  /\ {owed, heard, armed} \subseteq BOOLEAN
  /\ resume \in Word

\* No edge is lost: from the moment the pin falls until the handler's address
\* is loaded, the edge is in the latch, or (once IRQ0 has cleared the latch)
\* the core is already on its way into the handler.  Software that writes mip,
\* or a handler that is running, cannot make the core forget it.
EdgeKept == owed => irq_triggered \/ state = "IRQ1" \/ InReset

\* No handler runs twice for one edge, nor for none: each entry has an edge, or
\* a software write of mip.MEIP, of its own.
NoSpuriousInterrupt == state \in {"IRQ0", "IRQ1"} => heard

\* Inside a handler mepc is the address the interrupted program continues at
\* (or what the handler itself wrote there): a second edge, or an edge that
\* falls while the handler is entered or left, never overwrites it.
ReturnAddressHeld ==
  interrupt_in_progress /\ state \notin {"Reset", "IRQ0"} => mepc = resume

\* Whatever the pin did before or during a reset, and whatever the CSRs held at
\* power up, no handler is entered before software has written mie.
MaskedAfterReset == state \in {"IRQ0", "IRQ1", "IRQ2"} => armed

\* However often the reset sequence is broken off and begun again, the core
\* leaves it able to take an interrupt: none in progress, the latch released.
ResetReleasesInterrupts ==
  Resetting("Vector3") => ~interrupt_in_progress /\ ~irq_reset_trigger /\ mie = {}
-----------------------------------------------------------------------------
Enabled == reset_i /\ MIE \in mstatus /\ MEI \in mie

\* An edge is answered.  If software leaves the interrupt enabled and the core
\* keeps coming back to PreFetch outside a handler, the handler is entered.
InterruptServed ==
  <>[]Enabled /\ []<>(state = "PreFetch" /\ ~interrupt_in_progress)
    => (owed ~> ~owed)

\* The core never hangs by itself: out of reset it reaches the end of the
\* instruction, or stops at ebreak or ecall as the program told it to.
InstructionRetires ==
  state \in {"Fetch", "Execute", "IRQ0"} ~>
    state \in {"PreFetch", "Reset", "Halt"} \/ ir_state = "ITECall"

\* A reset that is released for good starts the program.
ResetCompletes == <>[]reset_i => (state = "Reset" ~> state = "PreFetch")
=============================================================================
