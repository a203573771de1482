------------------------- MODULE ControlMatrixCSRs -------------------------
(***************************************************************************)
(* The interrupt logic of the simulated core, the one the console and      *)
(* simulation/ranger_risc build (modules/ControlMatrixCSRs.sv).  It        *)
(* differs from the synthesised ControlMatrix in what it guards:           *)
(*   - entry moves mstatus.MIE to MPIE and mret moves it back;             *)
(*   - a latched edge reaches mip.MEIP only outside a handler, and mret    *)
(*     clears mip.MEIP;                                                    *)
(*   - reset clears interrupt_in_progress and nothing else.                *)
(*                                                                         *)
(* One variable, state, stands for the three of the code: a ResetState in  *)
(* Reset, an InstructionState in Execute.  "Execute" itself stands for the *)
(* InstructionStates of all instructions that touch neither a CSR nor the  *)
(* interrupt, whose cycles ControlMatrix tells apart.  Words are the sets  *)
(* of their bits that are 1; the datapath is left out.                     *)
(***************************************************************************)
EXTENDS Integers

CONSTANTS
  Bits,   \* bit positions of a CSR
  MIE,    \* mstatus.MIE, bit 3
  MPIE,   \* mstatus.MPIE, bit 7
  MEI     \* mie.MEIE and mip.MEIP, bit 11

Word == SUBSET Bits

ASSUME BitsAssumption == {MIE, MPIE, MEI} \subseteq Bits /\ MIE # MPIE

VARIABLES
  state,
  mstatus, mie, mip,
  interrupt_in_progress,
  irq_triggered,
  irq_reset_trigger,
  reset_i,
  \* history:
  owed,    \* the pin fell, and neither a handler nor a reset answered it yet
  tapped,  \* the last thing that could make the interrupt pending is an edge
           \* that fell while the service routine ran
  wrote,   \* software wrote mstatus since the last handler was entered
  causes   \* what can have made the interrupt pending since the last handler was
           \* entered: an edge, a reset, or software, whose request mret withdraws

core     == <<mstatus, mie, mip>>
irqs     == <<interrupt_in_progress, irq_triggered, irq_reset_trigger>>
history  == <<owed, tapped, wrote, causes>>
vars     == <<state, core, irqs, reset_i, history>>

ResetStates == {"Sync0", "Vector0", "Vector1", "Vector2", "Vector3"}
States == ResetStates \cup
  {"Fetch", "Decode", "Execute", "ITECall", "ITEbreak", "ITCSR", "ITCSRLd",
   "ITMret", "ITMretClr", "PreFetch", "IRQ0", "IRQ1", "IRQ2"}

\* The types of the registers and of the history.
TypeOK ==
  /\ state \in States
  /\ {mstatus, mie, mip} \subseteq Word
  /\ {interrupt_in_progress, irq_triggered, irq_reset_trigger} \subseteq BOOLEAN
  /\ {reset_i, owed, tapped, wrote} \subseteq BOOLEAN
  /\ causes \subseteq {"edge", "software", "reset"}

\* The initial block clears mstatus and mie; mip holds anything.
Init ==
  /\ state = "Sync0"
  /\ mstatus = {} /\ mie = {} /\ mip \in Word
  /\ interrupt_in_progress = FALSE
  /\ irq_triggered = FALSE /\ irq_reset_trigger = FALSE
  /\ reset_i \in BOOLEAN
  /\ owed = FALSE /\ tapped = FALSE /\ wrote = FALSE /\ causes = {"reset"}
-----------------------------------------------------------------------------
\* Broken variant: a reset is not looked at between two states.
Sequence_NoReset(next_state) == state' = next_state

\* The closing edge: reset_i wins over the next state.
Sequence(next_state) == state' = IF reset_i THEN next_state ELSE "Sync0"

\* The last assignment of the clocked block.  Outside a handler a latched edge
\* overrides any other write of mip.MEIP.
LatchMip(value) ==
  mip' = IF irq_triggered /\ ~interrupt_in_progress THEN value \cup {MEI} ELSE value

ResetTrigger(level) ==
  /\ irq_reset_trigger' = level
  /\ irq_triggered' = (irq_triggered /\ (level => irq_reset_trigger))

\* An edge of the clock that leaves the CSRs and the interrupt logic alone.
Quiet == LatchMip(mip) /\ UNCHANGED <<mstatus, mie, irqs>>

ClockReset ==
  /\ state \in ResetStates
  /\ Sequence(CASE state = "Sync0"   -> "Vector0"
                [] state = "Vector0" -> "Vector1"
                [] state = "Vector1" -> "Vector2"
                [] state = "Vector2" -> "Vector3"
                [] state = "Vector3" -> "Fetch")
  /\ interrupt_in_progress' = FALSE
  /\ LatchMip(mip)
  /\ owed' = FALSE /\ tapped' = FALSE /\ causes' = {"reset"}
  /\ UNCHANGED <<mstatus, mie, irq_triggered, irq_reset_trigger, wrote>>

Fetch == state = "Fetch" /\ Sequence("Decode") /\ Quiet /\ UNCHANGED history

Decode ==
  /\ state = "Decode"
  /\ \E first \in {"Execute", "ITECall", "ITEbreak", "ITCSR", "ITMret"} : Sequence(first)
  /\ Quiet /\ UNCHANGED history

\* One cycle of an instruction of no interest, the last one or not.
Execute ==
  /\ state = "Execute"
  /\ \E next_state \in {"Execute", "PreFetch"} : Sequence(next_state)
  /\ Quiet /\ UNCHANGED history

\* ecall and ebreak never retire.
Stop == state \in {"ITECall", "ITEbreak"} /\ Sequence(state) /\ Quiet /\ UNCHANGED history

\* Broken variant: an illegal CSR form waits in a state nothing leads out of.
ITCSRRead_Illegal ==
  /\ state = "ITCSR"
  /\ \E next_state \in {"PreFetch", "ITCSRLd", "Illegal"} : Sequence(next_state)
  /\ Quiet /\ UNCHANGED history

\* A CSR instruction that does not write in this cycle: it retires without
\* effect, goes on to ITCSRLd, or (funct3 = 100) skips PreFetch.
ITCSRRead ==
  /\ state = "ITCSR"
  /\ \E next_state \in {"PreFetch", "ITCSRLd", "Fetch"} : Sequence(next_state)
  /\ Quiet /\ UNCHANGED history

\* The write, in ITCSR if rd = x0 and in ITCSRLd otherwise; any value.
WriteCSR(csr_addr, csr_data) ==
  /\ state \in {"ITCSR", "ITCSRLd"}
  /\ Sequence("PreFetch")
  /\ mstatus' = (IF csr_addr = "Mstatus" THEN csr_data ELSE mstatus)
  /\ mie'     = (IF csr_addr = "Mie"     THEN csr_data ELSE mie)
  /\ LatchMip(IF csr_addr = "Mip" THEN csr_data ELSE mip)
  /\ wrote' = (wrote \/ csr_addr = "Mstatus")
  /\ tapped' = (tapped /\ csr_addr # "Mip")
  /\ causes' = IF csr_addr # "Mip" THEN causes
               ELSE IF MEI \in csr_data THEN causes \cup {"software"} ELSE causes \ {"software"}
  /\ UNCHANGED <<irqs, owed>>

\* The return address goes to the PC.
ITMret == state = "ITMret" /\ Sequence("ITMretClr") /\ Quiet /\ UNCHANGED history

\* Broken variant: the saved enable is dropped with the pending bit.
ITMretClr_NoRestore ==
  /\ state = "ITMretClr"
  /\ Sequence("PreFetch")
  /\ interrupt_in_progress' = FALSE
  /\ LatchMip(mip \ {MEI})
  /\ causes' = causes \ {"software"}
  /\ UNCHANGED <<mstatus, mie, irq_triggered, irq_reset_trigger, owed, tapped, wrote>>

\* Broken variant: mip is left to the next handler.
ITMretClr_KeepsPending ==
  /\ state = "ITMretClr"
  /\ Sequence("PreFetch")
  /\ mstatus' = (mstatus \ {MIE, MPIE}) \cup (IF MPIE \in mstatus THEN {MIE} ELSE {})
  /\ interrupt_in_progress' = FALSE
  /\ LatchMip(mip)
  /\ causes' = causes \ {"software"}
  /\ UNCHANGED <<mie, irq_triggered, irq_reset_trigger, owed, tapped, wrote>>

\* Broken variant: mret clears the latch together with the pending bit.
ITMretClr_ClearsLatch ==
  /\ state = "ITMretClr"
  /\ Sequence("PreFetch")
  /\ mstatus' = (mstatus \ {MIE, MPIE}) \cup (IF MPIE \in mstatus THEN {MIE} ELSE {})
  /\ interrupt_in_progress' = FALSE
  /\ irq_triggered' = FALSE
  /\ mip' = mip \ {MEI}
  /\ causes' = causes \ {"software"}
  /\ UNCHANGED <<mie, irq_reset_trigger, owed, tapped, wrote>>

ITMretClr ==
  /\ state = "ITMretClr"
  /\ Sequence("PreFetch")
  /\ mstatus' = (mstatus \ {MIE, MPIE}) \cup (IF MPIE \in mstatus THEN {MIE} ELSE {})
  /\ interrupt_in_progress' = FALSE
  /\ LatchMip(mip \ {MEI})
  /\ causes' = causes \ {"software"}
  /\ UNCHANGED <<mie, irq_triggered, irq_reset_trigger, owed, tapped, wrote>>

irq_pending == MIE \in mstatus /\ MEI \in mie /\ MEI \in mip

InterruptTaken == irq_pending /\ ~interrupt_in_progress

PreFetchRead ==
  /\ state = "PreFetch"
  /\ ~InterruptTaken
  /\ Sequence("Fetch") /\ Quiet /\ UNCHANGED history

PreFetchInterrupt ==
  /\ state = "PreFetch"
  /\ InterruptTaken
  /\ Sequence("IRQ0")
  /\ mstatus' = (mstatus \cup {MPIE}) \ {MIE}
  /\ interrupt_in_progress' = TRUE
  /\ LatchMip(mip)
  /\ wrote' = FALSE
  /\ UNCHANGED <<mie, irq_triggered, irq_reset_trigger, owed, tapped, causes>>

IRQ0 ==
  /\ state = "IRQ0"
  /\ Sequence("IRQ1")
  /\ ResetTrigger(TRUE)
  /\ LatchMip(mip)
  /\ UNCHANGED <<mstatus, mie, interrupt_in_progress, history>>

IRQ1 ==
  /\ state = "IRQ1"
  /\ Sequence("IRQ2")
  /\ ResetTrigger(FALSE)
  /\ LatchMip(mip)
  /\ owed' = FALSE /\ tapped' = FALSE /\ causes' = {}
  /\ UNCHANGED <<mstatus, mie, interrupt_in_progress, wrote>>

IRQ2 == state = "IRQ2" /\ Sequence("Fetch") /\ Quiet /\ UNCHANGED history
-----------------------------------------------------------------------------
IrqFalls ==
  /\ irq_triggered' = ~irq_reset_trigger
  /\ owed' = TRUE /\ causes' = causes \cup {"edge"}
  /\ tapped' = (interrupt_in_progress /\ state \notin {"IRQ0", "IRQ1", "IRQ2", "ITMret", "ITMretClr"})
  /\ UNCHANGED <<state, core, interrupt_in_progress, irq_reset_trigger, reset_i, wrote>>

ResetPin == reset_i' = ~reset_i /\ UNCHANGED <<state, core, irqs, history>>

Clock ==
  /\ \/ ClockReset \/ Fetch \/ Decode \/ Execute \/ Stop
     \/ ITCSRRead
     \/ \E csr_addr \in {"Mstatus", "Mie", "Mip", "other"}, csr_data \in Word :
          WriteCSR(csr_addr, csr_data)
     \/ ITMret \/ ITMretClr
     \/ PreFetchRead \/ PreFetchInterrupt \/ IRQ0 \/ IRQ1 \/ IRQ2
  /\ UNCHANGED reset_i

Next == Clock \/ IrqFalls \/ ResetPin

Spec == Init /\ [][Next]_vars
-----------------------------------------------------------------------------
\* A handler that leaves mstatus alone gives the interrupted program its
\* interrupts back: mret restores the enable that the entry took away.
EnableRestored ==
  [][ITMretClr /\ interrupt_in_progress /\ ~wrote => MIE \in mstatus']_vars

\* An interrupt is serviced once: from a handler's entry, across its mret and
\* whatever follows, no handler is entered again unless the pin fell, software set
\* mip.MEIP or the core was reset meanwhile.  (A reset leaves mip and the latch as
\* they are, so it may be followed by an entry for an interrupt of before.)
EntryHasCause == state = "IRQ0" => causes # {}

\* An edge is in the latch until its handler is entered, except for one that
\* meets the latch still held by an entry that a reset broke off.
EdgeKept ==
  owed /\ state \notin ResetStates \cup {"IRQ1"} => irq_triggered \/ irq_reset_trigger

\* What the console relies on when it runs the core to a state and no further:
\* seen as a MatrixState the core goes the cycle of CoreCycle, through every
\* instruction, entry of a handler and reset.
Cycle == INSTANCE CoreCycle

matrix_state ==
  IF state \in ResetStates THEN "Reset" ELSE IF state \in {"Fetch", "Decode"} THEN state ELSE "Execute"

CycleKept == [][matrix_state' \in Cycle!Edge(matrix_state, reset_i)]_state

\* README.md: "if you tap Home while it is in the service routine nothing
\* happens".  No handler would then be entered for such an edge alone.
NoEdgeDuringService == state = "IRQ0" => ~tapped
=============================================================================
