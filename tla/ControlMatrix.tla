--------------------------- MODULE ControlMatrix ---------------------------
(***************************************************************************)
(* The control unit of the synthesised core, its five CSRs and its edge    *)
(* triggered interrupt (Synthesis/ranger_risc/csrs/ControlMatrix.sv).      *)
(*                                                                         *)
(* One Clock step is one period of clk_i: the control lines decoded from   *)
(* the current state, the datapath registers they load in the middle of    *)
(* the period, and the non-blocking assignments of the closing edge.  The  *)
(* interrupt pin is asynchronous: IrqFalls may come between any two edges. *)
(*                                                                         *)
(* The datapath is left open: whatever it may compute is a choice from     *)
(* Addr (a word for the PC), Data (a word in RsA) or Program (an           *)
(* instruction).  A word is the set of its bits that are 1.                *)
(***************************************************************************)
EXTENDS Words

CONSTANTS
  MIE,          \* mstatus.MIE, bit 3
  MEI,          \* mie.MEIE and mip.MEIP, bit 11
  ImmBits,      \* bits of a register number and of a CSR immediate (4..0)
  AlignBits,    \* the bits mret clears in the return address (1..0)
  Addr,         \* words the ALU or the memory can present to the PC
  Data,         \* words that RsA can hold
  PowerUp,      \* words that a register can hold at power up
  ResetVector,  \* the RESET_VECTOR parameter of the build
  Program       \* instructions the memory can deliver

RegId == SUBSET ImmBits
X0    == {}

ASSUME WordAssumption ==
  /\ {MIE, MEI} \cup ImmBits \cup AlignBits \subseteq Bits
  /\ Addr \cup Data \cup PowerUp \cup {ResetVector} \subseteq Word

ASSUME ProgramAssumption ==
  \A i \in Program : i.funct3 \in 0..7 /\ i.rd \in RegId /\ i.rs1 \in RegId

\* funct3 of the Zicsr instructions, and the size field of a word access.
CSRRW  == 1
CSRRS  == 2
CSRRC  == 3
CSRRWI == 5
CSRRSI == 6
CSRRCI == 7
WORD_SIZE == 2

VARIABLES
  state,          \* MatrixState
  vector_state,   \* ResetState
  ir_state,       \* InstructionState
  mstatus, mie, mip, mepc, mtvec,
  interrupt_in_progress,
  irq_triggered,      \* the edge latch, in the clock domain of the pin
  irq_reset_trigger,  \* clears the latch
  reset_i,        \* the reset pin, FALSE is active
  pc,             \* the PC register
  ir,             \* the IR register
  fresh           \* the memory port holds the word at PC, not the one in IR

csrs == <<mstatus, mie, mip, mepc, mtvec>>
irqs == <<interrupt_in_progress, irq_triggered, irq_reset_trigger>>
vars == <<state, vector_state, ir_state, csrs, irqs, reset_i, pc, ir, fresh>>

MatrixState == {"Reset", "Fetch", "Decode", "Execute", "PreFetch",
                "IRQ0", "IRQ1", "IRQ2", "Halt"}
ResetState  == {"Sync0", "Vector0", "Vector1", "Vector2", "Vector3"}
InstructionState ==
  {"STStore", "STMemAcc", "STMemWrt", "ITLoad", "ITLDMemAcc", "ITLDMemMdr",
   "ITLDMemCmpl", "RType", "RTCmpl", "BType", "BTBranch", "ITALU", "ITALUCmpl",
   "JTJal", "JTJalRtr", "ITJalr", "ITJalrRtr", "UType", "UTypeAui", "ITEbreak",
   "ITECall", "ITCSR", "ITCSRLd", "ITMret", "ITMretClr"}

\* The types of the registers.
TypeOK ==
  /\ state \in MatrixState
  /\ vector_state \in ResetState
  /\ ir_state \in InstructionState
  /\ {mstatus, mie, mip, mepc, mtvec, pc} \subseteq Word
  /\ {interrupt_in_progress, irq_triggered, irq_reset_trigger} \subseteq BOOLEAN
  /\ {reset_i, fresh} \subseteq BOOLEAN
  /\ ir \in Program

\* Power up.  The declarations initialise the state and the interrupt flags;
\* the CSRs, PC and IR hold whatever the fabric left in them.
Init ==
  /\ state = "Reset" /\ vector_state = "Sync0" /\ ir_state = "ITLoad"
  /\ interrupt_in_progress = FALSE
  /\ irq_triggered = FALSE /\ irq_reset_trigger = FALSE
  /\ mstatus \in PowerUp /\ mie \in PowerUp /\ mip \in PowerUp
  /\ mepc \in PowerUp /\ mtvec \in PowerUp
  /\ reset_i \in BOOLEAN
  /\ pc \in PowerUp /\ ir \in Program
  /\ fresh = FALSE
-----------------------------------------------------------------------------
(***************************************************************************)
(* The closing clock edge.                                                 *)
(***************************************************************************)

\* state and ir_state of a core that is out of reset.
Sequence(next_state, next_ir_state) ==
  IF reset_i
  THEN state' = next_state /\ ir_state' = next_ir_state /\ UNCHANGED vector_state
  ELSE state' = "Reset" /\ vector_state' = "Sync0" /\ UNCHANGED ir_state

\* The vector sequence; resetComplete is low, so ir_state stays.
VectorSequence(next_vector_state) ==
  /\ state' = "Reset"
  /\ vector_state' = (IF reset_i THEN next_vector_state ELSE "Sync0")
  /\ UNCHANGED ir_state

\* The last assignment of the clocked block: a latched edge overrides any
\* other write of mip.MEIP made by the same edge.
LatchMip(value) ==
  mip' = IF irq_triggered THEN value \cup {MEI} ELSE value

\* The block that is sensitive to the rising edge of irq_reset_trigger.
ResetTrigger(level) ==
  /\ irq_reset_trigger' = level
  /\ irq_triggered' = (irq_triggered /\ (level => irq_reset_trigger))

Quiet ==
  /\ LatchMip(mip)
  /\ UNCHANGED <<mstatus, mie, mepc, mtvec, irqs>>

WriteCSR(csr_addr, csr_data) ==
  /\ mstatus' = (IF csr_addr = "Mstatus" THEN csr_data ELSE mstatus)
  /\ mie'     = (IF csr_addr = "Mie"     THEN csr_data ELSE mie)
  /\ mtvec'   = (IF csr_addr = "Mtvec"   THEN csr_data ELSE mtvec)
  /\ mepc'    = (IF csr_addr = "Mepc"    THEN csr_data ELSE mepc)
  /\ LatchMip(IF csr_addr = "Mip" THEN csr_data ELSE mip)

\* The value an instruction reads from its CSR; unknown numbers read as zero.
ReadCSR(csr_addr) ==
  CASE csr_addr = "Mstatus" -> mstatus
    [] csr_addr = "Mie"     -> mie
    [] csr_addr = "Mtvec"   -> mtvec
    [] csr_addr = "Mepc"    -> mepc
    [] csr_addr = "Mip"     -> mip
    [] OTHER                -> {}
-----------------------------------------------------------------------------
(***************************************************************************)
(* Reset: four cycles fetch the start address through the reset vector and *)
(* put the interrupt logic in a known state.                               *)
(***************************************************************************)

Resetting(step) == state = "Reset" /\ vector_state = step

Sync0 ==
  /\ Resetting("Sync0")
  /\ VectorSequence("Vector0")
  /\ Quiet
  /\ UNCHANGED <<pc, ir, fresh>>

\* Broken variant: the reset leaves the enables as they were.
Vector0_KeepsMie ==
  /\ Resetting("Vector0")
  /\ VectorSequence("Vector1")
  /\ pc' = ResetVector
  /\ ResetTrigger(FALSE)
  /\ interrupt_in_progress' = FALSE
  /\ LatchMip(mip \ {MEI})
  /\ UNCHANGED <<mstatus, mie, mepc, mtvec, ir, fresh>>

Vector0 ==
  /\ Resetting("Vector0")
  /\ VectorSequence("Vector1")
  /\ pc' = ResetVector
  /\ ResetTrigger(FALSE)
  /\ interrupt_in_progress' = FALSE
  /\ mie' = {}
  /\ LatchMip(mip \ {MEI})
  /\ UNCHANGED <<mstatus, mepc, mtvec, ir, fresh>>

Vector1 ==
  /\ Resetting("Vector1")
  /\ VectorSequence("Vector2")
  /\ ResetTrigger(TRUE)
  /\ LatchMip(mip)
  /\ UNCHANGED <<mstatus, mie, mepc, mtvec, interrupt_in_progress, pc, ir, fresh>>

\* Broken variant: the latch is not released again.
Vector2_HoldsTrigger ==
  /\ Resetting("Vector2")
  /\ VectorSequence("Vector3")
  /\ pc' \in Addr
  /\ Quiet
  /\ UNCHANGED <<ir, fresh>>

Vector2 ==
  /\ Resetting("Vector2")
  /\ VectorSequence("Vector3")
  /\ pc' \in Addr                       \* the reset vector's content
  /\ ResetTrigger(FALSE)
  /\ LatchMip(mip)
  /\ UNCHANGED <<mstatus, mie, mepc, mtvec, interrupt_in_progress, ir, fresh>>

\* Broken variant: resetComplete stays low.
Vector3_NotComplete ==
  /\ Resetting("Vector3")
  /\ VectorSequence("Sync0")
  /\ Quiet
  /\ fresh' = TRUE
  /\ UNCHANGED <<pc, ir>>

\* resetComplete is high in this one cycle only.
Vector3 ==
  /\ Resetting("Vector3")
  /\ Sequence("PreFetch", "ITLoad")
  /\ Quiet
  /\ fresh' = TRUE
  /\ UNCHANGED <<pc, ir>>
-----------------------------------------------------------------------------
(***************************************************************************)
(* Fetch and decode.                                                       *)
(***************************************************************************)

\* mem_busy_i is tied low.  The IR takes what the memory port last read: a
\* Fetch that no read precedes loads the same instruction again.
Fetch ==
  /\ state = "Fetch"
  /\ Sequence("Decode", "ITLoad")
  /\ ir' \in (IF fresh THEN Program ELSE {ir})
  /\ fresh' = FALSE
  /\ Quiet
  /\ UNCHANGED pc

is_csr_instr == ir.opcode = "ITYPE_E" /\ ir.funct3 # 0

\* Broken variant: an opcode the decoder does not know gets a state of its own.
Decoded_Unknown ==
  IF ir.opcode = "RTYPE" THEN "RType"
  ELSE IF is_csr_instr THEN "ITCSR" ELSE "IRUnknown"

\* The first InstructionState of the instruction in IR.  Whatever the decoder
\* does not know is executed as a load.
Decoded ==
  CASE ir.opcode = "RTYPE"   -> "RType"
    [] ir.opcode = "ITYPE"   -> "ITALU"
    [] ir.opcode = "ITYPE_J" -> "ITJalr"
    [] ir.opcode = "STYPE"   -> "STStore"
    [] ir.opcode = "BTYPE"   -> "BType"
    [] ir.opcode = "JTYPE"   -> "JTJal"
    [] ir.opcode = "UTYPE_L" -> "UType"
    [] ir.opcode = "UTYPE_A" -> "UTypeAui"
    [] is_csr_instr          -> "ITCSR"
    [] ir.opcode = "ITYPE_E" /\ ~is_csr_instr /\ ir.funct12 = "ebreak" -> "ITEbreak"
    [] ir.opcode = "ITYPE_E" /\ ~is_csr_instr /\ ir.funct12 = "ecall"  -> "ITECall"
    [] ir.opcode = "ITYPE_E" /\ ~is_csr_instr /\ ir.funct12 = "mret"   -> "ITMret"
    [] OTHER -> "ITLoad"

Decode ==
  /\ state = "Decode"
  /\ Sequence("Execute", Decoded)
  /\ pc' \in Addr                       \* PC + 4
  /\ Quiet
  /\ UNCHANGED <<ir, fresh>>
-----------------------------------------------------------------------------
(***************************************************************************)
(* Execute: one action per InstructionState.                               *)
(***************************************************************************)

Executing(step)     == state = "Execute" /\ ir_state = step
Continue(next_step) == Sequence("Execute", next_step)
Retire              == Sequence("PreFetch", "ITLoad")

\* With x0 as destination the write-back cycle is skipped.
WriteBackIn(next_step) == IF ir.rd = X0 THEN Retire ELSE Continue(next_step)

\* A cycle that only moves data between registers the PC does not depend on.
Compute == Quiet /\ UNCHANGED <<pc, ir, fresh>>

\* A cycle that loads the PC with a word.
LoadPC(words) == pc' \in words /\ Quiet /\ UNCHANGED <<ir, fresh>>

RType       == Executing("RType")       /\ WriteBackIn("RTCmpl")    /\ Compute
RTCmpl      == Executing("RTCmpl")      /\ Retire                   /\ Compute
ITALU       == Executing("ITALU")       /\ WriteBackIn("ITALUCmpl") /\ Compute
ITALUCmpl   == Executing("ITALUCmpl")   /\ Retire                   /\ Compute
ITLoad      == Executing("ITLoad")      /\ Continue("ITLDMemAcc")   /\ Compute
ITLDMemAcc  == Executing("ITLDMemAcc")  /\ Continue("ITLDMemMdr")   /\ Compute
ITLDMemMdr  == Executing("ITLDMemMdr")  /\ Continue("ITLDMemCmpl")  /\ Compute
ITLDMemCmpl == Executing("ITLDMemCmpl") /\ Retire                   /\ Compute
STMemAcc    == Executing("STMemAcc")    /\ Continue("STMemWrt")     /\ Compute
STMemWrt    == Executing("STMemWrt")    /\ Retire                   /\ Compute
BType       == Executing("BType")       /\ Continue("BTBranch")     /\ Compute
UType       == Executing("UType")       /\ Retire                   /\ Compute
UTypeAui    == Executing("UTypeAui")    /\ Retire                   /\ Compute
ITJalr      == Executing("ITJalr")      /\ WriteBackIn("ITJalrRtr") /\ LoadPC(Addr)
ITJalrRtr   == Executing("ITJalrRtr")   /\ Retire                   /\ Compute
JTJal       == Executing("JTJal")       /\ WriteBackIn("JTJalRtr")  /\ LoadPC(Addr)
JTJalRtr    == Executing("JTJalRtr")    /\ Retire                   /\ Compute

\* A word store needs no read of the old word to merge with.
STStore ==
  /\ Executing("STStore")
  /\ Continue(IF ir.funct3 % 4 = WORD_SIZE THEN "STMemWrt" ELSE "STMemAcc")
  /\ Compute

\* The PC moves only if the flags say that the branch is taken.
BTBranch(taken) ==
  /\ Executing("BTBranch")
  /\ Retire
  /\ IF taken THEN LoadPC(Addr) ELSE Compute

ITEbreak == Executing("ITEbreak") /\ Sequence("Halt", "ITLoad")   /\ Compute
ITECall  == Executing("ITECall")  /\ Continue("ITECall")          /\ Compute
-----------------------------------------------------------------------------
(***************************************************************************)
(* CSR instructions.  rd takes the old value in ITCSR and the CSR its new  *)
(* value in ITCSRLd, one cycle later.                                      *)
(***************************************************************************)

\* What a CSR instruction writes, given RsA and the CSR as it is now.
AlgoData(rsa_i) ==
  LET immediate == ir.rs1
      csr       == ReadCSR(ir.funct12)
  IN CASE ir.funct3 = CSRRW  -> rsa_i
       [] ir.funct3 = CSRRS  -> rsa_i \cup csr
       [] ir.funct3 = CSRRC  -> csr \ rsa_i
       [] ir.funct3 = CSRRWI -> immediate
       [] ir.funct3 = CSRRSI -> immediate \cup csr
       [] ir.funct3 = CSRRCI -> csr \ immediate

\* csrrw with rd = x0 writes at once and retires.
ITCSRWrite(rsa_i) ==
  /\ Executing("ITCSR")
  /\ ir.funct3 = CSRRW /\ ir.rd = X0
  /\ Retire
  /\ WriteCSR(ir.funct12, rsa_i)
  /\ UNCHANGED <<irqs, pc, ir, fresh>>

\* Broken variant: the next instruction is fetched at once, without PreFetch.
ITCSRVoid_SkipsPreFetch ==
  /\ Executing("ITCSR")
  /\ ir.funct3 \in {CSRRS, CSRRC} /\ ir.rs1 = X0
  /\ Sequence("Fetch", "ITLoad")
  /\ Compute

\* csrrs and csrrc with rs1 = x0 retire with no effect at all: rd is not written.
ITCSRVoid ==
  /\ Executing("ITCSR")
  /\ ir.funct3 \in {CSRRS, CSRRC} /\ ir.rs1 = X0
  /\ Retire
  /\ Compute

\* The CSR instructions that write rd.
reads_csr ==
  \/ ir.funct3 = CSRRW /\ ir.rd # X0
  \/ ir.funct3 \in {CSRRS, CSRRC} /\ ir.rs1 # X0
  \/ ir.funct3 \in {CSRRWI, CSRRSI, CSRRCI}

\* Every other legal form reads first.
ITCSRRead ==
  /\ Executing("ITCSR")
  /\ reads_csr
  /\ Continue("ITCSRLd")
  /\ Compute

\* funct3 = 100 is no CSR instruction.  It goes back to Fetch without the
\* PreFetch that reads the next word and looks for an interrupt.
ITCSRIllegal ==
  /\ Executing("ITCSR")
  /\ ir.funct3 \notin {CSRRW, CSRRS, CSRRC, CSRRWI, CSRRSI, CSRRCI}
  /\ Sequence("Fetch", "ITLoad")
  /\ Compute

ITCSRLd(rsa_i) ==
  /\ Executing("ITCSRLd")
  /\ Retire
  /\ WriteCSR(ir.funct12, AlgoData(rsa_i))
  /\ UNCHANGED <<irqs, pc, ir, fresh>>

ITMret == Executing("ITMret") /\ Continue("ITMretClr") /\ LoadPC({mepc \ AlignBits})

\* Broken variant: an edge that fell during the handler is dropped.
ITMretClr_DropsEdge ==
  /\ Executing("ITMretClr")
  /\ Retire
  /\ interrupt_in_progress' = FALSE
  /\ irq_triggered' = FALSE
  /\ mip' = mip \ {MEI}
  /\ UNCHANGED <<mstatus, mie, mepc, mtvec, irq_reset_trigger, pc, ir, fresh>>

\* The end of the interrupt flow.
ITMretClr ==
  /\ Executing("ITMretClr")
  /\ Retire
  /\ interrupt_in_progress' = FALSE
  /\ LatchMip(mip)
  /\ UNCHANGED <<mstatus, mie, mepc, mtvec, irq_triggered, irq_reset_trigger,
                 pc, ir, fresh>>
-----------------------------------------------------------------------------
(***************************************************************************)
(* Between two instructions: an interrupt is taken or the next word read.  *)
(***************************************************************************)

irq_pending == MIE \in mstatus /\ MEI \in mie /\ MEI \in mip

\* Broken variant: a handler can be interrupted.
InterruptTaken_Nested == irq_pending

InterruptTaken == irq_pending /\ ~interrupt_in_progress

PreFetchRead ==
  /\ state = "PreFetch"
  /\ ~InterruptTaken
  /\ Sequence("Fetch", "ITLoad")
  /\ fresh' = TRUE
  /\ Quiet
  /\ UNCHANGED <<pc, ir>>

PreFetchInterrupt ==
  /\ state = "PreFetch"
  /\ InterruptTaken
  /\ Sequence("IRQ0", "ITLoad")
  /\ interrupt_in_progress' = TRUE
  /\ LatchMip(mip)
  /\ UNCHANGED <<mstatus, mie, mepc, mtvec, irq_triggered, irq_reset_trigger,
                 pc, ir, fresh>>

IRQ0 ==
  /\ state = "IRQ0"
  /\ Sequence("IRQ1", "ITLoad")
  /\ WriteCSR("Mepc", pc)
  /\ ResetTrigger(TRUE)
  /\ UNCHANGED <<interrupt_in_progress, pc, ir, fresh>>

\* Broken variant: the pending bit outlives the entry into the handler.
IRQ1_KeepsPending ==
  /\ state = "IRQ1"
  /\ Sequence("IRQ2", "ITLoad")
  /\ pc' = mtvec
  /\ ResetTrigger(FALSE)
  /\ LatchMip(mip)
  /\ UNCHANGED <<mstatus, mie, mepc, mtvec, interrupt_in_progress, ir, fresh>>

\* Broken variant: the latch is never released after the first interrupt.
IRQ1_HoldsTrigger ==
  /\ state = "IRQ1"
  /\ Sequence("IRQ2", "ITLoad")
  /\ pc' = mtvec
  /\ LatchMip(mip \ {MEI})
  /\ UNCHANGED <<mstatus, mie, mepc, mtvec, irqs, ir, fresh>>

IRQ1 ==
  /\ state = "IRQ1"
  /\ Sequence("IRQ2", "ITLoad")
  /\ pc' = mtvec
  /\ ResetTrigger(FALSE)
  /\ LatchMip(mip \ {MEI})
  /\ UNCHANGED <<mstatus, mie, mepc, mtvec, interrupt_in_progress, ir, fresh>>

IRQ2 ==
  /\ state = "IRQ2"
  /\ Sequence("Fetch", "ITLoad")
  /\ fresh' = TRUE
  /\ Quiet
  /\ UNCHANGED <<pc, ir>>

Halt == state = "Halt" /\ Sequence("Halt", "ITLoad") /\ Compute
-----------------------------------------------------------------------------
(***************************************************************************)
(* The pins, and the whole unit.                                           *)
(***************************************************************************)

\* A falling edge of irq_i; it is lost while the latch is held cleared.
IrqFalls ==
  /\ irq_triggered' = ~irq_reset_trigger
  /\ UNCHANGED <<state, vector_state, ir_state, csrs, interrupt_in_progress,
                 irq_reset_trigger, reset_i, pc, ir, fresh>>

\* The reset pin is asserted and released at any time.
ResetPin ==
  /\ reset_i' = ~reset_i
  /\ UNCHANGED <<state, vector_state, ir_state, csrs, irqs, pc, ir, fresh>>

ExecuteALU == RType \/ RTCmpl \/ ITALU \/ ITALUCmpl \/ UType \/ UTypeAui
ExecuteMemory ==
  \/ ITLoad \/ ITLDMemAcc \/ ITLDMemMdr \/ ITLDMemCmpl
  \/ STStore \/ STMemAcc \/ STMemWrt
ExecuteJump(decisions) ==
  \/ ITJalr \/ ITJalrRtr \/ JTJal \/ JTJalRtr \/ BType
  \/ \E taken \in decisions : BTBranch(taken)
ExecuteSystem(words) ==
  \/ ITEbreak \/ ITECall \/ ITMret \/ ITMretClr
  \/ ITCSRVoid \/ ITCSRRead \/ ITCSRIllegal
  \/ \E rsa_i \in words : ITCSRWrite(rsa_i) \/ ITCSRLd(rsa_i)

\* One period of the clock, given what RsA may hold and how a branch may go.
ClockOn(words, decisions) ==
  /\ \/ Sync0 \/ Vector0 \/ Vector1 \/ Vector2 \/ Vector3
     \/ Fetch \/ Decode
     \/ ExecuteALU \/ ExecuteMemory \/ ExecuteJump(decisions) \/ ExecuteSystem(words)
     \/ PreFetchRead \/ PreFetchInterrupt \/ IRQ0 \/ IRQ1 \/ IRQ2
     \/ Halt
  /\ UNCHANGED reset_i

Clock == ClockOn(Data, BOOLEAN)

Next == Clock \/ IrqFalls \/ ResetPin

Spec == Init /\ [][Next]_vars

\* The oscillator does not stop; nothing is assumed of the pins.
FairSpec == Spec /\ WF_vars(Clock)
=============================================================================
