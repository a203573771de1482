----------------------------- MODULE Retirement -----------------------------
(***************************************************************************)
(* The multi-cycle core implements the instruction set.  The history       *)
(* variable arch is the programmer's view of the core as of the last       *)
(* instruction that retired or interrupt that was taken; through it every  *)
(* step of RangerRisc is a step of RiscvISA or leaves it unchanged.        *)
(*                                                                         *)
(* The reset pin is low at power up and released once: what a reset in the *)
(* middle of an instruction leaves behind is InterruptFlow's subject.      *)
(***************************************************************************)
EXTENDS RangerRisc

VARIABLE arch

\* Memory as the bytes of its words.
MemoryBytes ==
  [a \in SUBSET (MemBits \cup {0, 1}) |-> Slice(mem[word_addr(a)], byte_position(a), ByteWidth)]

View(running) ==
  [running |-> running, pc |-> pc, bank |-> bank, bytes |-> MemoryBytes, io |-> io,
   mstatus |-> mstatus, mie |-> mie, mip |-> mip, mepc |-> mepc, mtvec |-> mtvec,
   in_handler |-> interrupt_in_progress]

\* Between two instructions, or behind the entry into a handler.
Retired == state \in {"PreFetch", "IRQ2"}

RetireInit == CoreInit /\ ~reset_i /\ arch = View(FALSE)

RetireNext ==
  /\ \/ CoreClock
     \/ CoreIrqFalls
     \/ ~reset_i /\ CoreResetPin
  /\ arch' = IF Retired' THEN View(TRUE)' ELSE arch

RetireSpec == RetireInit /\ [][RetireNext]_<<coreVars, arch>>

ISA == INSTANCE RiscvISA WITH
  running <- arch.running, pc <- arch.pc, bank <- arch.bank, bytes <- arch.bytes,
  io <- arch.io, mstatus <- arch.mstatus, mie <- arch.mie, mip <- arch.mip,
  mepc <- arch.mepc, mtvec <- arch.mtvec, in_handler <- arch.in_handler
-----------------------------------------------------------------------------
\* Whatever cycles an instruction takes and wherever the interrupt pin falls,
\* a program sees the instruction set: its registers, memory, ports and CSRs
\* change by whole instructions, and by interrupts between them.
ImplementsISA == ISA!Spec

\* The datapath does in every cycle what ControlMatrix leaves it to do: the PC
\* and IR load only where, and what, the control unit's cycle is written for.
\* A model whose two halves contradicted each other would stop here.
DatapathFollows == ENABLED CoreClock
-----------------------------------------------------------------------------
(***************************************************************************)
(* What a program has to keep to, for RiscvISA to say what it does.        *)
(***************************************************************************)

\* The core runs an opcode it does not know as a load, an illegal store as a
\* byte store, and an illegal CSR form over and over.
LegalInstruction(i) ==
  /\ i.opcode \in {"RTYPE", "ITYPE", "ITYPE_L", "ITYPE_J", "ITYPE_E", "STYPE", "BTYPE",
                   "JTYPE", "UTYPE_L", "UTYPE_A"}
  /\ i.opcode = "STYPE" => i.funct3 \in {0, 1, 2}
  /\ i.opcode = "BTYPE" => i.funct3 \in {0, 1, 4, 5, 6, 7}
  /\ i.opcode = "ITYPE_E" =>
       \/ i.funct3 \in {1, 2, 3, 5, 6, 7}
       \/ i.funct3 = 0 /\ i.funct12 \in {"ebreak", "ecall", "mret"}

\* Legal instructions; no address but a store's changes a port, since a load, a
\* fetch and the word after the one executed select it too; no shift by the width
\* of a word, which the ALU does not reduce.
Conforming ==
  /\ state = "Decode" => LegalInstruction(ir)
  /\ io_wr /\ io_addr \in Ports =>
       In({"STMemAcc", "STMemWrt"}) \/ io[io_addr] = Slice(rsb, 0, ByteWidth)
  /\ In({"RType", "ITALU"}) /\ alu_op \in {SllOp, SrlOp, SraOp} => Value(b_mux_out) < Width

(***************************************************************************)
(* The instruction in flight: what every cycle holds of the instruction    *)
(* that arch is about to execute, and what it still shows of arch.         *)
(***************************************************************************)

\* Nothing in memory changes before an instruction retires; the rest waits for
\* the cycle that writes it.
ArchHeld ==
  /\ arch.bytes = MemoryBytes
  /\ ~reset_i => Resetting("Sync0")
  /\ arch.running = (state # "Reset")
  /\ mstatus = arch.mstatus /\ mtvec = arch.mtvec
  /\ state # "Reset" => mie = arch.mie
  /\ state # "IRQ1" => mepc = arch.mepc
  /\ state \notin {"IRQ0", "IRQ1"} => interrupt_in_progress = arch.in_handler
  /\ ~In({"ITCSRLd"}) => bank = arch.bank
  /\ ~In({"STMemWrt"}) => io = arch.io

\* The reset vector is on its way to the PC, with interrupts off.
ResetHeld ==
  state = "Reset" =>
    /\ ~arch.in_handler
    /\ vector_state \in {"Sync0", "Vector0"} => mip \in ISA!Pend(arch.mip)
    /\ vector_state \notin {"Sync0", "Vector0"} =>
         mie = {} /\ mip \in ISA!Pend(arch.mip \ {MEI})
    /\ vector_state \in {"Vector1", "Vector2"} => pc = ResetVector
    /\ vector_state = "Vector2" => storage_data_out = mem[word_addr(ResetVector)]
    /\ vector_state = "Vector3" => pc = mem[word_addr(ResetVector)]

\* Between two instructions the pending bit decides, as it was when the last one
\* retired; an edge since then waits.
BetweenHeld ==
  /\ state \notin {"Reset", "Execute"} => mip \in ISA!Pend(arch.mip)
  /\ state = "PreFetch" => mip = arch.mip
  /\ state = "IRQ2" => interrupt_in_progress /\ mip = arch.mip
  /\ state \in {"PreFetch", "Fetch", "Decode", "IRQ0", "IRQ1", "IRQ2"} => pc = arch.pc
  /\ state \in {"IRQ0", "IRQ1"} => ISA!InterruptDue /\ interrupt_in_progress
  /\ state = "IRQ1" => mepc = pc
  /\ state = "Fetch" => fresh
  /\ state \in {"Fetch", "Decode", "Execute"} => ~ISA!InterruptDue

\* IR holds the instruction at the PC of arch, and ir_state one of its cycles.
InstructionHeld ==
  /\ state \in {"Decode", "Execute"} => ir = ISA!Current /\ pc_prior = arch.pc
  /\ state = "Decode" => ir_state = "ITLoad"
  /\ state = "Execute" => LegalInstruction(ir)
  /\ In({"RType", "RTCmpl"}) => ir.opcode = "RTYPE"
  /\ In({"ITALU", "ITALUCmpl"}) => ir.opcode = "ITYPE"
  /\ In({"ITLoad", "ITLDMemAcc", "ITLDMemMdr", "ITLDMemCmpl"}) => ir.opcode = "ITYPE_L"
  /\ In({"STStore", "STMemAcc", "STMemWrt"}) => ir.opcode = "STYPE"
  /\ In({"BType", "BTBranch"}) => ir.opcode = "BTYPE"
  /\ In({"JTJal", "JTJalRtr"}) => ir.opcode = "JTYPE"
  /\ In({"ITJalr", "ITJalrRtr"}) => ir.opcode = "ITYPE_J"
  /\ In({"UType"}) => ir.opcode = "UTYPE_L"
  /\ In({"UTypeAui"}) => ir.opcode = "UTYPE_A"
  /\ In({"ITCSR", "ITCSRLd"}) => ir.opcode = "ITYPE_E" /\ ir.funct3 # 0
  /\ In({"ITCSRLd"}) => reads_csr
  /\ In({"ITMret", "ITMretClr"}) =>
       ir.opcode = "ITYPE_E" /\ ir.funct3 = 0 /\ ir.funct12 = "mret"

\* The datapath's registers, cycle by cycle.
ReturnCycles == {"JTJalRtr", "ITJalrRtr", "ITMretClr"}
AddressedCycles == {"ITLDMemAcc", "ITLDMemMdr", "ITLDMemCmpl", "STMemAcc", "STMemWrt"}

\* The ports as a store to one of them leaves them.
StoredPorts ==
  [p \in Ports |-> IF alu_out \cap IOBits = p THEN Slice(rsb, 0, ByteWidth) ELSE arch.io[p]]

OperandsHeld ==
  state = "Execute" =>
    /\ rsa = ISA!Read(ir.rs1)
    /\ ir_state # "ITCSRLd" => rsb = ISA!Read(ir.rs2)
    /\ ir_state \notin ReturnCycles => pc = Add(arch.pc, SrcFour)
    /\ ir_state = "JTJalRtr" => pc = Add(arch.pc, ir.imm)
    /\ ir_state = "ITJalrRtr" => pc = Add(rsa, ir.imm)
    /\ ir_state = "ITMretClr" => pc = mepc \ AlignBits

ResultsHeld ==
  state = "Execute" =>
    /\ ir_state = "RTCmpl" => alu_out = ISA!Arithmetic(<<ir.funct3, ir.funct7>>, rsa, rsb)
    /\ ir_state = "ITALUCmpl" =>
         alu_out = ISA!Arithmetic(<<ir.funct3, ir.funct3 \in {1, 5} /\ ir.funct7>>, rsa, ir.imm)
    /\ ir_state = "BTBranch" => alu_flags = flags_o(SubOp, rsa, rsb)
    /\ ir_state \in AddressedCycles => alu_out = Add(rsa, ir.imm)
    /\ ir_state = "ITLDMemMdr" \/ (ir_state = "STMemWrt" /\ ir.funct3 # WORD_SIZE) =>
         storage_data_out = mem[word_addr(alu_out)]
    /\ ir_state = "ITLDMemCmpl" =>
         mdr = rd_o(ir.funct3, alu_out, mem[word_addr(alu_out)], TRUE)
    /\ ir_state = "STMemWrt" => io = arch.io \/ (IO_BIT \in alu_out /\ io = StoredPorts)

\* While a CSR instruction reads and writes, the pending bit it saw may be raised
\* once more.
CSRHeld ==
  state = "Execute" =>
    /\ ir_state # "ITCSRLd" => mip \in ISA!Pend(arch.mip)
    /\ ir_state = "ITCSRLd" =>
         \E seen \in ISA!Pend(arch.mip) :
           LET old == IF ir.funct12 = "Mip" THEN seen ELSE ReadCSR(ir.funct12)
           IN /\ mip \in ISA!Pend(seen)
              /\ bank = IF ir.rd = X0 THEN arch.bank ELSE [arch.bank EXCEPT ![ir.rd] = old]

InFlight ==
  /\ ArchHeld /\ ResetHeld /\ BetweenHeld /\ InstructionHeld
  /\ OperandsHeld /\ ResultsHeld /\ CSRHeld

\* The program keeps to the rules above, and every register that an instruction
\* in flight depends on holds what it should in this cycle.
FlightKnown == Conforming /\ InFlight
=============================================================================
