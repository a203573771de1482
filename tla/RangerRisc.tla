----------------------------- MODULE RangerRisc -----------------------------
(***************************************************************************)
(* The processor: ControlMatrix joined to the datapath it drives           *)
(* (Synthesis/ranger_risc/csrs/RangerRiscProcessor.sv, with the register   *)
(* file, RAM and registers of modules/), and the two output ports of       *)
(* Top.sv that a program can reach.                                        *)
(*                                                                         *)
(* The datapath's registers load on the falling edge in the middle of the  *)
(* period, the control unit moves on the rising edge that closes it.  The  *)
(* control lines depend on the state alone, so a period is one step: the   *)
(* Datapath relation on the registers and, at the same time, a ClockOn     *)
(* step of ControlMatrix, whose choices the datapath decides.              *)
(***************************************************************************)
EXTENDS ControlMatrix, ALU, Pmmu

CONSTANTS
  Instruction(_),  \* the fields of an instruction word, immediate included
  IO_BIT,          \* the address bit that selects a port instead of RAM (11)
  IOBits,          \* the address bits that select the port (7..0)
  Images,          \* what the RAM can be loaded with
  PowerUpFlags     \* what the flag register can hold at power up

ASSUME ImageAssumption ==
  Images \subseteq [SUBSET MemBits -> Word] /\ IO_BIT \in Bits /\ IOBits \subseteq Bits

ASSUME PowerUpAssumption ==
  PowerUp # {} /\ PowerUpFlags \subseteq SUBSET {"V", "N", "C", "Z"}

\* The datapath is wired now, so what it may compute is any word.
ASSUME DatapathAssumption == Addr = Word /\ Data = Word

\* The instructions that words encode.  The bit of funct7 is set for sub, sra
\* and srai only: nothing asks the ALU for an operation it does not have.
Instructions == {Instruction(w) : w \in Word}

ASSUME InstructionAssumption ==
  \A i \in Instructions :
    /\ i \in Program
    /\ i.funct7 \in BOOLEAN /\ (i.funct7 => i.funct3 \in {0, 5})
    /\ i.rs2 \in RegId /\ i.imm \in Word

SrcFour == {2}

\* The two ports: the LEDs at address 0 and the display at address 1.
Ports == {{}, {0}}

VARIABLES
  pc_prior, rsa, rsb, alu_out, alu_flags, mdr,
  bank,              \* the register file
  mem,               \* the RAM
  storage_data_out,  \* the word at the RAM's output port
  io                 \* par_port and display_port

datapath == <<pc_prior, rsa, rsb, alu_out, alu_flags, mdr, bank, mem,
              storage_data_out, io>>
coreVars == <<vars, datapath>>

\* The types of the registers.
CoreTypeOK ==
  /\ TypeOK
  /\ {pc_prior, rsa, rsb, alu_out, mdr, storage_data_out} \subseteq Word
  /\ alu_flags \subseteq {"V", "N", "C", "Z"}
  /\ bank \in [RegId \ {X0} -> Word]
  /\ mem \in [SUBSET MemBits -> Word]
  /\ io \in [Ports -> SUBSET (0 .. (ByteWidth - 1))]
-----------------------------------------------------------------------------
(***************************************************************************)
(* Control lines, from the state.                                          *)
(***************************************************************************)

In(steps) == state = "Execute" /\ ir_state \in steps

branch_taken == take_branch(ir.funct3, alu_flags)

\* Broken variant: mret leaves the PC alone.
pc_ld_NotInMret ==
  \/ Resetting("Vector0") \/ Resetting("Vector2") \/ state \in {"Decode", "IRQ1"}
  \/ In({"ITJalr", "JTJal"})
  \/ In({"BTBranch"}) /\ branch_taken

pc_ld ==
  \/ Resetting("Vector0") \/ Resetting("Vector2") \/ state \in {"Decode", "IRQ1"}
  \/ In({"ITJalr", "JTJal", "ITMret"})
  \/ In({"BTBranch"}) /\ branch_taken

\* Broken variant: MDR loads before the addressed word is at the RAM's port.
mdr_ld_InMemAcc == In({"ITLDMemAcc"})

ir_ld    == state = "Fetch"
pcp_ld   == state = "Fetch"
mdr_ld   == In({"ITLDMemMdr"})
flags_ld == In({"BType"})
alu_ld   == state = "Decode" \/ In({"RType", "ITALU", "ITLoad", "STStore", "BTBranch"})

\* Broken variant: RsA follows the register file during a CSR instruction too.
rsa_ld_Always == TRUE

\* A CSR instruction may overwrite the register it reads before it is done.
rsa_ld == ~In({"ITCSR", "ITCSRLd"})

rg_wr ==
  \/ In({"RTCmpl", "ITALUCmpl", "ITLDMemCmpl", "ITJalrRtr", "JTJalRtr", "UType", "UTypeAui"})
  \/ In({"ITCSR"}) /\ reads_csr

\* Broken variant: the handler's first word is not read.
mem_rd_NotInIRQ2 ==
  \/ Resetting("Vector1") \/ Resetting("Vector3")
  \/ state = "PreFetch" /\ ~InterruptTaken
  \/ In({"ITLDMemAcc", "ITLDMemMdr", "STMemAcc"})

mem_rd ==
  \/ Resetting("Vector1") \/ Resetting("Vector3")
  \/ state = "IRQ2"
  \/ state = "PreFetch" /\ ~InterruptTaken
  \/ In({"ITLDMemAcc", "ITLDMemMdr", "STMemAcc"})

mem_wr   == In({"STMemWrt"})
addr_src == In({"ITLDMemAcc", "ITLDMemMdr", "STStore", "STMemAcc", "STMemWrt"})

\* The immediate shifts are the only ITYPE operations that look at funct7.
alu_op ==
  CASE ir_state = "RType" -> <<ir.funct3, ir.funct7>>
    [] ir_state = "ITALU" -> <<ir.funct3, ir.funct3 \in {1, 5} /\ ir.funct7>>
    [] ir_state = "BType" -> SubOp
    [] OTHER              -> AddOp
-----------------------------------------------------------------------------
(***************************************************************************)
(* Buses.                                                                  *)
(***************************************************************************)

a_mux_out ==
  CASE In({"RType", "ITALU", "ITLoad", "ITJalr", "STStore", "BType"}) -> rsa
    [] In({"ITJalrRtr", "JTJal", "JTJalRtr", "UTypeAui", "BTBranch"}) -> pc_prior
    [] In({"UType"}) -> {}
    [] OTHER -> pc

b_mux_out ==
  CASE In({"RType", "BType"}) -> rsb
    [] In({"ITALU", "ITLoad", "ITJalr", "STStore", "BTBranch", "JTJal", "UType",
           "UTypeAui"}) -> ir.imm
    [] OTHER -> SrcFour

alu_imm_out == y_o(alu_op, a_mux_out, b_mux_out)

addr_mux_to_pmmu == IF addr_src THEN alu_out ELSE pc

\* The reset sequence reads words whatever IR holds.
rst_src_out == IF state = "Reset" THEN WORD_SIZE ELSE ir.funct3

pmmu_out == rd_o(rst_src_out, addr_mux_to_pmmu, storage_data_out, mem_rd)

pc_src_out ==
  CASE Resetting("Vector0") -> ResetVector
    [] Resetting("Vector2") -> pmmu_out
    [] state = "IRQ1"       -> mtvec
    [] In({"ITMret"})       -> mepc \ AlignBits
    [] OTHER                -> alu_imm_out

wd_src_out ==
  CASE In({"RTCmpl", "ITALUCmpl"}) -> alu_out
    [] In({"ITLDMemCmpl"})         -> mdr
    [] In({"ITCSR"})               -> ReadCSR(ir.funct12)
    [] OTHER                       -> alu_imm_out

\* x0 reads as zero.
ReadRegister(r) == IF r = X0 THEN {} ELSE bank[r]

\* The port's write line follows the address alone, whatever the memory does.
io_wr   == IO_BIT \in addr_mux_to_pmmu
io_addr == addr_mux_to_pmmu \cap IOBits
-----------------------------------------------------------------------------
(***************************************************************************)
(* The falling edge: every register, the register file, the RAM and the    *)
(* ports load what the buses hold.                                         *)
(***************************************************************************)

Load(ld, data, held) == IF ld THEN data ELSE held

Registers ==
  /\ pc'        = Load(pc_ld, pc_src_out, pc)
  /\ pc_prior'  = Load(pcp_ld, pc, pc_prior)
  /\ ir'        = Load(ir_ld, Instruction(pmmu_out), ir)
  /\ rsa'       = Load(rsa_ld, ReadRegister(ir.rs1), rsa)
  /\ rsb'       = ReadRegister(ir.rs2)
  /\ alu_out'   = Load(alu_ld, alu_imm_out, alu_out)
  /\ alu_flags' = Load(flags_ld, flags_o(alu_op, a_mux_out, b_mux_out), alu_flags)
  /\ mdr'       = Load(mdr_ld, pmmu_out, mdr)

\* x0 is never written.
RegisterFile ==
  bank' = IF rg_wr /\ ir.rd # X0 THEN [bank EXCEPT ![ir.rd] = wd_src_out] ELSE bank

\* A store to a port does not reach the RAM.
Memory ==
  LET cell == word_addr(addr_mux_to_pmmu)
  IN /\ mem' = IF mem_wr /\ ~io_wr
               THEN [mem EXCEPT ![cell] =
                       storage_data_in(rst_src_out, addr_mux_to_pmmu, rsb, storage_data_out)]
               ELSE mem
     /\ storage_data_out' = Load(mem_rd, mem[cell], storage_data_out)

OutputPorts ==
  io' = [p \in Ports |->
           IF io_wr /\ io_addr = p THEN Slice(rsb, 0, ByteWidth) ELSE io[p]]

Datapath == Registers /\ RegisterFile /\ Memory /\ OutputPorts
-----------------------------------------------------------------------------
\* Power up.  The reset pin is low while Top.sv starts; no register but the
\* control unit's has an initial value, the RAM is loaded with a program.
CoreInit ==
  /\ rsa \in PowerUp /\ rsb \in PowerUp /\ alu_out \in PowerUp /\ mdr \in PowerUp
  /\ pc_prior \in PowerUp /\ storage_data_out \in PowerUp
  /\ ir \in {Instruction(w) : w \in PowerUp}
  /\ alu_flags \in PowerUpFlags
  /\ bank \in [RegId \ {X0} -> PowerUp]
  /\ mem \in Images
  /\ io = [p \in Ports |-> {}]
  /\ Init

CoreClock == Datapath /\ ClockOn({rsa'}, {branch_taken})

CoreIrqFalls == IrqFalls /\ UNCHANGED datapath

CoreResetPin == ResetPin /\ UNCHANGED datapath

CoreNext == CoreClock \/ CoreIrqFalls \/ CoreResetPin

CoreSpec == CoreInit /\ [][CoreNext]_coreVars
-----------------------------------------------------------------------------
\* At the PC the memory port was read for, it holds the word that is there.
PortHoldsPC ==
  state = "Fetch" /\ fresh => storage_data_out = mem[word_addr(pc)]

\* What is executed is the word in memory at PC, although the RAM was read a
\* cycle before it is fetched: no store, jump, interrupt or reset comes between,
\* and what size of access IR still names does not matter.
ExecutesAtPC ==
  [][state = "Fetch" /\ fresh /\ state' # "Fetch"
       => ir' = Instruction(mem[word_addr(pc)])]_coreVars
=============================================================================
