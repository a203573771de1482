------------------------- MODULE Retirement_proofs -------------------------
(***************************************************************************)
(* The multi-cycle core implements the instruction set, for every byte     *)
(* width, memory, program and behaviour of the interrupt pin: the          *)
(* invariant InFlight of the instruction being executed, and the           *)
(* refinement of RiscvISA that rests on it.                                *)
(* Before it, what holds of the processor with any program, and however    *)
(* the reset pin moves.                                                    *)
(*                                                                         *)
(* One thing is assumed: Conforming, what a program keeps to, which is     *)
(* stated and explained in Retirement.                                     *)
(***************************************************************************)
EXTENDS Retirement, ControlMatrix_proofs, FiniteSetTheorems
-----------------------------------------------------------------------------
(***************************************************************************)
(* The processor: its types, that the control unit in it is ControlMatrix  *)
(* with the datapath's choices made, and that it executes what is in       *)
(* memory at PC.                                                           *)
(***************************************************************************)
\* The words have their lowest four bits, for the truth of a comparison and
\* the four that Decode adds to the PC.
LEMMA LowBits == {} \in Word /\ {0} \in Word /\ {2} \in Word
  BY PmmuAssumption DEF Word

LEMMA ALUResultType ==
  ASSUME NEW op \in ALU_Ops, NEW a \in Word, NEW b \in Word
  PROVE  y_o(op, a, b) \in Word /\ flags_o(op, a, b) \subseteq {"V", "N", "C", "Z"}
  <1>1. Add(a, b) \in Word /\ Sub(a, b) \in Word /\ Xor(a, b) \in Word
    BY DEF Add, Sub, Xor, Word
  <1>2. \A w, n : ShiftRight(w, n) \in Word
    BY DEF ShiftRight, Word
  <1>3. \A h : Truth(h) \in Word
    BY LowBits DEF Truth
  <1>4. /\ a \cap b \in Word /\ a \cup b \in Word
        /\ {i \in Bits : i - Value(b) \in a} \in Word
    BY DEF Word
  <1>5. y_o(op, a, b) \in Word
    BY <1>1, <1>2, <1>3, <1>4 DEF y_o, ALU_Ops, AddOp, SubOp, SllOp, SltOp, SltuOp,
       XorOp, SrlOp, SraOp, OrOp, AndOp
  <1> QED BY <1>5 DEF flags_o

\* A byte or a half word lies in its word.
LEMMA Positions ==
  ASSUME NEW addr
  PROVE  /\ byte_position(addr) \in 0 .. (3 * ByteWidth)
         /\ halfword_position(addr) \in 0 .. (2 * ByteWidth)
  BY PmmuAssumption DEF byte_position, halfword_position

LEMMA SliceType ==
  ASSUME NEW w, NEW first, NEW length \in 0 .. (4 * ByteWidth)
  PROVE  Slice(w, first, length) \in Word
  BY PmmuAssumption DEF Slice, Word

LEMMA SignExtendType ==
  ASSUME NEW part \in Word, NEW length \in 0 .. (4 * ByteWidth)
  PROVE  SignExtend(part, length) \in Word
  BY PmmuAssumption DEF SignExtend, Word

LEMMA MergeType ==
  ASSUME NEW w \in Word, NEW part, NEW length \in Nat,
         NEW first \in Nat, first + length <= 4 * ByteWidth
  PROVE  Merge(w, part, first, length) \in Word
  <1>1. \A b \in 0 .. (length - 1) : b + first \in 0 .. (4 * ByteWidth - 1)
    BY PmmuAssumption
  <1>2. {b + first : b \in Slice(part, 0, length)} \subseteq Bits
    BY <1>1, PmmuAssumption DEF Slice
  <1> QED BY <1>2 DEF Merge, Word

\* Whatever is read, and whatever is merged for a store, is a word.
LEMMA PmmuTypes ==
  ASSUME NEW funct3, NEW addr, NEW port \in Word, NEW wd \in Word, NEW reading
  PROVE  /\ rd_o(funct3, addr, port, reading) \in Word
         /\ storage_data_in(funct3, addr, wd, port) \in Word
  <1>1. ByteWidth \in 0 .. (4 * ByteWidth) /\ 2 * ByteWidth \in 0 .. (4 * ByteWidth)
    BY PmmuAssumption
  <1>2. rd_o(funct3, addr, port, reading) \in Word
    BY <1>1, SliceType, SignExtendType DEF rd_o
  <1>3. Merge(port, wd, byte_position(addr), ByteWidth) \in Word
    BY Positions, MergeType, PmmuAssumption
  <1>4. Merge(port, wd, halfword_position(addr), 2 * ByteWidth) \in Word
    BY Positions, MergeType, PmmuAssumption
  <1> QED BY <1>2, <1>3, <1>4 DEF storage_data_in
-----------------------------------------------------------------------------
\* The types, and that IR holds an instruction that a word encodes.
CoreInv == CoreTypeOK /\ ir \in Instructions /\ TypeInv

\* The buses carry words.
LEMMA OperationType ==
  ASSUME CoreInv
  PROVE  alu_op \in ALU_Ops
  <1>1. ir.funct3 \in 0..7 /\ ir.funct7 \in BOOLEAN /\ (ir.funct7 => ir.funct3 \in {0, 5})
    BY InstructionAssumption, ProgramAssumption DEF CoreInv
  <1>2. \A f \in 0..7 : <<f, FALSE>> \in ALU_Ops
    <2>1. {AddOp, SllOp, SltOp, SltuOp, XorOp, SrlOp, OrOp, AndOp} \subseteq ALU_Ops
      BY DEF ALU_Ops
    <2>2. \A f \in 0..7 : f \in {0, 1, 2, 3, 4, 5, 6, 7}
      OBVIOUS
    <2> QED
      BY <2>1, <2>2, Zenon DEF AddOp, SllOp, SltOp, SltuOp, XorOp, SrlOp, OrOp, AndOp
  <1>3. \A f \in {0, 5} : <<f, TRUE>> \in ALU_Ops
    BY DEF ALU_Ops, SubOp, SraOp
  <1>4. \A f \in 0..7, u \in BOOLEAN : (u => f \in {0, 5}) => <<f, u>> \in ALU_Ops
    BY <1>2, <1>3
  <1>5. <<ir.funct3, ir.funct3 \in {1, 5} /\ ir.funct7>> \in ALU_Ops
    BY <1>1, <1>4
  <1> QED BY <1>1, <1>4, <1>5 DEF alu_op, ALU_Ops, SubOp, AddOp

LEMMA BusTypes ==
  ASSUME CoreInv
  PROVE  /\ {alu_imm_out, pmmu_out, pc_src_out, wd_src_out} \subseteq Word
         /\ flags_o(alu_op, a_mux_out, b_mux_out) \subseteq {"V", "N", "C", "Z"}
  <1> USE DEF CoreInv
  <1>1. ir.imm \in Word /\ SrcFour \in Word /\ {} \in Word
    BY InstructionAssumption, LowBits DEF SrcFour
  <1>2. a_mux_out \in Word /\ b_mux_out \in Word
    BY <1>1 DEF a_mux_out, b_mux_out, CoreTypeOK, TypeOK
  <1>3. alu_imm_out \in Word /\ flags_o(alu_op, a_mux_out, b_mux_out) \subseteq {"V", "N", "C", "Z"}
    BY <1>2, ALUResultType, OperationType DEF alu_imm_out
  <1>4. pmmu_out \in Word
    BY PmmuTypes, LowBits DEF pmmu_out, CoreTypeOK
  <1>5. mepc \ AlignBits \in Word /\ ResetVector \in Word /\ ReadCSR(ir.funct12) \in Word
    BY WordAssumption, LowBits DEF CoreTypeOK, TypeOK, Word, ReadCSR
  <1>6. pc_src_out \in Word
    BY <1>3, <1>4, <1>5 DEF pc_src_out, CoreTypeOK, TypeOK
  <1>7. wd_src_out \in Word
    BY <1>3, <1>5 DEF wd_src_out, CoreTypeOK
  <1> QED BY <1>3, <1>4, <1>6, <1>7

\* The falling edge loads words.
LEMMA DatapathTypes ==
  ASSUME CoreInv, Datapath
  PROVE  /\ ir' \in Instructions
         /\ {pc_prior', rsa', rsb', alu_out', mdr', storage_data_out'} \subseteq Word
         /\ alu_flags' \subseteq {"V", "N", "C", "Z"}
         /\ bank' \in [RegId \ {X0} -> Word]
         /\ mem' \in [SUBSET MemBits -> Word]
         /\ io' \in [Ports -> SUBSET (0 .. (ByteWidth - 1))]
  <1> USE DEF Datapath, CoreInv
  <1>1. ir.rs1 \in RegId /\ ir.rs2 \in RegId /\ ir.rd \in RegId
    BY InstructionAssumption, ProgramAssumption DEF CoreInv
  <1>2. ReadRegister(ir.rs1) \in Word /\ ReadRegister(ir.rs2) \in Word
    BY <1>1, LowBits DEF ReadRegister, CoreTypeOK
  <1>3. ir' \in Instructions
    BY BusTypes DEF Registers, Load, CoreTypeOK, Instructions
  <1>4. {pc_prior', rsa', rsb', alu_out', mdr'} \subseteq Word
    BY <1>2, BusTypes DEF Registers, Load, CoreTypeOK, TypeOK
  <1>5. alu_flags' \subseteq {"V", "N", "C", "Z"}
    BY BusTypes DEF Registers, Load, CoreTypeOK
  <1>6. bank' \in [RegId \ {X0} -> Word]
    BY <1>1, BusTypes DEF RegisterFile, CoreTypeOK
  <1>7. word_addr(addr_mux_to_pmmu) \in SUBSET MemBits
    BY DEF word_addr
  <1>8. mem' \in [SUBSET MemBits -> Word] /\ storage_data_out' \in Word
    BY <1>7, PmmuTypes DEF Memory, Load, CoreTypeOK
  <1>9. io' \in [Ports -> SUBSET (0 .. (ByteWidth - 1))]
    BY DEF OutputPorts, Slice, CoreTypeOK
  <1> QED BY <1>3, <1>4, <1>5, <1>6, <1>8, <1>9

\* The datapath's choices are among those that ControlMatrix leaves open.
LEMMA CoreClockIsClock ==
  ASSUME CoreInv, CoreClock
  PROVE  Clock
  <1>1. rsa' \in Data
    BY DatapathTypes, DatapathAssumption DEF CoreClock
  <1>2. BTBranch(branch_taken) => BTBranch(TRUE) \/ BTBranch(FALSE)
    BY DEF BTBranch
  <1>3. ClockOn({rsa'}, {branch_taken})
    BY DEF CoreClock
  <1>4. ExecuteJump({branch_taken}) => ExecuteJump(BOOLEAN)
    BY <1>2 DEF ExecuteJump
  <1>5. ExecuteSystem({rsa'}) => ExecuteSystem(Data)
    BY <1>1 DEF ExecuteSystem
  <1> QED BY <1>3, <1>4, <1>5 DEF Clock, ClockOn
-----------------------------------------------------------------------------
LEMMA InitCoreInv == CoreInit => CoreInv
  <1> SUFFICES ASSUME CoreInit PROVE CoreInv
    OBVIOUS
  <1>1. TypeInv
    BY InitTypeInv DEF CoreInit
  <1>2. PowerUp \subseteq Word
    BY WordAssumption
  <1>3. ir \in Instructions
    BY <1>2 DEF CoreInit, Instructions
  <1>4. io \in [Ports -> SUBSET (0 .. (ByteWidth - 1))]
    BY DEF CoreInit
  <1>5. bank \in [RegId \ {X0} -> Word]
    BY <1>2 DEF CoreInit
  <1> QED
    BY <1>1, <1>2, <1>3, <1>4, <1>5, ImageAssumption, PowerUpAssumption
    DEF CoreInit, CoreInv, CoreTypeOK, TypeInv

LEMMA CoreInvStep ==
  ASSUME CoreInv, [CoreNext]_coreVars
  PROVE  CoreInv'
  <1> USE DEF CoreInv
  <1>1. CASE CoreClock
    <2>1. Next
      BY <1>1, CoreClockIsClock DEF Next
    <2>2. TypeInv'
      BY <2>1, TypeStep, CsrReadLegalStep DEF TypeInv
    <2> QED BY <1>1, <2>2, DatapathTypes DEF CoreClock, CoreTypeOK, TypeInv
  <1>2. CASE CoreIrqFalls \/ CoreResetPin
    <2>1. Next /\ UNCHANGED datapath /\ ir' = ir
      BY <1>2 DEF CoreIrqFalls, CoreResetPin, Next, IrqFalls, ResetPin
    <2>2. TypeInv'
      BY <2>1, TypeStep, CsrReadLegalStep DEF TypeInv
    <2> QED BY <2>1, <2>2 DEF datapath, CoreTypeOK, TypeInv
  <1>3. CASE UNCHANGED coreVars
    <2>1. UNCHANGED vars /\ UNCHANGED datapath
      BY <1>3 DEF coreVars
    <2> QED
      BY <2>1 DEF vars, datapath, csrs, irqs, CoreTypeOK, TypeInv, TypeOK, CsrReadLegal,
         Executing
  <1> QED BY <1>1, <1>2, <1>3 DEF CoreNext

\* Every register of the processor, its RAM and its ports hold values of their
\* types, whatever the program does with them: no sum, shift, merge or sign
\* extension leaves the word.
THEOREM CoreTypes == CoreSpec => []CoreTypeOK
  <1>1. CoreInv => CoreTypeOK
    BY DEF CoreInv
  <1> QED BY InitCoreInv, CoreInvStep, <1>1, PTL DEF CoreSpec

\* The control unit inside the processor is ControlMatrix: what is shown of it
\* with the datapath left open holds with the datapath in place.
THEOREM CoreImplementsControl == CoreSpec => Spec
  <1>1. CoreInit => Init
    BY DEF CoreInit
  <1>2. CoreInv /\ [CoreNext]_coreVars => [Next]_vars
    BY CoreClockIsClock DEF CoreInv, CoreNext, CoreIrqFalls, CoreResetPin, Next, coreVars
  <1> QED BY InitCoreInv, CoreInvStep, <1>1, <1>2, PTL DEF CoreSpec, Spec

(* The processor with the histories of InterruptFlow beside it. *)
WatchedNext ==
  \/ CoreClock /\ Watched
  \/ CoreIrqFalls /\ FlowIrqFalls
  \/ CoreResetPin /\ FlowResetPin

WatchedSpec == CoreInit /\ FlowInit /\ [][WatchedNext]_<<coreVars, history>>

LEMMA WatchedFlows == WatchedSpec => CoreSpec /\ FlowSpec
  <1>1. [WatchedNext]_<<coreVars, history>> => [CoreNext]_coreVars
    BY DEF WatchedNext, CoreNext
  <1>2. CoreInv /\ [WatchedNext]_<<coreVars, history>> => [FlowNext]_flowVars
    BY CoreClockIsClock DEF WatchedNext, FlowNext, FlowClock, flowVars, coreVars
  <1> QED BY InitCoreInv, CoreInvStep, <1>1, <1>2, PTL DEF WatchedSpec, CoreSpec, FlowSpec

\* What the interrupt logic promises holds of the processor, whatever program it
\* runs and however its two pins move, a reset in mid-instruction included: no
\* edge is lost, no handler is entered without a cause of its own or before
\* software has written mie, the return address survives, and a reset leaves a
\* core that can be interrupted again.
THEOREM CoreKeepsInterrupts ==
  WatchedSpec => [](/\ EdgeKept /\ NoSpuriousInterrupt /\ ReturnAddressHeld
                    /\ MaskedAfterReset /\ ResetReleasesInterrupts)
  BY WatchedFlows, EdgesAreKept, EntriesAreHeard, ReturnAddressSurvives, ResetMasks,
     ResetReleases, PTL
-----------------------------------------------------------------------------
\* The reset sequence reads the start address through its vector, in whatever
\* cycle the reset fell.
ResetStarts ==
  /\ Resetting("Vector1") \/ Resetting("Vector2") => pc = ResetVector
  /\ Resetting("Vector2") => storage_data_out = mem[word_addr(ResetVector)]
  /\ Resetting("Vector3") => pc = mem[word_addr(ResetVector)]

LEMMA ResetStartsStep ==
  ASSUME CoreInv, ResetStarts, CoreClock
  PROVE  ResetStarts'
  <1>1. Clock /\ Datapath
    BY CoreClockIsClock DEF CoreClock
  <1>2. CASE QuietCycle \/ WriteCycle \/ ITMretClr \/ PreFetchInterrupt \/ IRQ0 \/ IRQ1
    <2>1. state' = "Reset" => vector_state' = "Sync0"
      BY <1>2 DEF QuietCycle, WriteCycle, Elsewhere, ITMretClr, PreFetchInterrupt, IRQ0, IRQ1,
         Executing, Retire, Sequence
    <2> QED BY <2>1 DEF ResetStarts, Resetting
  <1>3. CASE Sync0 \/ Vector3
    <2>1. state' = "Reset" => vector_state' \in {"Sync0", "Vector0"}
      BY <1>3 DEF Sync0, Vector3, VectorSequence, Sequence
    <2> QED BY <2>1 DEF ResetStarts, Resetting
  <1>4. CASE Vector0 \/ Vector1 \/ Vector2
    <2>1. state = "Reset" /\ mem' = mem
      BY <1>1, <1>4 DEF Datapath, Memory, mem_wr, In, Vector0, Vector1, Vector2, Resetting
    <2>2. CASE Vector0
      <3>1. pc' = ResetVector /\ vector_state' \in {"Sync0", "Vector1"}
        BY <2>2 DEF Vector0, VectorSequence
      <3> QED BY <3>1 DEF ResetStarts, Resetting
    <2>3. CASE Vector1
      <3>1. pc = ResetVector /\ pc' = pc /\ vector_state' \in {"Sync0", "Vector2"}
        BY <2>3 DEF Vector1, VectorSequence, ResetStarts
      <3>2. storage_data_out' = mem[word_addr(pc)]
        BY <1>1, <2>1, <2>3 DEF Datapath, Memory, Load, mem_rd, Vector1, addr_mux_to_pmmu,
           addr_src, In
      <3> QED BY <2>1, <3>1, <3>2 DEF ResetStarts, Resetting
    <2>4. CASE Vector2
      <3>1. /\ storage_data_out = mem[word_addr(ResetVector)]
            /\ vector_state' \in {"Sync0", "Vector3"} /\ Resetting("Vector2")
        BY <2>4 DEF Vector2, VectorSequence, ResetStarts
      <3>2. rst_src_out = 2
        BY <2>1 DEF rst_src_out, WORD_SIZE
      <3>3. pmmu_out = storage_data_out
        BY <3>2 DEF pmmu_out, rd_o, is_byte_size, is_halfword_size
      <3>4. pc' = pmmu_out
        BY <1>1, <3>1 DEF Datapath, Registers, Load, pc_ld, pc_src_out, Resetting, In
      <3> QED BY <2>1, <3>1, <3>3, <3>4 DEF ResetStarts, Resetting
    <2> QED BY <1>4, <2>2, <2>3, <2>4
  <1> QED BY <1>1, <1>2, <1>3, <1>4, Kinds

\* However the pins move, and whatever the core was doing when the reset fell, in
\* the middle of a store, of an interrupt's entry or of an earlier reset: a reset
\* that comes to its end leaves PC with the word that is at the reset vector.
\* With ExecutesMemory, the program starts there.
THEOREM ResetStartsProgram ==
  CoreSpec => [](Resetting("Vector3") => pc = mem[word_addr(ResetVector)])
  <1>1. CoreInit => ResetStarts
    BY DEF CoreInit, Init, ResetStarts, Resetting
  <1>2. CoreInv /\ ResetStarts /\ [CoreNext]_coreVars => ResetStarts'
    <2> SUFFICES ASSUME CoreInv, ResetStarts, [CoreNext]_coreVars PROVE ResetStarts'
      OBVIOUS
    <2>1. CASE CoreIrqFalls \/ CoreResetPin \/ UNCHANGED coreVars
      BY <2>1 DEF CoreIrqFalls, CoreResetPin, IrqFalls, ResetPin, coreVars, vars, datapath,
         ResetStarts, Resetting
    <2> QED BY <2>1, ResetStartsStep DEF CoreNext
  <1>3. ResetStarts => (Resetting("Vector3") => pc = mem[word_addr(ResetVector)])
    BY DEF ResetStarts
  <1> QED BY InitCoreInv, CoreInvStep, <1>1, <1>2, <1>3, PTL DEF CoreSpec
-----------------------------------------------------------------------------
\* An instruction is read before it is fetched; the one way back to Fetch that
\* reads nothing, an illegal CSR form, leaves the port marked as stale.
PortInv ==
  /\ PortHoldsPC
  /\ state \in {"Decode", "Execute"} => ~fresh

LEMMA InitPortInv == CoreInit => PortInv
  BY DEF CoreInit, Init, PortInv, PortHoldsPC

\* The cycles that read the word at PC on the way to Fetch.
LEMMA ReadsAtPC ==
  ASSUME CoreClock, PreFetchRead \/ IRQ2
  PROVE  PortInv'
  <1>1. state # "Execute" /\ mem_rd
    BY DEF PreFetchRead, IRQ2, mem_rd
  <1>2. addr_mux_to_pmmu = pc /\ ~mem_wr
    BY <1>1 DEF addr_mux_to_pmmu, addr_src, mem_wr, In
  <1>3. mem' = mem /\ storage_data_out' = mem[word_addr(pc)]
    BY <1>1, <1>2 DEF CoreClock, Datapath, Memory, Load
  <1>4. pc' = pc /\ state' \in {"Fetch", "Reset"}
    BY DEF PreFetchRead, IRQ2, Sequence
  <1> QED BY <1>3, <1>4 DEF PortInv, PortHoldsPC

\* The cycles that are not on the way to Fetch, or do not read.
LEMMA OtherCycles ==
  ASSUME PortInv, ClockOn(Data, BOOLEAN), ~(PreFetchRead \/ IRQ2)
  PROVE  /\ state' = "Fetch" => ~fresh'
         /\ state' \in {"Decode", "Execute"} => ~fresh'
  <1> DEFINE Goal == (state' = "Fetch" => ~fresh')
                       /\ (state' \in {"Decode", "Execute"} => ~fresh')
  <1> SUFFICES Goal
    OBVIOUS
  <1>1. CASE Sync0 \/ Vector0 \/ Vector1 \/ Vector2 \/ Vector3 \/ PreFetchInterrupt
             \/ IRQ0 \/ IRQ1 \/ Halt
    BY <1>1 DEF Sync0, Vector0, Vector1, Vector2, Vector3, PreFetchInterrupt, IRQ0, IRQ1,
       Halt, VectorSequence, Sequence
  <1>2. CASE Fetch \/ Decode
    BY <1>2 DEF Fetch, Decode, Sequence, PortInv
  <1>3. CASE state = "Execute" /\ fresh' = fresh
    BY <1>3 DEF PortInv
  <1>4. ExecuteALU => state = "Execute" /\ fresh' = fresh
    BY DEF ExecuteALU, RType, RTCmpl, ITALU, ITALUCmpl, UType, UTypeAui, Executing, Compute
  <1>5. ExecuteMemory => state = "Execute" /\ fresh' = fresh
    BY DEF ExecuteMemory, ITLoad, ITLDMemAcc, ITLDMemMdr, ITLDMemCmpl, STStore, STMemAcc,
       STMemWrt, Executing, Compute
  <1>6. ExecuteJump(BOOLEAN) => state = "Execute" /\ fresh' = fresh
    BY DEF ExecuteJump, ITJalr, ITJalrRtr, JTJal, JTJalRtr, BType, BTBranch, Executing,
       Compute, LoadPC
  <1>7. ExecuteSystem(Data) => state = "Execute" /\ fresh' = fresh
    BY DEF ExecuteSystem, ITEbreak, ITECall, ITMret, ITMretClr, ITCSRVoid, ITCSRRead,
       ITCSRIllegal, ITCSRWrite, ITCSRLd, Executing, Compute, LoadPC
  <1> QED
    BY <1>1, <1>2, <1>3, <1>4, <1>5, <1>6, <1>7 DEF ClockOn

LEMMA PortInvStep ==
  ASSUME CoreInv, PortInv, [CoreNext]_coreVars
  PROVE  PortInv'
  <1>1. CASE CoreClock /\ (PreFetchRead \/ IRQ2)
    BY <1>1, ReadsAtPC
  <1>2. CASE CoreClock /\ ~(PreFetchRead \/ IRQ2)
    <2>1. ClockOn(Data, BOOLEAN)
      BY <1>2, CoreClockIsClock DEF CoreInv, Clock
    <2> QED BY <1>2, <2>1, OtherCycles DEF PortInv, PortHoldsPC
  <1>3. CASE CoreIrqFalls \/ CoreResetPin
    BY <1>3 DEF CoreIrqFalls, CoreResetPin, IrqFalls, ResetPin, datapath, PortInv,
       PortHoldsPC
  <1>4. CASE UNCHANGED coreVars
    BY <1>4 DEF coreVars, vars, datapath, PortInv, PortHoldsPC
  <1> QED BY <1>1, <1>2, <1>3, <1>4 DEF CoreNext

\* Whatever the reset pin and the interrupt pin do, and whatever the program
\* stores, the processor executes the word that is in memory at PC.
THEOREM ExecutesMemory == CoreSpec => ExecutesAtPC
  <1>1. CoreInv /\ PortInv /\ [CoreNext]_coreVars
          => [state = "Fetch" /\ fresh /\ state' # "Fetch"
                => ir' = Instruction(mem[word_addr(pc)])]_coreVars
    <2> SUFFICES ASSUME PortInv, CoreNext, state = "Fetch", fresh, state' # "Fetch"
                 PROVE  ir' = Instruction(mem[word_addr(pc)])
      OBVIOUS
    <2>1. CoreClock
      BY DEF CoreNext, CoreIrqFalls, CoreResetPin, IrqFalls, ResetPin
    <2>2. pmmu_out = storage_data_out
      BY DEF pmmu_out, mem_rd, rd_o, In, Resetting
    <2> QED
      BY <2>1, <2>2 DEF CoreClock, Datapath, Registers, Load, ir_ld, PortInv, PortHoldsPC
  <1> QED
    BY InitCoreInv, CoreInvStep, InitPortInv, PortInvStep, <1>1, PTL
    DEF CoreSpec, ExecutesAtPC
-----------------------------------------------------------------------------

(***************************************************************************)
(* The ALU and the branch decision.  Combinational_proofs has the results, *)
(* here are the bits of the core and the arithmetic of RiscvISA.           *)
(***************************************************************************)
Unit == INSTANCE Combinational_proofs

LEMMA SignBit == Sign \in Nat /\ Width = Sign + 1 /\ Bits = 0 .. Sign
  <1>1. Cardinality(0 .. (4 * ByteWidth - 1)) = 4 * ByteWidth
    BY FS_Interval, PmmuAssumption
  <1>2. Width = 4 * ByteWidth
    BY <1>1, PmmuAssumption DEF Width
  <1> QED BY <1>2, PmmuAssumption DEF Sign

\* The ALU and the branch decision are those of the instruction set.
ALUAgrees ==
  /\ \A op \in ALU_Ops, a, b \in Word :
       (op \in {SllOp, SrlOp, SraOp} => Value(b) < Width)
         => y_o(op, a, b) = ISA!Arithmetic(op, a, b)
  /\ \A funct3 \in {0, 1, 4, 5, 6, 7}, a, b \in Word :
       take_branch(funct3, flags_o(SubOp, a, b)) <=> ISA!Comparison(funct3, a, b)

\* The same definitions, so that they need only be expanded.
LEMMA SameALU ==
  /\ Unit!Width = Width /\ Unit!Word = Word /\ Unit!ALU_Ops = ALU_Ops /\ Unit!SubOp = SubOp
  /\ {Unit!SllOp, Unit!SrlOp, Unit!SraOp} = {SllOp, SrlOp, SraOp}
  /\ \A b : Unit!Value(b) = Value(b)
  /\ \A op, a, b : Unit!y_o(op, a, b) = y_o(op, a, b)
  /\ \A op, a, b : Unit!flags_o(op, a, b) = flags_o(op, a, b)
  /\ \A funct3, flags : Unit!take_branch(funct3, flags) = take_branch(funct3, flags)
  /\ \A op, a, b : ISA!Arithmetic(op, a, b) = Unit!Arithmetic(op, a, b)
  /\ \A funct3, a, b : ISA!Comparison(funct3, a, b) = Unit!Comparison(funct3, a, b)
  <1> USE DEF Unit!Cardinality, Cardinality, ISA!Cardinality, Unit!Width, Width, ISA!Width,
      Unit!Sign, Sign, ISA!Sign, Unit!Word, Word, Unit!Value, Value, ISA!Value,
      Unit!Truth, Truth, ISA!Truth
  <1> USE DEF Unit!AddOp, AddOp, Unit!SubOp, SubOp, Unit!SllOp, SllOp, Unit!SltOp, SltOp,
      Unit!SltuOp, SltuOp, Unit!XorOp, XorOp, Unit!SrlOp, SrlOp, Unit!SraOp, SraOp,
      Unit!OrOp, OrOp, Unit!AndOp, AndOp
  <1>1. /\ Unit!Width = Width /\ Unit!Word = Word /\ Unit!ALU_Ops = ALU_Ops /\ Unit!SubOp = SubOp
        /\ {Unit!SllOp, Unit!SrlOp, Unit!SraOp} = {SllOp, SrlOp, SraOp}
        /\ \A b : Unit!Value(b) = Value(b)
    BY DEF Unit!ALU_Ops, ALU_Ops
  <1> USE DEF Unit!Xor, Xor, Unit!Carry, Carry, Unit!Borrow, Borrow, Unit!Add, Add, Unit!Sub, Sub,
      Unit!Below, Below, Unit!LessSigned, LessSigned, Unit!ShiftRight, ShiftRight, Unit!sext, sext,
      Unit!y_o, y_o
  <1>2. \A op, a, b : Unit!y_o(op, a, b) = y_o(op, a, b)
    OBVIOUS
  <1>3. \A op, a, b : Unit!flags_o(op, a, b) = flags_o(op, a, b)
    BY DEF Unit!flags_o, flags_o, Unit!carry_borrow_l, carry_borrow_l, Unit!carry_borrow_h,
       carry_borrow_h
  <1>4. \A funct3, flags : Unit!take_branch(funct3, flags) = take_branch(funct3, flags)
    BY DEF Unit!take_branch, take_branch
  <1>5. \A op, a, b : ISA!Arithmetic(op, a, b) = Unit!Arithmetic(op, a, b)
    BY DEF ISA!Arithmetic, Unit!Arithmetic, ISA!WordOf, Unit!WordOf, ISA!Signed, Unit!Signed,
       ISA!Distance, Unit!Distance
  <1>6. \A funct3, a, b : ISA!Comparison(funct3, a, b) = Unit!Comparison(funct3, a, b)
    BY DEF ISA!Comparison, Unit!Comparison, ISA!Signed, Unit!Signed
  <1> QED
    BY <1>1, <1>2, <1>3, <1>4, <1>5, <1>6

LEMMA ALUIsRight == ALUAgrees
  <1>1. Unit!WordBits
    BY SignBit, SameALU DEF Unit!WordBits
  <1>2. ASSUME NEW op \in ALU_Ops, NEW a \in Word, NEW b \in Word,
               op \in {SllOp, SrlOp, SraOp} => Value(b) < Width
        PROVE  y_o(op, a, b) = ISA!Arithmetic(op, a, b)
    <2>1. Unit!y_o(op, a, b) = Unit!Arithmetic(op, a, b)
      BY <1>1, <1>2, SameALU, Unit!Operations
    <2> QED BY <2>1, SameALU
  <1>3. ASSUME NEW funct3 \in {0, 1, 4, 5, 6, 7}, NEW a \in Word, NEW b \in Word
        PROVE  take_branch(funct3, flags_o(SubOp, a, b)) <=> ISA!Comparison(funct3, a, b)
    <2>1. Unit!take_branch(funct3, Unit!flags_o(Unit!SubOp, a, b)) <=> Unit!Comparison(funct3, a, b)
      BY <1>1, SameALU, Unit!Branches
    <2> QED BY <2>1, SameALU
  <1> QED BY <1>2, <1>3 DEF ALUAgrees
-----------------------------------------------------------------------------
LEMMA AddSame == \A a, b : ISA!Add(a, b) = Add(a, b)
  BY DEF ISA!Add, Add, ISA!Xor, Xor, ISA!Carry, Carry

\* Adding to zero changes nothing: lui goes through the adder.
LEMMA AddZero == \A w \in Word : Add({}, w) = w
  BY DEF Add, Xor, Carry, Word

-----------------------------------------------------------------------------
(***************************************************************************)
(* Bytes and words.                                                        *)
(***************************************************************************)

LEMMA Offsets ==
  /\ ISA!Offset({}) = 0 /\ ISA!Offset({0}) = ByteWidth
  /\ ISA!Offset({1}) = 2 * ByteWidth /\ ISA!Offset({0, 1}) = 3 * ByteWidth
  /\ \A a : byte_position(a) = ISA!Offset(a \cap {0, 1})
  BY PmmuAssumption DEF ISA!Offset, byte_position

\* The byte at an address of the byte memory.
LEMMA ByteAt ==
  ASSUME CoreInv, arch.bytes = MemoryBytes,
         NEW a, NEW k \in SUBSET {0, 1}
  PROVE  arch.bytes[(a \cap MemBits) \cup k]
           = Slice(mem[word_addr(a)], ISA!Offset(k), ByteWidth)
  <1> DEFINE x == (a \cap MemBits) \cup k
  <1>1. x \in SUBSET (MemBits \cup {0, 1})
    OBVIOUS
  <1>2. word_addr(x) = word_addr(a) /\ x \cap {0, 1} = k
    BY PmmuAssumption DEF word_addr
  <1>3. arch.bytes[x] = Slice(mem[word_addr(x)], byte_position(x), ByteWidth)
    BY <1>1 DEF MemoryBytes
  <1> QED BY <1>2, <1>3, Offsets

LEMMA LowSizes ==
  /\ ISA!Low(0) = {} /\ ISA!Low(1) = {0} /\ ISA!Low(2) = {0, 1} /\ ISA!Low(3) = {0, 1}
  /\ ISA!Length(0) = ByteWidth /\ ISA!Length(1) = 2 * ByteWidth
  /\ ISA!Length(2) = 4 * ByteWidth /\ ISA!Length(3) = 4 * ByteWidth
  <1>1. ISA!Low(0) = {} /\ ISA!Low(1) = {0} /\ ISA!Low(2) = {0, 1} /\ ISA!Low(3) = {0, 1}
    BY DEF ISA!Low
  <1>2. /\ ISA!Length(0) = ISA!Offset({}) + ByteWidth
        /\ ISA!Length(1) = ISA!Offset({0}) + ByteWidth
        /\ ISA!Length(2) = ISA!Offset({0, 1}) + ByteWidth
        /\ ISA!Length(3) = ISA!Offset({0, 1}) + ByteWidth
    BY <1>1, Zenon DEF ISA!Length
  <1>3. \A n : n \in {0, 1, 2, 3} => n * ByteWidth \in Nat
    BY PmmuAssumption
  <1> QED BY <1>1, <1>2, Offsets, PmmuAssumption

\* The bits of a word, and the address of its bytes.
LEMMA WordBits ==
  ASSUME CoreInv, NEW a
  PROVE  mem[word_addr(a)] \subseteq 0 .. (4 * ByteWidth - 1)
  <1>1. word_addr(a) \in SUBSET MemBits
    BY DEF word_addr
  <1>2. mem[word_addr(a)] \in Word
    BY <1>1 DEF CoreInv, CoreTypeOK
  <1> QED BY <1>2, PmmuAssumption DEF Word

LEMMA Bases ==
  ASSUME NEW a
  PROVE  /\ ISA!Base(a, 0) = (a \cap MemBits) \cup (a \cap {0, 1})
         /\ ISA!Base(a, 1) = (a \cap MemBits) \cup (a \cap {1})
         /\ ISA!Base(a, 2) = a \cap MemBits /\ ISA!Base(a, 3) = a \cap MemBits
  <1>1. 0 \notin MemBits /\ 1 \notin MemBits
    BY PmmuAssumption
  <1> QED BY <1>1, LowSizes DEF ISA!Base, ISA!AddressBits

\* The bytes of a word in their places.
Placed(w, k) == {b + ISA!Offset(k) : b \in Slice(w, ISA!Offset(k), ByteWidth)}

LEMMA PlacedBits ==
  ASSUME NEW w
  PROVE  /\ Placed(w, {}) = w \cap (0 .. (ByteWidth - 1))
         /\ Placed(w, {0}) = w \cap (ByteWidth .. (2 * ByteWidth - 1))
         /\ Placed(w, {1}) = w \cap ((2 * ByteWidth) .. (3 * ByteWidth - 1))
         /\ Placed(w, {0, 1}) = w \cap ((3 * ByteWidth) .. (4 * ByteWidth - 1))
  <1> DEFINE P(n) == {b + n : b \in {c \in 0 .. (ByteWidth - 1) : c + n \in w}}
  <1>1. ASSUME NEW n \in Nat
        PROVE  P(n) = w \cap (n .. (n + ByteWidth - 1))
    <2>1. ASSUME NEW x \in w \cap (n .. (n + ByteWidth - 1))
          PROVE  x \in P(n)
      <3>1. x - n \in 0 .. (ByteWidth - 1) /\ (x - n) + n = x
        BY PmmuAssumption
      <3> QED BY <3>1
    <2>2. ASSUME NEW x \in P(n)
          PROVE  x \in w \cap (n .. (n + ByteWidth - 1))
      BY PmmuAssumption
    <2> QED BY <2>1, <2>2
  <1>2. \A k : Placed(w, k) = P(ISA!Offset(k))
    BY DEF Placed, Slice
  <1>3. /\ 0 \in Nat /\ ByteWidth \in Nat /\ 2 * ByteWidth \in Nat /\ 3 * ByteWidth \in Nat
        /\ ByteWidth + ByteWidth = 2 * ByteWidth /\ 2 * ByteWidth + ByteWidth = 3 * ByteWidth
        /\ 3 * ByteWidth + ByteWidth = 4 * ByteWidth /\ 0 + ByteWidth = ByteWidth
    BY PmmuAssumption
  <1> HIDE DEF P
  <1> QED BY <1>1, <1>2, <1>3, Offsets

\* What is read from the bytes at base and above it.
Cell(base, k)       == {b + ISA!Offset(k) : b \in arch.bytes[base \cup k]}
Gathered(base, low) == UNION {Cell(base, k) : k \in SUBSET low}

LEMMA ReadsGathered ==
  \A a, size : ISA!ReadBytes(a, size) = Gathered(ISA!Base(a, size), ISA!Low(size))
  BY DEF ISA!ReadBytes, Gathered, Cell

LEMMA GatheredBits ==
  \A base, low, x : x \in Gathered(base, low) <=> \E k \in SUBSET low : x \in Cell(base, k)
  BY DEF Gathered

LEMMA ReadsWord ==
  ASSUME CoreInv, arch.bytes = MemoryBytes, NEW a
  PROVE  /\ ISA!ReadBytes(a, 2) = mem[word_addr(a)]
         /\ ISA!ReadBytes(a, 3) = mem[word_addr(a)]
  <1> DEFINE w == mem[word_addr(a)]
             base == a \cap MemBits
             All == Gathered(base, {0, 1})
  <1>1. ISA!ReadBytes(a, 2) = All /\ ISA!ReadBytes(a, 3) = All
    BY ReadsGathered, Bases, LowSizes
  <1>2. \A k \in SUBSET {0, 1} : Cell(base, k) = Placed(w, k)
    BY ByteAt, Zenon DEF Placed, Cell
  <1>3. {} \in SUBSET {0, 1} /\ {0} \in SUBSET {0, 1} /\ {1} \in SUBSET {0, 1}
        /\ {0, 1} \in SUBSET {0, 1}
        /\ \A k \in SUBSET {0, 1} : k = {} \/ k = {0} \/ k = {1} \/ k = {0, 1}
    OBVIOUS
  <1>4. \A x : x \in All <=> \E k \in SUBSET {0, 1} : x \in Placed(w, k)
    <2> HIDE DEF base, w
    <2>1. \A x : x \in All <=> \E k \in SUBSET {0, 1} : x \in Cell(base, k)
      BY GatheredBits, Zenon
    <2> QED BY <1>2, <2>1, Zenon
  <1>5. w \subseteq 0 .. (4 * ByteWidth - 1)
    BY WordBits
  <1> HIDE DEF w, All
  <1>6. \A x : x \in All <=> \/ x \in Placed(w, {}) \/ x \in Placed(w, {0})
                             \/ x \in Placed(w, {1}) \/ x \in Placed(w, {0, 1})
    BY <1>3, <1>4, Zenon
  <1>7. ASSUME NEW x \in w
        PROVE  x \in All
    <2>1. x \in 0 .. (ByteWidth - 1) \/ x \in ByteWidth .. (2 * ByteWidth - 1)
          \/ x \in (2 * ByteWidth) .. (3 * ByteWidth - 1)
          \/ x \in (3 * ByteWidth) .. (4 * ByteWidth - 1)
      BY <1>5, PmmuAssumption
    <2> QED BY <1>6, <2>1, PlacedBits
  <1>8. ASSUME NEW x \in All
        PROVE  x \in w
    BY <1>6, PlacedBits
  <1> QED BY <1>1, <1>7, <1>8 DEF w

\* A byte or a half word is what the memory unit cuts out of the word.
LEMMA ReadsByte ==
  ASSUME CoreInv, arch.bytes = MemoryBytes, NEW a
  PROVE  ISA!ReadBytes(a, 0) = Slice(mem[word_addr(a)], byte_position(a), ByteWidth)
  <1> DEFINE byte == Slice(mem[word_addr(a)], byte_position(a), ByteWidth)
             base == (a \cap MemBits) \cup (a \cap {0, 1})
  <1>1. arch.bytes[base \cup {}] = byte
    <2>1. arch.bytes[base] = byte
      BY ByteAt, Offsets
    <2>2. base \cup {} = base
      OBVIOUS
    <2> QED BY <2>1, <2>2, Zenon
  <1>2. byte \subseteq Int
    BY PmmuAssumption DEF Slice
  <1> HIDE DEF byte
  <1>3. Cell(base, {}) = byte
    <2>1. Cell(base, {}) = {b + 0 : b \in byte}
      BY <1>1, Offsets, Zenon DEF Cell
    <2>2. \A b \in byte : b + 0 = b
      BY <1>2
    <2> QED BY <2>1, <2>2
  <1>4. ISA!ReadBytes(a, 0) = Gathered(base, {})
    BY ReadsGathered, Bases, LowSizes
  <1>5. SUBSET {} = {{}}
    OBVIOUS
  <1> HIDE DEF base
  <1>6. \A x : x \in Gathered(base, {}) <=> x \in Cell(base, {})
    BY <1>5, GatheredBits
  <1> QED BY <1>3, <1>4, <1>6 DEF byte

LEMMA ReadsHalf ==
  ASSUME CoreInv, arch.bytes = MemoryBytes, NEW a
  PROVE  ISA!ReadBytes(a, 1) = Slice(mem[word_addr(a)], halfword_position(a), 2 * ByteWidth)
  <1> DEFINE w == mem[word_addr(a)]
             first == halfword_position(a)
             base == (a \cap MemBits) \cup (a \cap {1})
  <1>1. /\ ISA!Offset((a \cap {1}) \cup {}) = first
        /\ ISA!Offset((a \cap {1}) \cup {0}) = first + ByteWidth
        /\ first \in Nat
    BY PmmuAssumption DEF ISA!Offset, halfword_position
  <1>2. /\ arch.bytes[base \cup {}] = Slice(w, first, ByteWidth)
        /\ arch.bytes[base \cup {0}] = Slice(w, first + ByteWidth, ByteWidth)
    <2>1. ASSUME NEW k \in SUBSET {0}
          PROVE  arch.bytes[base \cup k] = Slice(w, ISA!Offset((a \cap {1}) \cup k), ByteWidth)
      <3>1. (a \cap {1}) \cup k \in SUBSET {0, 1}
        OBVIOUS
      <3>2. base \cup k = (a \cap MemBits) \cup ((a \cap {1}) \cup k)
        OBVIOUS
      <3> QED BY <3>1, <3>2, ByteAt
    <2> QED BY <1>1, <2>1
  <1>3. ISA!ReadBytes(a, 1) = Gathered(base, {0})
    BY ReadsGathered, Bases, LowSizes
  <1>4. SUBSET {0} = {{}, {0}}
    OBVIOUS
  <1> HIDE DEF base, w, first
  <1>5. \A x : x \in ISA!ReadBytes(a, 1) <=> x \in Cell(base, {}) \/ x \in Cell(base, {0})
    <2>1. \A x : x \in Gathered(base, {0}) <=> \E k \in SUBSET {0} : x \in Cell(base, k)
      BY GatheredBits, Zenon
    <2>2. \A x : x \in Gathered(base, {0}) <=> x \in Cell(base, {}) \/ x \in Cell(base, {0})
      BY <1>4, <2>1, Zenon
    <2> QED BY <1>3, <2>2
  <1>6. /\ Cell(base, {}) = {b + 0 : b \in Slice(w, first, ByteWidth)}
        /\ Cell(base, {0}) = {b + ByteWidth : b \in Slice(w, first + ByteWidth, ByteWidth)}
    BY <1>2, Offsets, Zenon DEF Cell
  <1>7. \A x : x \in ISA!ReadBytes(a, 1) <=> x \in Slice(w, first, 2 * ByteWidth)
    <2>1. ASSUME NEW x \in Slice(w, first, 2 * ByteWidth)
          PROVE  x \in ISA!ReadBytes(a, 1)
      <3>1. x \in 0 .. (2 * ByteWidth - 1) /\ x + first \in w
        BY DEF Slice
      <3>2. CASE x < ByteWidth
        <4>1. x \in Slice(w, first, ByteWidth) /\ x = x + 0
          BY <3>1, <3>2, PmmuAssumption DEF Slice
        <4> QED BY <1>5, <1>6, <4>1
      <3>3. CASE x >= ByteWidth
        <4>1. x - ByteWidth \in 0 .. (ByteWidth - 1) /\ x = (x - ByteWidth) + ByteWidth
              /\ (x - ByteWidth) + (first + ByteWidth) = x + first
          BY <1>1, <3>1, <3>3, PmmuAssumption
        <4>2. x - ByteWidth \in Slice(w, first + ByteWidth, ByteWidth)
          BY <3>1, <4>1 DEF Slice
        <4> QED BY <1>5, <1>6, <4>1, <4>2
      <3> QED BY <3>1, <3>2, <3>3, PmmuAssumption
    <2>2. ASSUME NEW x \in ISA!ReadBytes(a, 1)
          PROVE  x \in Slice(w, first, 2 * ByteWidth)
      <3>1. CASE x \in Cell(base, {})
        BY <1>1, <1>6, <3>1, PmmuAssumption DEF Slice
      <3>2. CASE x \in Cell(base, {0})
        <4>1. PICK b \in 0 .. (ByteWidth - 1) : b + (first + ByteWidth) \in w /\ x = b + ByteWidth
          BY <1>6, <3>2 DEF Slice
        <4>2. x \in 0 .. (2 * ByteWidth - 1) /\ x + first = b + (first + ByteWidth)
          BY <1>1, <4>1, PmmuAssumption
        <4> QED BY <4>1, <4>2 DEF Slice
      <3> QED BY <1>5, <3>1, <3>2
    <2> QED BY <2>1, <2>2
  <1> QED BY <1>7 DEF w, first

\* What a load instruction writes to its register.
LEMMA LoadsData ==
  ASSUME CoreInv, arch.bytes = MemoryBytes, NEW a, NEW f \in 0 .. 7
  PROVE  rd_o(f, a, mem[word_addr(a)], TRUE) =
           IF f < 4 THEN ISA!Extended(ISA!ReadBytes(a, f % 4), ISA!Length(f % 4))
           ELSE ISA!ReadBytes(a, f % 4)
  <1> DEFINE w == mem[word_addr(a)]
  <1>1. f \in {0, 1, 2, 3, 4, 5, 6, 7}
    OBVIOUS
  <1>2. w \subseteq 0 .. (4 * ByteWidth - 1)
    BY WordBits
  <1>3. /\ \A part : ISA!Extended(part, ByteWidth) = SignExtend(part, ByteWidth)
        /\ \A part : ISA!Extended(part, 2 * ByteWidth) = SignExtend(part, 2 * ByteWidth)
    BY PmmuAssumption DEF ISA!Extended, SignExtend
  <1>4. ISA!Extended(w, 4 * ByteWidth) = w
    <2>1. {b \in Bits : b >= 4 * ByteWidth} = {}
      BY PmmuAssumption
    <2> QED BY <2>1, Zenon DEF ISA!Extended
  <1> HIDE DEF w
  <1>5. /\ f = 0 => rd_o(f, a, w, TRUE) = SignExtend(Slice(w, byte_position(a), ByteWidth), ByteWidth)
        /\ f = 4 => rd_o(f, a, w, TRUE) = Slice(w, byte_position(a), ByteWidth)
        /\ f = 1 => rd_o(f, a, w, TRUE) =
                      SignExtend(Slice(w, halfword_position(a), 2 * ByteWidth), 2 * ByteWidth)
        /\ f = 5 => rd_o(f, a, w, TRUE) = Slice(w, halfword_position(a), 2 * ByteWidth)
        /\ f \in {2, 3, 6, 7} => rd_o(f, a, w, TRUE) = w
    BY DEF rd_o, is_byte_size, is_halfword_size, signed_op
  <1>6. /\ f \in {0, 4} => f % 4 = 0
        /\ f \in {1, 5} => f % 4 = 1
        /\ f \in {2, 6} => f % 4 = 2
        /\ f \in {3, 7} => f % 4 = 3
        /\ f < 4 <=> f \in {0, 1, 2, 3}
    OBVIOUS
  <1>7. /\ ISA!ReadBytes(a, 0) = Slice(w, byte_position(a), ByteWidth)
        /\ ISA!ReadBytes(a, 1) = Slice(w, halfword_position(a), 2 * ByteWidth)
        /\ ISA!ReadBytes(a, 2) = w /\ ISA!ReadBytes(a, 3) = w
    BY ReadsByte, ReadsHalf, ReadsWord DEF w
  <1>8. rd_o(f, a, w, TRUE) =
           IF f < 4 THEN ISA!Extended(ISA!ReadBytes(a, f % 4), ISA!Length(f % 4))
           ELSE ISA!ReadBytes(a, f % 4)
    <2>1. CASE f = 0
      BY <1>3, <1>4, <1>5, <1>6, <1>7, <2>1, LowSizes, Zenon
    <2>2. CASE f = 1
      BY <1>3, <1>4, <1>5, <1>6, <1>7, <2>2, LowSizes, Zenon
    <2>3. CASE f = 2
      BY <1>3, <1>4, <1>5, <1>6, <1>7, <2>3, LowSizes, Zenon
    <2>4. CASE f = 3
      BY <1>3, <1>4, <1>5, <1>6, <1>7, <2>4, LowSizes, Zenon
    <2>5. CASE f = 4
      BY <1>3, <1>4, <1>5, <1>6, <1>7, <2>5, LowSizes, Zenon
    <2>6. CASE f = 5
      BY <1>3, <1>4, <1>5, <1>6, <1>7, <2>6, LowSizes, Zenon
    <2>7. CASE f = 6
      BY <1>3, <1>4, <1>5, <1>6, <1>7, <2>7, LowSizes, Zenon
    <2>8. CASE f = 7
      BY <1>3, <1>4, <1>5, <1>6, <1>7, <2>8, LowSizes, Zenon
    <2> QED BY <1>1, <2>1, <2>2, <2>3, <2>4, <2>5, <2>6, <2>7, <2>8
  <1> QED BY <1>8 DEF w

\* A bit of the merged word.
LEMMA MergeBits ==
  ASSUME NEW w, NEW part, NEW first \in Nat, NEW length \in Nat, NEW n \in Nat
  PROVE  n \in Merge(w, part, first, length)
           <=> IF n \in first .. (first + length - 1) THEN n - first \in part ELSE n \in w
  <1>1. n \in {b + first : b \in Slice(part, 0, length)}
          <=> n \in first .. (first + length - 1) /\ n - first \in part
    <2>1. ASSUME NEW b \in Slice(part, 0, length), n = b + first
          PROVE  n \in first .. (first + length - 1) /\ n - first \in part
      <3>1. b \in 0 .. (length - 1) /\ b + 0 \in part
        BY DEF Slice
      <3>2. b + 0 = b /\ n - first = b
        BY <2>1, <3>1
      <3> QED BY <3>1, <3>2, <2>1
    <2>2. ASSUME n \in first .. (first + length - 1), n - first \in part
          PROVE  n \in {b + first : b \in Slice(part, 0, length)}
      <3>1. n - first \in 0 .. (length - 1) /\ (n - first) + 0 = n - first
            /\ n = (n - first) + first
        BY <2>2
      <3>2. n - first \in Slice(part, 0, length)
        BY <2>2, <3>1 DEF Slice
      <3> QED BY <3>1, <3>2
    <2> QED BY <2>1, <2>2
  <1> QED BY <1>1 DEF Merge

\* Where a byte lies, relative to the byte or half word at a.
LEMMA BytePlaces ==
  ASSUME NEW x, NEW a, NEW b \in 0 .. (ByteWidth - 1)
  PROVE  /\ byte_position(x) \in Nat /\ b + byte_position(x) \in Nat
         /\ byte_position(a) \in Nat /\ halfword_position(a) \in Nat
         /\ x \cap {0, 1} = a \cap {0, 1} => byte_position(x) = byte_position(a)
         /\ x \cap {0, 1} # a \cap {0, 1} =>
              b + byte_position(x) \notin byte_position(a) .. (byte_position(a) + ByteWidth - 1)
         /\ x \cap {1} = a \cap {1} =>
              byte_position(x) = halfword_position(a) + ISA!Offset(x \cap {0})
         /\ x \cap {1} # a \cap {1} =>
              b + byte_position(x) \notin
                halfword_position(a) .. (halfword_position(a) + 2 * ByteWidth - 1)
         /\ ISA!Offset(x \cap {0}) \in {0, ByteWidth}
  <1>1. ByteWidth \in Nat
    BY PmmuAssumption
  <1>2. /\ byte_position(x) = (IF 0 \in x THEN ByteWidth ELSE 0) + (IF 1 \in x THEN 2 * ByteWidth ELSE 0)
        /\ byte_position(a) = (IF 0 \in a THEN ByteWidth ELSE 0) + (IF 1 \in a THEN 2 * ByteWidth ELSE 0)
        /\ ISA!Offset(x \cap {0}) = IF 0 \in x THEN ByteWidth ELSE 0
    BY <1>1 DEF byte_position, ISA!Offset
  <1>3. x \cap {0, 1} = a \cap {0, 1} <=> (0 \in x <=> 0 \in a) /\ (1 \in x <=> 1 \in a)
    OBVIOUS
  <1>4. x \cap {1} = a \cap {1} <=> (1 \in x <=> 1 \in a)
    OBVIOUS
  <1> QED BY <1>1, <1>2, <1>3, <1>4 DEF halfword_position

\* What a store puts into the byte at x.
StoredAt(x, f, wd) ==
  {b \in 0 .. (ByteWidth - 1) : b + ISA!Offset(x \cap ISA!Low(f)) \in wd}

\* The byte at x after a store at a: in words, and in bytes.
LEMMA StoredByte ==
  ASSUME NEW x, NEW a, NEW f \in {0, 1, 2}, NEW wd, NEW w,
         word_addr(x) = word_addr(a)
  PROVE  Slice(storage_data_in(f, a, wd, w), byte_position(x), ByteWidth) =
           IF (x \cap (MemBits \cup {0, 1})) \ ISA!Low(f) = ISA!Base(a, f)
           THEN StoredAt(x, f, wd)
           ELSE Slice(w, byte_position(x), ByteWidth)
  <1> DEFINE p == byte_position(x)
             q == byte_position(a)
             h == halfword_position(a)
             Here == (x \cap (MemBits \cup {0, 1})) \ ISA!Low(f) = ISA!Base(a, f)
  <1>1. ByteWidth \in Nat /\ 2 * ByteWidth \in Nat /\ 0 \notin MemBits /\ 1 \notin MemBits
    BY PmmuAssumption
  <1>2. x \cap MemBits = a \cap MemBits
    BY DEF word_addr
  <1>3. CASE f = 0
    <2>1. storage_data_in(f, a, wd, w) = Merge(w, wd, q, ByteWidth)
      <3>1. is_byte_size(f) /\ ~is_halfword_size(f)
        BY <1>3 DEF is_byte_size, is_halfword_size
      <3> QED BY <3>1, Zenon DEF storage_data_in
    <2>2. Here <=> x \cap {0, 1} = a \cap {0, 1}
      BY <1>1, <1>2, <1>3, Bases, LowSizes
    <2>3. x \cap ISA!Low(f) = {}
      BY <1>3, LowSizes
    <2>4. ASSUME NEW b \in 0 .. (ByteWidth - 1)
          PROVE  b + p \in Merge(w, wd, q, ByteWidth) <=> IF Here THEN b \in wd ELSE b + p \in w
      <3>0. /\ p \in Nat /\ q \in Nat /\ b + p \in Nat
            /\ Here => p = q
            /\ ~Here => b + p \notin q .. (q + ByteWidth - 1)
        BY <2>2, BytePlaces
      <3> HIDE DEF p, q, Here
      <3>1. b + p \in Merge(w, wd, q, ByteWidth)
              <=> IF b + p \in q .. (q + ByteWidth - 1) THEN (b + p) - q \in wd ELSE b + p \in w
        BY <1>1, <3>0, MergeBits
      <3>2. CASE Here
        <4>1. b + p \in q .. (q + ByteWidth - 1) /\ (b + p) - q = b
          BY <1>1, <3>0, <3>2
        <4> QED BY <3>1, <3>2, <4>1
      <3>3. CASE ~Here
        BY <3>0, <3>1, <3>3
      <3> QED BY <3>2, <3>3
    <2>5. \A b \in 0 .. (ByteWidth - 1) : b + ISA!Offset(x \cap ISA!Low(f)) = b
      <3>1. ISA!Offset(x \cap ISA!Low(f)) = 0
        BY <2>3, Offsets
      <3> QED BY <1>1, <3>1
    <2> HIDE DEF Here
    <2> QED BY <2>1, <2>4, <2>5 DEF Slice, Here, StoredAt
  <1>4. CASE f = 1
    <2>1. storage_data_in(f, a, wd, w) = Merge(w, wd, h, 2 * ByteWidth)
      BY <1>4 DEF storage_data_in, is_byte_size, is_halfword_size
    <2>2. Here <=> x \cap {1} = a \cap {1}
      BY <1>1, <1>2, <1>4, Bases, LowSizes
    <2>3. x \cap ISA!Low(f) = x \cap {0}
      BY <1>4, LowSizes
    <2>4. ASSUME NEW b \in 0 .. (ByteWidth - 1)
          PROVE  b + p \in Merge(w, wd, h, 2 * ByteWidth)
                   <=> IF Here THEN b + ISA!Offset(x \cap {0}) \in wd ELSE b + p \in w
      <3> DEFINE o == ISA!Offset(x \cap {0})
      <3>0. /\ p \in Nat /\ h \in Nat /\ b + p \in Nat /\ o \in {0, ByteWidth}
            /\ Here => p = h + o
            /\ ~Here => b + p \notin h .. (h + 2 * ByteWidth - 1)
        BY <2>2, BytePlaces
      <3> HIDE DEF p, h, o, Here
      <3>1. b + p \in Merge(w, wd, h, 2 * ByteWidth)
              <=> IF b + p \in h .. (h + 2 * ByteWidth - 1) THEN (b + p) - h \in wd ELSE b + p \in w
        BY <1>1, <3>0, MergeBits
      <3>2. CASE Here
        <4>1. b + p \in h .. (h + 2 * ByteWidth - 1) /\ (b + p) - h = b + o
          BY <1>1, <3>0, <3>2
        <4> QED BY <3>1, <3>2, <4>1 DEF o
      <3>3. CASE ~Here
        BY <3>0, <3>1, <3>3
      <3> QED BY <3>2, <3>3
    <2> HIDE DEF Here
    <2> QED BY <2>1, <2>3, <2>4 DEF Slice, Here, StoredAt
  <1>5. CASE f = 2
    <2>1. storage_data_in(f, a, wd, w) = wd
      BY <1>5 DEF storage_data_in, is_byte_size, is_halfword_size
    <2>2. Here
      BY <1>1, <1>2, <1>5, Bases, LowSizes
    <2>3. ISA!Offset(x \cap ISA!Low(f)) = p
      BY <1>5, LowSizes, Offsets
    <2> QED BY <2>1, <2>2, <2>3 DEF Slice, StoredAt
  <1> QED BY <1>3, <1>4, <1>5

\* A store into the word at the RAM's port is a store of bytes.
LEMMA StoresData ==
  ASSUME CoreInv, arch.bytes = MemoryBytes,
         NEW a, NEW f \in {0, 1, 2}, NEW wd,
         mem' = [mem EXCEPT ![word_addr(a)] = storage_data_in(f, a, wd, mem[word_addr(a)])]
  PROVE  MemoryBytes' = ISA!WriteBytes(a, f, wd)
  <1> DEFINE Addresses == SUBSET (MemBits \cup {0, 1})
             stored == storage_data_in(f, a, wd, mem[word_addr(a)])
  <1>1. MemoryBytes' = [x \in Addresses |-> Slice(mem'[word_addr(x)], byte_position(x), ByteWidth)]
    BY DEF MemoryBytes
  <1>2. ISA!WriteBytes(a, f, wd) =
          [x \in Addresses |->
             IF x \ ISA!Low(f) = ISA!Base(a, f)
             THEN StoredAt(x, f, wd)
             ELSE arch.bytes[x]]
    BY DEF ISA!WriteBytes, ISA!AddressBits, StoredAt
  <1>3. ASSUME NEW x \in Addresses
        PROVE  Slice(mem'[word_addr(x)], byte_position(x), ByteWidth) =
                 IF x \ ISA!Low(f) = ISA!Base(a, f)
                 THEN StoredAt(x, f, wd)
                 ELSE arch.bytes[x]
    <2>1. arch.bytes[x] = Slice(mem[word_addr(x)], byte_position(x), ByteWidth)
      BY DEF MemoryBytes
    <2>2. word_addr(x) \in SUBSET MemBits /\ word_addr(a) \in SUBSET MemBits
      BY DEF word_addr
    <2>3. mem'[word_addr(x)] = IF word_addr(x) = word_addr(a) THEN stored ELSE mem[word_addr(x)]
      BY <2>2 DEF CoreInv, CoreTypeOK
    <2>4. x \cap (MemBits \cup {0, 1}) = x
      OBVIOUS
    <2>5. CASE word_addr(x) = word_addr(a)
      <3>1. mem'[word_addr(x)] = stored
        BY <2>3, <2>5
      <3>2. Slice(stored, byte_position(x), ByteWidth) =
              IF (x \cap (MemBits \cup {0, 1})) \ ISA!Low(f) = ISA!Base(a, f)
              THEN StoredAt(x, f, wd)
              ELSE Slice(mem[word_addr(a)], byte_position(x), ByteWidth)
        BY <2>5, StoredByte
      <3> HIDE DEF stored
      <3> QED BY <2>1, <2>4, <2>5, <3>1, <3>2, Zenon
    <2>6. CASE word_addr(x) # word_addr(a)
      <3>1. (x \ ISA!Low(f)) \cap MemBits = word_addr(x) /\ ISA!Base(a, f) \cap MemBits = word_addr(a)
        BY Bases, LowSizes, PmmuAssumption DEF word_addr
      <3> QED BY <2>1, <2>3, <2>6, <3>1
    <2> QED BY <2>5, <2>6
  <1> HIDE DEF Addresses
  <1> QED BY <1>1, <1>2, <1>3
-----------------------------------------------------------------------------
\* One period of the clock, and what is known before it.
Cycle ==
  /\ CoreInv /\ PortInv /\ InFlight /\ Conforming /\ ALUAgrees
  /\ CoreClock
  /\ arch' = IF Retired' THEN View(TRUE)' ELSE arch

LEMMA Frames ==
  ASSUME CoreInv, Conforming, CoreClock
  PROVE  /\ ~In({"STMemWrt"}) => mem' = mem /\ MemoryBytes' = MemoryBytes
         /\ ~In({"STMemAcc", "STMemWrt"}) => io' = io
         /\ ~rg_wr => bank' = bank
         /\ rg_wr => bank' = IF ir.rd = X0 THEN bank ELSE [bank EXCEPT ![ir.rd] = wd_src_out]
         /\ reset_i' = reset_i
  <1>1. ~In({"STMemWrt"}) => mem' = mem
    BY DEF CoreClock, Datapath, Memory, mem_wr
  <1>2. mem' = mem => MemoryBytes' = MemoryBytes
    BY DEF MemoryBytes
  <1>3. ASSUME ~In({"STMemAcc", "STMemWrt"})
        PROVE  io' = io
    <2>1. io_wr /\ io_addr \in Ports => io[io_addr] = Slice(rsb, 0, ByteWidth)
      BY <1>3 DEF Conforming
    <2>2. io' = [p \in Ports |-> IF io_wr /\ io_addr = p THEN Slice(rsb, 0, ByteWidth) ELSE io[p]]
      BY DEF CoreClock, Datapath, OutputPorts
    <2>3. io = [p \in Ports |-> io[p]]
      BY DEF CoreInv, CoreTypeOK
    <2>4. \A p \in Ports : (IF io_wr /\ io_addr = p THEN Slice(rsb, 0, ByteWidth) ELSE io[p]) = io[p]
      BY <2>1
    <2> QED BY <2>2, <2>3, <2>4
  <1>4. /\ ~rg_wr => bank' = bank
        /\ rg_wr => bank' = IF ir.rd = X0 THEN bank ELSE [bank EXCEPT ![ir.rd] = wd_src_out]
    BY DEF CoreClock, Datapath, RegisterFile
  <1>5. reset_i' = reset_i
    BY DEF CoreClock, ClockOn
  <1> QED BY <1>1, <1>2, <1>3, <1>4, <1>5

\* The view of the last instruction is kept until the next one retires.
LEMMA KeptView ==
  ASSUME arch' = arch
  PROVE  /\ ISA!Current' = ISA!Current
         /\ ISA!InterruptDue' <=> ISA!InterruptDue
         /\ \A r : ISA!Read(r)' = ISA!Read(r)
         /\ UNCHANGED ISA!isaVars
  <1>1. ISA!Current' = ISA!Current
    BY DEF ISA!Current, ISA!ReadBytes
  <1>2. ISA!InterruptDue' <=> ISA!InterruptDue
    BY DEF ISA!InterruptDue
  <1>3. \A r : ISA!Read(r)' = ISA!Read(r)
    BY DEF ISA!Read
  <1> QED BY <1>1, <1>2, <1>3 DEF ISA!isaVars

LEMMA NewView ==
  ASSUME arch' = View(TRUE)'
  PROVE  /\ arch'.running = TRUE /\ arch'.pc = pc' /\ arch'.bank = bank'
         /\ arch'.bytes = MemoryBytes' /\ arch'.io = io'
         /\ arch'.mstatus = mstatus' /\ arch'.mie = mie' /\ arch'.mip = mip'
         /\ arch'.mepc = mepc' /\ arch'.mtvec = mtvec'
         /\ arch'.in_handler = interrupt_in_progress'
  BY DEF View

\* Where an instruction retires or a handler begins, nothing is in flight.
LEMMA NothingInFlight ==
  ASSUME state' \in {"PreFetch", "IRQ2"}, arch' = View(TRUE)', reset_i',
         state' = "IRQ2" => interrupt_in_progress'
  PROVE  InFlight'
  <1>1. mip' \in ISA!Pend(mip')
    BY DEF ISA!Pend
  <1> USE NewView, <1>1
  <1>2. ArchHeld' /\ ResetHeld' /\ BetweenHeld'
    BY DEF ArchHeld, ResetHeld, BetweenHeld, Resetting, In
  <1>3. InstructionHeld'
    BY DEF InstructionHeld, In
  <1>4. OperandsHeld' /\ ResultsHeld' /\ CSRHeld'
    BY DEF OperandsHeld, ResultsHeld, CSRHeld
  <1> QED BY <1>2, <1>3, <1>4 DEF InFlight

LEMMA OutsideExecute ==
  ASSUME Cycle, state # "Execute"
  PROVE  /\ mem' = mem /\ MemoryBytes' = arch.bytes /\ io' = arch.io /\ bank' = arch.bank
         /\ reset_i' = reset_i /\ io = arch.io /\ bank = arch.bank
  <1>1. ~rg_wr /\ ~In({"STMemWrt"}) /\ ~In({"STMemAcc", "STMemWrt"}) /\ ~In({"ITCSRLd"})
    BY DEF rg_wr, In
  <1> QED BY <1>1, Frames DEF Cycle, InFlight, ArchHeld

\* The parts of the invariant that concern instructions in execution only.
LEMMA NotExecuting ==
  ASSUME state' # "Execute"
  PROVE  /\ OperandsHeld' /\ ResultsHeld' /\ CSRHeld'
         /\ state' # "Decode" => InstructionHeld'
  BY DEF OperandsHeld, ResultsHeld, CSRHeld, InstructionHeld, In
-----------------------------------------------------------------------------
(***************************************************************************)
(* The reset.                                                              *)
(***************************************************************************)

\* A latched edge sets the pending bit and nothing else.
LEMMA LatchPends ==
  ASSUME NEW value, NEW old, value \in ISA!Pend(old), LatchMip(value)
  PROVE  mip' \in ISA!Pend(old)
  BY DEF LatchMip, ISA!Pend

LEMMA ResetCycle ==
  ASSUME Cycle, Sync0 \/ Vector0 \/ Vector1 \/ Vector2
  PROVE  InFlight' /\ arch' = arch
  <1>1. state = "Reset" /\ state' = "Reset" /\ ir_state' = ir_state
    BY DEF Sync0, Vector0, Vector1, Vector2, Resetting, VectorSequence
  <1>2. arch' = arch
    BY <1>1 DEF Cycle, Retired
  <1>3. /\ mem' = mem /\ MemoryBytes' = arch.bytes /\ io' = arch.io /\ bank' = arch.bank
        /\ reset_i' = reset_i
    BY <1>1, OutsideExecute
  <1>4. ArchHeld /\ ResetHeld
    BY DEF Cycle, InFlight
  <1>5. mstatus' = mstatus /\ mtvec' = mtvec /\ mepc' = mepc
    BY DEF Sync0, Vector0, Vector1, Vector2, Quiet
  <1>6. interrupt_in_progress' = FALSE /\ arch.in_handler = FALSE
    BY <1>1, <1>4 DEF Sync0, Vector0, Vector1, Vector2, Quiet, irqs, ArchHeld, ResetHeld,
       CoreInv, CoreTypeOK, TypeOK, Cycle
  <1>7. ~reset_i => Sync0 /\ vector_state' = "Sync0"
    BY <1>4 DEF Sync0, Vector0, Vector1, Vector2, VectorSequence, ArchHeld, Resetting
  <1>8. ArchHeld'
    BY <1>1, <1>2, <1>3, <1>4, <1>5, <1>6, <1>7 DEF ArchHeld, ResetHeld, Resetting, In
  <1>9. ResetHeld'
    <2>1. CASE Sync0
      <3>1. mip' \in ISA!Pend(arch.mip)
        BY <1>1, <1>4, <2>1, LatchPends DEF Sync0, Quiet, ResetHeld, Resetting
      <3>2. vector_state' \in {"Sync0", "Vector0"}
        BY <2>1 DEF Sync0, VectorSequence
      <3> QED BY <1>2, <1>4, <1>1, <3>1, <3>2 DEF ResetHeld
    <2>2. CASE Vector0
      <3>1. mip \ {MEI} \in ISA!Pend(arch.mip \ {MEI})
        BY <1>1, <1>4, <2>2 DEF Vector0, ResetHeld, Resetting, ISA!Pend
      <3>2. mip' \in ISA!Pend(arch.mip \ {MEI}) /\ mie' = {} /\ pc' = ResetVector
        BY <2>2, <3>1, LatchPends DEF Vector0
      <3>3. vector_state' = "Vector1"
        BY <1>7, <2>2 DEF Vector0, Sync0, VectorSequence, Resetting
      <3> QED BY <1>2, <1>4, <1>1, <3>2, <3>3 DEF ResetHeld
    <2>3. CASE Vector1
      <3>1. /\ mip \in ISA!Pend(arch.mip \ {MEI}) /\ mie = {} /\ pc = ResetVector
        BY <1>1, <1>4, <2>3 DEF Vector1, ResetHeld, Resetting
      <3>2. mip' \in ISA!Pend(arch.mip \ {MEI}) /\ mie' = {} /\ pc' = ResetVector
        BY <2>3, <3>1, LatchPends DEF Vector1
      <3>3. vector_state' = "Vector2"
        BY <1>7, <2>3 DEF Vector1, Sync0, VectorSequence, Resetting
      <3>4. storage_data_out' = mem[word_addr(ResetVector)]
        BY <2>3, <3>1 DEF Cycle, CoreClock, Datapath, Memory, Load, mem_rd, Vector1,
           addr_mux_to_pmmu, addr_src, In, Resetting
      <3> QED BY <1>2, <1>3, <1>4, <1>1, <3>2, <3>3, <3>4 DEF ResetHeld
    <2>4. CASE Vector2
      <3>1. /\ mip \in ISA!Pend(arch.mip \ {MEI}) /\ mie = {}
            /\ storage_data_out = mem[word_addr(ResetVector)]
        BY <1>1, <1>4, <2>4 DEF Vector2, ResetHeld, Resetting
      <3>2. mip' \in ISA!Pend(arch.mip \ {MEI}) /\ mie' = {}
        BY <2>4, <3>1, LatchPends DEF Vector2
      <3>3. vector_state' = "Vector3"
        BY <1>7, <2>4 DEF Vector2, Sync0, VectorSequence, Resetting
      <3>4. rst_src_out = 2 /\ Resetting("Vector2")
        BY <1>1, <2>4 DEF rst_src_out, WORD_SIZE, Vector2
      <3>5. pmmu_out = storage_data_out
        BY <3>4 DEF pmmu_out, rd_o, is_byte_size, is_halfword_size
      <3>6. pc' = pmmu_out
        BY <3>4 DEF Cycle, CoreClock, Datapath, Registers, Load, pc_ld, pc_src_out, Resetting, In
      <3> QED BY <1>2, <1>3, <1>4, <1>1, <3>1, <3>2, <3>3, <3>5, <3>6 DEF ResetHeld
    <2> QED BY <2>1, <2>2, <2>3, <2>4
  <1>10. BetweenHeld'
    BY <1>1 DEF BetweenHeld
  <1> QED BY <1>1, <1>2, <1>8, <1>9, <1>10, NotExecuting DEF InFlight

LEMMA StartCycle ==
  ASSUME Cycle, Vector3
  PROVE  InFlight' /\ ISA!Start
  <1>1. ArchHeld /\ ResetHeld /\ Resetting("Vector3")
    BY DEF Cycle, InFlight, Vector3
  <1>2. reset_i /\ state' = "PreFetch"
    BY <1>1 DEF ArchHeld, Vector3, Sequence, Resetting
  <1>3. arch' = View(TRUE)'
    BY <1>2 DEF Cycle, Retired
  <1>4. /\ MemoryBytes' = arch.bytes /\ io' = arch.io /\ bank' = arch.bank
        /\ reset_i' = reset_i
    BY <1>1, OutsideExecute DEF Resetting
  <1>5. InFlight'
    BY <1>2, <1>3, <1>4, NothingInFlight
  <1>6. /\ ~arch.running /\ ~arch.in_handler /\ mie = {} /\ mip \in ISA!Pend(arch.mip \ {MEI})
        /\ pc = mem[word_addr(ResetVector)]
        /\ mstatus = arch.mstatus /\ mepc = arch.mepc /\ mtvec = arch.mtvec
        /\ interrupt_in_progress = arch.in_handler
    BY <1>1 DEF ArchHeld, ResetHeld, Resetting
  <1>7. /\ mip' \in ISA!Pend(arch.mip \ {MEI})
        /\ UNCHANGED <<mstatus, mie, mepc, mtvec, pc, interrupt_in_progress>>
    BY <1>6, LatchPends DEF Vector3, Quiet, irqs
  <1>8. pc = ISA!ReadBytes(ResetVector, 2)
    BY <1>1, <1>6, ReadsWord DEF Cycle, ArchHeld
  <1>9. interrupt_in_progress \in BOOLEAN
    BY DEF Cycle, CoreInv, CoreTypeOK, TypeOK
  <1> QED
    BY <1>3, <1>4, <1>5, <1>6, <1>7, <1>8, <1>9, NewView DEF ISA!Start, ISA!NoStore
-----------------------------------------------------------------------------
(***************************************************************************)
(* Between two instructions.                                               *)
(***************************************************************************)

\* Out of reset the closing edge goes where the sequencer says.
LEMMA Sequences ==
  ASSUME InFlight, state # "Reset", NEW s, NEW i, Sequence(s, i)
  PROVE  reset_i /\ state' = s /\ ir_state' = i
  BY DEF InFlight, ArchHeld, Resetting, Sequence

\* A step inside an instruction or between two that writes no CSR.
LEMMA HoldsQuietly ==
  ASSUME Cycle, state # "Reset", state' \notin {"Reset", "PreFetch", "IRQ2", "IRQ1"},
         ~In({"ITCSRLd"}), ~In({"ITCSRLd"})', ~In({"STMemAcc", "STMemWrt"}), ~rg_wr, Quiet,
         state \notin {"IRQ0", "IRQ1"}
  PROVE  /\ arch' = arch /\ ArchHeld' /\ ResetHeld' /\ mip' \in ISA!Pend(arch.mip)
         /\ mem' = mem /\ io' = io /\ bank' = bank
  <1>1. arch' = arch
    BY DEF Cycle, Retired
  <1>2. ArchHeld /\ reset_i
    BY DEF Cycle, InFlight, ArchHeld, Resetting
  <1>3. /\ mem' = mem /\ MemoryBytes' = MemoryBytes /\ io' = io /\ bank' = bank
        /\ reset_i' = reset_i
    BY Frames DEF Cycle, In
  <1>4. UNCHANGED <<mstatus, mie, mepc, mtvec, interrupt_in_progress>>
    BY DEF Quiet, irqs
  <1>5. mip \in ISA!Pend(arch.mip)
    BY DEF Cycle, InFlight, BetweenHeld, CSRHeld, In
  <1>6. mip' \in ISA!Pend(arch.mip)
    BY <1>5, LatchPends DEF Quiet
  <1>7. ArchHeld'
    BY <1>1, <1>2, <1>3, <1>4 DEF ArchHeld, Resetting, In
  <1> QED BY <1>1, <1>3, <1>6, <1>7 DEF ResetHeld

LEMMA FetchBegins ==
  ASSUME Cycle, PreFetchRead \/ IRQ2
  PROVE  InFlight' /\ arch' = arch
  <1>1. state \in {"PreFetch", "IRQ2"} /\ Quiet /\ fresh' = TRUE /\ pc' = pc
    BY DEF PreFetchRead, IRQ2
  <1>2. state' = "Fetch"
    BY <1>1, Sequences DEF PreFetchRead, IRQ2, Cycle
  <1>3. /\ arch' = arch /\ ArchHeld' /\ ResetHeld' /\ mip' \in ISA!Pend(arch.mip)
    <2>1. ~In({"ITCSRLd"}) /\ ~In({"ITCSRLd"})' /\ ~In({"STMemAcc", "STMemWrt"}) /\ ~rg_wr
      BY <1>1, <1>2 DEF In, rg_wr
    <2> QED BY <1>1, <1>2, <2>1, HoldsQuietly
  <1>4. pc = arch.pc
    BY <1>1 DEF Cycle, InFlight, BetweenHeld
  <1>5. ~ISA!InterruptDue
    <2>1. CASE PreFetchRead
      <3>1. ~InterruptTaken /\ state = "PreFetch"
        BY <2>1 DEF PreFetchRead
      <3>2. mip = arch.mip /\ mie = arch.mie /\ mstatus = arch.mstatus
            /\ interrupt_in_progress = arch.in_handler
        BY <3>1 DEF Cycle, InFlight, BetweenHeld, ArchHeld
      <3> QED BY <3>1, <3>2 DEF InterruptTaken, irq_pending, ISA!InterruptDue
    <2>2. CASE IRQ2
      BY <2>2 DEF IRQ2, Cycle, InFlight, BetweenHeld, ArchHeld, ISA!InterruptDue
    <2> QED BY <2>1, <2>2
  <1>6. BetweenHeld'
    BY <1>1, <1>2, <1>3, <1>4, <1>5, KeptView DEF BetweenHeld
  <1> QED BY <1>2, <1>3, <1>6, NotExecuting DEF InFlight

LEMMA EntryBegins ==
  ASSUME Cycle, PreFetchInterrupt
  PROVE  InFlight' /\ arch' = arch
  <1>1. state = "PreFetch" /\ InterruptTaken /\ interrupt_in_progress' = TRUE /\ pc' = pc
    BY DEF PreFetchInterrupt
  <1>2. state' = "IRQ0" /\ reset_i
    BY <1>1, Sequences DEF PreFetchInterrupt, Cycle
  <1>3. arch' = arch
    BY <1>2 DEF Cycle, Retired
  <1>4. /\ MemoryBytes' = arch.bytes /\ io' = arch.io /\ bank' = arch.bank /\ reset_i' = reset_i
    BY <1>1, OutsideExecute
  <1>5. /\ mip = arch.mip /\ pc = arch.pc
        /\ arch.running /\ mie = arch.mie /\ mstatus = arch.mstatus /\ mepc = arch.mepc
        /\ mtvec = arch.mtvec /\ interrupt_in_progress = arch.in_handler
    BY <1>1 DEF Cycle, InFlight, BetweenHeld, ArchHeld
  <1>6. ISA!InterruptDue
    BY <1>1, <1>5 DEF InterruptTaken, irq_pending, ISA!InterruptDue
  <1>7. mip' \in ISA!Pend(arch.mip) /\ UNCHANGED <<mstatus, mie, mepc, mtvec>>
    BY <1>5, LatchPends DEF PreFetchInterrupt, ISA!Pend
  <1>8. ArchHeld' /\ ResetHeld'
    BY <1>2, <1>3, <1>4, <1>5, <1>7 DEF ArchHeld, ResetHeld, In
  <1>9. BetweenHeld'
    BY <1>1, <1>2, <1>3, <1>5, <1>6, <1>7, KeptView DEF BetweenHeld
  <1> QED BY <1>2, <1>3, <1>8, <1>9, NotExecuting DEF InFlight

\* mepc is written while the entry is under way.
LEMMA EntrySaves ==
  ASSUME Cycle, IRQ0
  PROVE  InFlight' /\ arch' = arch
  <1>1. state = "IRQ0" /\ pc' = pc /\ interrupt_in_progress' = interrupt_in_progress
    BY DEF IRQ0
  <1>2. state' = "IRQ1" /\ reset_i
    BY <1>1, Sequences DEF IRQ0, Cycle
  <1>3. arch' = arch
    BY <1>2 DEF Cycle, Retired
  <1>4. /\ MemoryBytes' = arch.bytes /\ io' = arch.io /\ bank' = arch.bank /\ reset_i' = reset_i
    BY <1>1, OutsideExecute
  <1>5. /\ mip \in ISA!Pend(arch.mip) /\ pc = arch.pc /\ interrupt_in_progress
        /\ arch.running /\ mie = arch.mie /\ mstatus = arch.mstatus
        /\ mtvec = arch.mtvec /\ ISA!InterruptDue
    BY <1>1 DEF Cycle, InFlight, BetweenHeld, ArchHeld
  <1>6. LatchMip(mip) /\ mepc' = pc /\ UNCHANGED <<mstatus, mie, mtvec>>
    BY DEF IRQ0, WriteCSR
  <1>7. mip' \in ISA!Pend(arch.mip)
    BY <1>5, <1>6, LatchPends
  <1>8. ArchHeld' /\ ResetHeld'
    BY <1>2, <1>3, <1>4, <1>5, <1>6, <1>7 DEF ArchHeld, ResetHeld, In
  <1>9. BetweenHeld'
    BY <1>1, <1>2, <1>3, <1>5, <1>6, <1>7, KeptView DEF BetweenHeld
  <1> QED BY <1>2, <1>3, <1>8, <1>9, NotExecuting DEF InFlight

LEMMA EntryTaken ==
  ASSUME Cycle, IRQ1
  PROVE  InFlight' /\ ISA!Interrupt
  <1>1. state = "IRQ1" /\ pc' = mtvec /\ interrupt_in_progress' = interrupt_in_progress
        /\ LatchMip(mip \ {MEI}) /\ UNCHANGED <<mstatus, mie, mepc, mtvec>>
    BY DEF IRQ1
  <1>2. state' = "IRQ2" /\ reset_i
    BY <1>1, Sequences DEF IRQ1, Cycle
  <1>3. arch' = View(TRUE)'
    BY <1>2 DEF Cycle, Retired
  <1>4. /\ MemoryBytes' = arch.bytes /\ io' = arch.io /\ bank' = arch.bank /\ reset_i' = reset_i
    BY <1>1, OutsideExecute
  <1>5. /\ mip \in ISA!Pend(arch.mip) /\ pc = arch.pc /\ interrupt_in_progress /\ mepc = pc
        /\ arch.running /\ mie = arch.mie /\ mstatus = arch.mstatus
        /\ mtvec = arch.mtvec /\ ISA!InterruptDue
    BY <1>1 DEF Cycle, InFlight, BetweenHeld, ArchHeld
  <1>6. interrupt_in_progress = TRUE
    BY <1>5 DEF Cycle, CoreInv, CoreTypeOK, TypeOK
  <1>7. mip' \in ISA!Pend(arch.mip \ {MEI})
    <2>1. mip \ {MEI} \in ISA!Pend(arch.mip \ {MEI})
      BY <1>5 DEF ISA!Pend
    <2> QED BY <1>1, <2>1, LatchPends
  <1>8. InFlight'
    BY <1>1, <1>2, <1>3, <1>4, <1>6, NothingInFlight
  <1>9. arch.running = TRUE
    BY <1>1, <1>5 DEF Cycle, InFlight, ArchHeld
  <1> QED
    BY <1>1, <1>3, <1>4, <1>5, <1>6, <1>7, <1>8, NewView DEF ISA!Interrupt, ISA!NoStore
-----------------------------------------------------------------------------
(***************************************************************************)
(* Fetch and decode.                                                       *)
(***************************************************************************)

\* All but the shifters' and the comparisons' results are known as they stand.
LEMMA AddResult == \A a, b : y_o(AddOp, a, b) = Add(a, b)
  BY DEF y_o, AddOp, SubOp, SllOp, SltOp, SltuOp, XorOp, SrlOp, SraOp, OrOp, AndOp

LEMMA FetchCycle ==
  ASSUME Cycle, Fetch
  PROVE  InFlight' /\ arch' = arch
  <1>1. state = "Fetch" /\ Quiet /\ pc' = pc
    BY DEF Fetch
  <1>2. state' = "Decode" /\ ir_state' = "ITLoad"
    BY <1>1, Sequences DEF Fetch, Cycle
  <1>3. arch' = arch /\ ArchHeld' /\ ResetHeld' /\ mip' \in ISA!Pend(arch.mip)
    <2>1. ~In({"ITCSRLd"}) /\ ~In({"ITCSRLd"})' /\ ~In({"STMemAcc", "STMemWrt"}) /\ ~rg_wr
      BY <1>1, <1>2 DEF In, rg_wr
    <2> QED BY <1>1, <1>2, <2>1, HoldsQuietly
  <1>4. fresh /\ pc = arch.pc /\ ~ISA!InterruptDue /\ arch.bytes = MemoryBytes
    BY <1>1 DEF Cycle, InFlight, BetweenHeld, ArchHeld
  <1>5. pmmu_out = mem[word_addr(pc)]
    <2>1. pmmu_out = storage_data_out
      BY <1>1 DEF pmmu_out, mem_rd, rd_o, In, Resetting
    <2> QED BY <1>1, <1>4, <2>1 DEF Cycle, PortInv, PortHoldsPC
  <1>6. ir' = Instruction(mem[word_addr(pc)]) /\ pc_prior' = pc
    BY <1>1, <1>5 DEF Cycle, CoreClock, Datapath, Registers, Load, ir_ld, pcp_ld
  <1>7. ir' = ISA!Current
    BY <1>4, <1>6, ReadsWord DEF Cycle, ISA!Current
  <1>8. BetweenHeld'
    BY <1>1, <1>2, <1>3, <1>4, KeptView DEF BetweenHeld
  <1>9. InstructionHeld'
    BY <1>2, <1>3, <1>4, <1>6, <1>7, KeptView DEF InstructionHeld, In
  <1> QED BY <1>2, <1>3, <1>8, <1>9, NotExecuting DEF InFlight

\* The cycle that a legal instruction begins with.
LEMMA DecodedLegal ==
  ASSUME LegalInstruction(ir)
  PROVE  \/ Decoded = "RType"    /\ ir.opcode = "RTYPE"
         \/ Decoded = "ITALU"    /\ ir.opcode = "ITYPE"
         \/ Decoded = "ITLoad"   /\ ir.opcode = "ITYPE_L"
         \/ Decoded = "ITJalr"   /\ ir.opcode = "ITYPE_J"
         \/ Decoded = "STStore"  /\ ir.opcode = "STYPE"
         \/ Decoded = "BType"    /\ ir.opcode = "BTYPE"
         \/ Decoded = "JTJal"    /\ ir.opcode = "JTYPE"
         \/ Decoded = "UType"    /\ ir.opcode = "UTYPE_L"
         \/ Decoded = "UTypeAui" /\ ir.opcode = "UTYPE_A"
         \/ Decoded = "ITCSR"    /\ ir.opcode = "ITYPE_E" /\ ir.funct3 # 0
         \/ Decoded = "ITMret"   /\ ir.opcode = "ITYPE_E" /\ ir.funct3 = 0 /\ ir.funct12 = "mret"
         \/ Decoded \in {"ITEbreak", "ITECall"}
  BY DEF LegalInstruction, Decoded, is_csr_instr

LEMMA DecodeCycle ==
  ASSUME Cycle, Decode
  PROVE  InFlight' /\ arch' = arch
  <1>1. state = "Decode" /\ Quiet /\ ir' = ir
    BY DEF Decode
  <1>2. state' = "Execute" /\ ir_state' = Decoded
    BY <1>1, Sequences DEF Decode, Cycle
  <1>3. LegalInstruction(ir)
    BY <1>1 DEF Cycle, Conforming
  <1>4. /\ arch' = arch /\ ArchHeld' /\ ResetHeld' /\ mip' \in ISA!Pend(arch.mip)
        /\ mepc' = mepc
    <2>1. ~In({"ITCSRLd"}) /\ ~In({"ITCSRLd"})' /\ ~In({"STMemAcc", "STMemWrt"}) /\ ~rg_wr
      BY <1>1, <1>2, <1>3, DecodedLegal DEF In, rg_wr
    <2> QED BY <1>1, <1>2, <2>1, HoldsQuietly DEF Quiet
  <1>5. /\ pc = arch.pc /\ ~ISA!InterruptDue /\ bank = arch.bank
        /\ ir = ISA!Current /\ pc_prior = arch.pc /\ ir_state = "ITLoad"
    BY <1>1 DEF Cycle, InFlight, BetweenHeld, ArchHeld, InstructionHeld, In
  <1>6. /\ pc' = alu_imm_out /\ pc_prior' = pc_prior
        /\ rsa' = ReadRegister(ir.rs1) /\ rsb' = ReadRegister(ir.rs2)
    BY <1>1 DEF Cycle, CoreClock, Datapath, Registers, Load, pc_ld, pcp_ld, pc_src_out, rsa_ld,
       In, Resetting
  <1>7. alu_imm_out = Add(pc, SrcFour)
    BY <1>1, <1>5, AddResult DEF alu_imm_out, alu_op, a_mux_out, b_mux_out, In
  <1>8. BetweenHeld'
    BY <1>2, <1>4, <1>5, KeptView DEF BetweenHeld
  <1>9. InstructionHeld'
    BY <1>1, <1>2, <1>3, <1>4, <1>5, <1>6, KeptView, DecodedLegal DEF InstructionHeld, In
  <1>10. rsa' = ISA!Read(ir.rs1) /\ rsb' = ISA!Read(ir.rs2)
    BY <1>5, <1>6 DEF ReadRegister, ISA!Read
  <1>11. OperandsHeld' /\ ResultsHeld' /\ CSRHeld'
    BY <1>1, <1>2, <1>3, <1>4, <1>5, <1>6, <1>7, <1>10, KeptView, DecodedLegal
    DEF OperandsHeld, ResultsHeld, CSRHeld, ReturnCycles, AddressedCycles
  <1> QED BY <1>4, <1>8, <1>9, <1>11 DEF InFlight

\* Nothing follows ebreak.
LEMMA HaltCycle ==
  ASSUME Cycle, Halt
  PROVE  InFlight' /\ arch' = arch
  <1>1. state = "Halt" /\ Quiet
    BY DEF Halt, Compute
  <1>2. state' = "Halt"
    BY <1>1, Sequences DEF Halt, Cycle
  <1>3. arch' = arch /\ ArchHeld' /\ ResetHeld' /\ mip' \in ISA!Pend(arch.mip)
    <2>1. ~In({"ITCSRLd"}) /\ ~In({"ITCSRLd"})' /\ ~In({"STMemAcc", "STMemWrt"}) /\ ~rg_wr
      BY <1>1, <1>2 DEF In, rg_wr
    <2> QED BY <1>1, <1>2, <2>1, HoldsQuietly
  <1>4. BetweenHeld'
    BY <1>2, <1>3 DEF BetweenHeld
  <1> QED BY <1>2, <1>3, <1>4, NotExecuting DEF InFlight
-----------------------------------------------------------------------------
(***************************************************************************)
(* The cycles within an instruction.                                       *)
(***************************************************************************)

\* What every cycle of an instruction finds.
LEMMA InExecution ==
  ASSUME Cycle, state = "Execute"
  PROVE  /\ reset_i /\ reset_i' = reset_i /\ arch.running /\ ~ISA!InterruptDue
         /\ arch.bytes = MemoryBytes /\ LegalInstruction(ir)
         /\ ir = ISA!Current /\ pc_prior = arch.pc
         /\ mstatus = arch.mstatus /\ mtvec = arch.mtvec /\ mie = arch.mie /\ mepc = arch.mepc
         /\ interrupt_in_progress = arch.in_handler
         /\ ir_state # "ITCSRLd" =>
              bank = arch.bank /\ mip \in ISA!Pend(arch.mip) /\ rsb = ISA!Read(ir.rs2)
         /\ rsa = ISA!Read(ir.rs1)
         /\ ir_state # "STMemWrt" => io = arch.io
  <1>1. ArchHeld /\ BetweenHeld /\ InstructionHeld /\ OperandsHeld /\ CSRHeld
    BY DEF Cycle, InFlight
  <1>2. reset_i' = reset_i
    BY DEF Cycle, CoreClock, ClockOn
  <1> QED
    BY <1>1, <1>2 DEF ArchHeld, BetweenHeld, InstructionHeld, OperandsHeld, CSRHeld, In, Resetting

\* A cycle that another one follows leaves alone what the instruction began with.
LEMMA Continues ==
  ASSUME Cycle, state = "Execute", state' = "Execute", ir' = ir,
         ir_state # "ITCSRLd", ir_state' # "ITCSRLd", ir_state \notin {"STMemAcc", "STMemWrt"},
         ~rg_wr, Quiet
  PROVE  /\ arch' = arch /\ ArchHeld' /\ ResetHeld' /\ BetweenHeld' /\ CSRHeld'
         /\ mem' = mem /\ io' = io /\ mepc' = mepc
         /\ ir' = ISA!Current' /\ pc_prior' = arch'.pc /\ LegalInstruction(ir)'
         /\ rsa' = ISA!Read(ir.rs1)' /\ rsb' = ISA!Read(ir.rs2)'
         /\ rsa' = rsa /\ rsb' = rsb
  <1>1. ~In({"ITCSRLd"}) /\ ~In({"ITCSRLd"})' /\ ~In({"STMemAcc", "STMemWrt"})
    BY DEF In
  <1>2. /\ arch' = arch /\ ArchHeld' /\ ResetHeld' /\ mip' \in ISA!Pend(arch.mip)
        /\ mem' = mem /\ io' = io
    BY <1>1, HoldsQuietly
  <1>3. /\ ir = ISA!Current /\ pc_prior = arch.pc /\ ~ISA!InterruptDue /\ LegalInstruction(ir)
        /\ rsa = ISA!Read(ir.rs1) /\ rsb = ISA!Read(ir.rs2) /\ bank = arch.bank
    BY InExecution
  <1>4. /\ pc_prior' = pc_prior /\ rsb' = ReadRegister(ir.rs2)
        /\ rsa' = ReadRegister(ir.rs1) \/ rsa' = rsa
    BY DEF Cycle, CoreClock, Datapath, Registers, Load, pcp_ld
  <1>5. rsa' = rsa /\ rsb' = rsb
    BY <1>3, <1>4 DEF ReadRegister, ISA!Read
  <1>6. BetweenHeld'
    BY <1>2, <1>3, KeptView DEF BetweenHeld
  <1>7. CSRHeld'
    BY <1>2 DEF CSRHeld
  <1> QED BY <1>2, <1>3, <1>4, <1>5, <1>6, <1>7, KeptView DEF Quiet

\* The registers that a cycle may load.
LEMMA Loads ==
  ASSUME Cycle, state = "Execute"
  PROVE  /\ alu_out' = IF alu_ld THEN alu_imm_out ELSE alu_out
         /\ pc' = IF pc_ld THEN pc_src_out ELSE pc
         /\ mdr' = IF mdr_ld THEN pmmu_out ELSE mdr
         /\ alu_flags' = IF flags_ld THEN flags_o(alu_op, a_mux_out, b_mux_out) ELSE alu_flags
         /\ storage_data_out' = IF mem_rd THEN mem[word_addr(addr_mux_to_pmmu)]
                                ELSE storage_data_out
  BY DEF Cycle, CoreClock, Datapath, Registers, Memory, Load

LEMMA ArithmeticCycle ==
  ASSUME Cycle, (RType \/ ITALU) /\ ir.rd # X0
  PROVE  InFlight' /\ arch' = arch
  <1>1. state = "Execute" /\ ir_state \in {"RType", "ITALU"} /\ Compute
    BY DEF RType, ITALU, Executing
  <1>2. /\ state' = "Execute"
        /\ ir_state' = IF ir_state = "RType" THEN "RTCmpl" ELSE "ITALUCmpl"
    <2>1. InFlight /\ state # "Reset"
      BY <1>1 DEF Cycle
    <2>2. CASE RType
      BY <2>1, <2>2, Sequences DEF RType, WriteBackIn, Continue, Executing
    <2>3. CASE ITALU
      BY <2>1, <2>3, Sequences DEF ITALU, WriteBackIn, Continue, Executing
    <2> QED BY <2>2, <2>3
  <1>3. Quiet /\ ir' = ir /\ pc' = pc
    BY <1>1 DEF Compute
  <1>4. ~rg_wr /\ alu_ld
    BY <1>1 DEF rg_wr, alu_ld, In
  <1>5. /\ arch' = arch /\ ArchHeld' /\ ResetHeld' /\ BetweenHeld' /\ CSRHeld'
        /\ ir' = ISA!Current' /\ pc_prior' = arch'.pc /\ LegalInstruction(ir)'
        /\ rsa' = ISA!Read(ir.rs1)' /\ rsb' = ISA!Read(ir.rs2)' /\ rsa' = rsa /\ rsb' = rsb
    BY <1>1, <1>2, <1>3, <1>4, Continues
  <1>6. pc = Add(arch.pc, SrcFour)
    BY <1>1 DEF Cycle, InFlight, OperandsHeld, ReturnCycles
  <1>7. ir_state = "RType" => ir.opcode = "RTYPE"
    BY <1>1 DEF Cycle, InFlight, InstructionHeld, In
  <1>8. ir_state = "ITALU" => ir.opcode = "ITYPE"
    BY <1>1 DEF Cycle, InFlight, InstructionHeld, In
  <1>9. InstructionHeld'
    BY <1>1, <1>2, <1>3, <1>5, <1>7, <1>8 DEF InstructionHeld, In
  <1>10. OperandsHeld'
    BY <1>2, <1>3, <1>5, <1>6 DEF OperandsHeld, ReturnCycles
  <1>11. alu_out' = alu_imm_out
    BY <1>1, <1>4, Loads
  <1>12. alu_imm_out = ISA!Arithmetic(alu_op, a_mux_out, b_mux_out)
    <2>1. alu_op \in ALU_Ops
      BY OperationType DEF Cycle
    <2>2. a_mux_out \in Word /\ b_mux_out \in Word
      <3>1. ir.imm \in Word
        BY InstructionAssumption DEF Cycle, CoreInv
      <3> QED BY <1>1, <3>1 DEF a_mux_out, b_mux_out, In, Cycle, CoreInv, CoreTypeOK
    <2>3. alu_op \in {SllOp, SrlOp, SraOp} => Value(b_mux_out) < Width
      BY <1>1 DEF Cycle, Conforming, In
    <2> QED BY <2>1, <2>2, <2>3 DEF Cycle, ALUAgrees, alu_imm_out
  <1>13. ir_state = "RType" =>
           alu_op = <<ir.funct3, ir.funct7>> /\ a_mux_out = rsa /\ b_mux_out = rsb
    BY <1>1 DEF alu_op, a_mux_out, b_mux_out, In
  <1>14. ir_state = "ITALU" =>
           /\ alu_op = <<ir.funct3, ir.funct3 \in {1, 5} /\ ir.funct7>>
           /\ a_mux_out = rsa /\ b_mux_out = ir.imm
    BY <1>1 DEF alu_op, a_mux_out, b_mux_out, In
  <1>15. ResultsHeld'
    <2>1. CASE ir_state = "RType"
      <3>1. alu_out' = ISA!Arithmetic(<<ir.funct3, ir.funct7>>, rsa, rsb)
        BY <2>1, <1>11, <1>12, <1>13
      <3>2. ir_state' = "RTCmpl"
        BY <2>1, <1>2
      <3> QED BY <3>1, <3>2, <1>3, <1>5 DEF ResultsHeld, AddressedCycles
    <2>2. CASE ir_state = "ITALU"
      <3>1. alu_out' = ISA!Arithmetic(<<ir.funct3, ir.funct3 \in {1, 5} /\ ir.funct7>>, rsa, ir.imm)
        BY <2>2, <1>11, <1>12, <1>14
      <3>2. ir_state' = "ITALUCmpl"
        BY <2>2, <1>2
      <3> QED BY <3>1, <3>2, <1>3, <1>5 DEF ResultsHeld, AddressedCycles
    <2> QED BY <2>1, <2>2, <1>1
  <1> QED BY <1>5, <1>9, <1>10, <1>15 DEF InFlight

\* A cycle that neither moves the PC nor writes it keeps what was computed.
LEMMA Computes ==
  ASSUME Cycle, state = "Execute", Compute, NEW next, Continue(next), next # "ITCSRLd",
         ir_state # "ITCSRLd", ir_state \notin {"STMemAcc", "STMemWrt"},
         ~rg_wr, ir_state \notin ReturnCycles, next \notin ReturnCycles
  PROVE  /\ arch' = arch /\ ArchHeld' /\ ResetHeld' /\ BetweenHeld' /\ CSRHeld' /\ OperandsHeld'
         /\ state' = "Execute" /\ ir_state' = next /\ ir' = ir
         /\ ir' = ISA!Current' /\ pc_prior' = arch'.pc /\ LegalInstruction(ir)'
         /\ rsa' = rsa /\ rsb' = rsb /\ mem' = mem /\ io' = io
  <1>1. state' = "Execute" /\ ir_state' = next
    <2>1. InFlight /\ state # "Reset"
      BY DEF Cycle
    <2> QED BY <2>1, Sequences DEF Continue
  <1>2. Quiet /\ ir' = ir /\ pc' = pc
    BY DEF Compute
  <1>3. /\ arch' = arch /\ ArchHeld' /\ ResetHeld' /\ BetweenHeld' /\ CSRHeld'
        /\ ir' = ISA!Current' /\ pc_prior' = arch'.pc /\ LegalInstruction(ir)'
        /\ rsa' = ISA!Read(ir.rs1)' /\ rsb' = ISA!Read(ir.rs2)' /\ rsa' = rsa /\ rsb' = rsb
        /\ mem' = mem /\ io' = io
    BY <1>1, <1>2, Continues
  <1>4. pc = Add(arch.pc, SrcFour)
    BY DEF Cycle, InFlight, OperandsHeld
  <1>5. OperandsHeld'
    BY <1>1, <1>2, <1>3, <1>4 DEF OperandsHeld, ReturnCycles
  <1> QED BY <1>1, <1>2, <1>3, <1>5

\* The address of a load, and the word that is read there.
LEMMA LoadCycles ==
  ASSUME Cycle, ITLoad \/ ITLDMemAcc \/ ITLDMemMdr
  PROVE  InFlight' /\ arch' = arch
  <1>1. /\ state = "Execute" /\ ir_state \in {"ITLoad", "ITLDMemAcc", "ITLDMemMdr"} /\ Compute
        /\ ir_state = "ITLoad" => Continue("ITLDMemAcc")
        /\ ir_state = "ITLDMemAcc" => Continue("ITLDMemMdr")
        /\ ir_state = "ITLDMemMdr" => Continue("ITLDMemCmpl")
    BY DEF ITLoad, ITLDMemAcc, ITLDMemMdr, Executing
  <1> DEFINE next == IF ir_state = "ITLoad" THEN "ITLDMemAcc"
                     ELSE IF ir_state = "ITLDMemAcc" THEN "ITLDMemMdr" ELSE "ITLDMemCmpl"
  <1>2. /\ Continue(next) /\ next \in {"ITLDMemAcc", "ITLDMemMdr", "ITLDMemCmpl"}
        /\ next \notin ReturnCycles /\ ir_state \notin ReturnCycles /\ ~rg_wr
    BY <1>1 DEF ReturnCycles, rg_wr, In
  <1> HIDE DEF next
  <1>3. /\ arch' = arch /\ ArchHeld' /\ ResetHeld' /\ BetweenHeld' /\ CSRHeld' /\ OperandsHeld'
        /\ state' = "Execute" /\ ir_state' = next /\ ir' = ir
        /\ ir' = ISA!Current' /\ pc_prior' = arch'.pc /\ LegalInstruction(ir)'
        /\ rsa' = rsa /\ mem' = mem
    BY <1>1, <1>2, Computes
  <1>4. ir.opcode = "ITYPE_L"
    BY <1>1 DEF Cycle, InFlight, InstructionHeld, In
  <1>5. InstructionHeld'
    BY <1>2, <1>3, <1>4 DEF InstructionHeld, In
  <1>6. alu_out' = Add(rsa, ir.imm)
    <2>1. CASE ir_state = "ITLoad"
      <3>1. alu_out' = alu_imm_out
        BY <1>1, <2>1, Loads DEF alu_ld, In
      <3>2. alu_imm_out = Add(rsa, ir.imm)
        BY <1>1, <2>1, AddResult DEF alu_imm_out, alu_op, a_mux_out, b_mux_out, In
      <3> QED BY <3>1, <3>2
    <2>2. CASE ir_state # "ITLoad"
      <3>1. alu_out = Add(rsa, ir.imm)
        BY <1>1, <2>2 DEF Cycle, InFlight, ResultsHeld, AddressedCycles
      <3>2. ~alu_ld
        BY <1>1, <2>2 DEF alu_ld, In
      <3> QED BY <1>1, <3>1, <3>2, Loads
    <2> QED BY <2>1, <2>2
  <1>7. ir_state = "ITLDMemAcc" => storage_data_out' = mem'[word_addr(alu_out')]
    <2> SUFFICES ASSUME ir_state = "ITLDMemAcc"
                 PROVE  storage_data_out' = mem'[word_addr(alu_out')]
      OBVIOUS
    <2>1. mem_rd /\ addr_mux_to_pmmu = alu_out /\ ~alu_ld
      BY <1>1 DEF mem_rd, addr_mux_to_pmmu, addr_src, alu_ld, In
    <2> QED BY <1>1, <1>3, <2>1, Loads
  <1>8. ir_state = "ITLDMemMdr" =>
          mdr' = rd_o(ir.funct3, alu_out', mem'[word_addr(alu_out')], TRUE)
    <2> SUFFICES ASSUME ir_state = "ITLDMemMdr"
                 PROVE  mdr' = rd_o(ir.funct3, alu_out', mem'[word_addr(alu_out')], TRUE)
      OBVIOUS
    <2>1. mdr_ld /\ mem_rd = TRUE /\ addr_mux_to_pmmu = alu_out /\ ~alu_ld
      BY <1>1 DEF mem_rd, mdr_ld, addr_mux_to_pmmu, addr_src, alu_ld, In
    <2>2. rst_src_out = ir.funct3
      BY <1>1 DEF rst_src_out
    <2>3. storage_data_out = mem[word_addr(alu_out)]
      BY <1>1 DEF Cycle, InFlight, ResultsHeld
    <2>4. mdr' = pmmu_out /\ alu_out' = alu_out
      BY <1>1, <2>1, Loads
    <2> QED BY <1>3, <2>1, <2>2, <2>3, <2>4 DEF pmmu_out
  <1>9. ResultsHeld'
    BY <1>1, <1>3, <1>6, <1>7, <1>8 DEF next, ResultsHeld
  <1> QED BY <1>3, <1>5, <1>9 DEF InFlight

LEMMA StoreCycle ==
  ASSUME Cycle, STStore
  PROVE  InFlight' /\ arch' = arch
  <1> DEFINE next == IF ir.funct3 % 4 = WORD_SIZE THEN "STMemWrt" ELSE "STMemAcc"
  <1>1. state = "Execute" /\ ir_state = "STStore" /\ Compute /\ Continue(next)
    BY DEF STStore, Executing
  <1>2. /\ next \in {"STMemWrt", "STMemAcc"}
        /\ next \notin ReturnCycles /\ ir_state \notin ReturnCycles /\ ~rg_wr
    BY <1>1 DEF ReturnCycles, rg_wr, In
  <1>3. ir.opcode = "STYPE" /\ ir.funct3 \in {0, 1, 2}
    BY <1>1, InExecution DEF Cycle, InFlight, InstructionHeld, LegalInstruction, In
  <1>4. next = "STMemWrt" => ir.funct3 = WORD_SIZE
    BY <1>3 DEF WORD_SIZE
  <1> HIDE DEF next
  <1>5. /\ arch' = arch /\ ArchHeld' /\ ResetHeld' /\ BetweenHeld' /\ CSRHeld' /\ OperandsHeld'
        /\ state' = "Execute" /\ ir_state' = next /\ ir' = ir
        /\ ir' = ISA!Current' /\ pc_prior' = arch'.pc /\ LegalInstruction(ir)'
        /\ rsa' = rsa /\ mem' = mem /\ io' = io
    BY <1>1, <1>2, Computes
  <1>6. InstructionHeld'
    BY <1>2, <1>3, <1>5 DEF InstructionHeld, In
  <1>7. alu_out' = Add(rsa, ir.imm)
    <2>1. alu_out' = alu_imm_out
      BY <1>1, Loads DEF alu_ld, In
    <2>2. alu_imm_out = Add(rsa, ir.imm)
      BY <1>1, AddResult DEF alu_imm_out, alu_op, a_mux_out, b_mux_out, In
    <2> QED BY <2>1, <2>2
  <1>8. io' = arch'.io
    BY <1>1, <1>5, InExecution
  <1>9. ResultsHeld'
    BY <1>2, <1>4, <1>5, <1>7, <1>8 DEF ResultsHeld
  <1> QED BY <1>5, <1>6, <1>9 DEF InFlight

LEMMA CompareCycle ==
  ASSUME Cycle, BType
  PROVE  InFlight' /\ arch' = arch
  <1>1. state = "Execute" /\ ir_state = "BType" /\ Compute /\ Continue("BTBranch")
    BY DEF BType, Executing
  <1>2. /\ "BTBranch" \notin ReturnCycles /\ ir_state \notin ReturnCycles /\ ~rg_wr
    BY <1>1 DEF ReturnCycles, rg_wr, In
  <1>3. ir.opcode = "BTYPE"
    BY <1>1 DEF Cycle, InFlight, InstructionHeld, In
  <1>4. /\ arch' = arch /\ ArchHeld' /\ ResetHeld' /\ BetweenHeld' /\ CSRHeld' /\ OperandsHeld'
        /\ state' = "Execute" /\ ir_state' = "BTBranch" /\ ir' = ir
        /\ ir' = ISA!Current' /\ pc_prior' = arch'.pc /\ LegalInstruction(ir)'
        /\ rsa' = rsa /\ rsb' = rsb
    BY <1>1, <1>2, Computes
  <1>5. InstructionHeld'
    BY <1>3, <1>4 DEF InstructionHeld, In
  <1>6. alu_flags' = flags_o(SubOp, rsa, rsb)
    <2>1. alu_op = SubOp /\ a_mux_out = rsa /\ b_mux_out = rsb /\ flags_ld
      BY <1>1 DEF alu_op, a_mux_out, b_mux_out, flags_ld, In
    <2> QED BY <1>1, <2>1, Loads
  <1>7. ResultsHeld'
    BY <1>4, <1>6 DEF ResultsHeld, AddressedCycles
  <1> QED BY <1>4, <1>5, <1>7 DEF InFlight

\* The port's word is read for the merge, and if the address is a port's, the
\* port is written for the first time.
LEMMA StoreReads ==
  ASSUME Cycle, STMemAcc
  PROVE  InFlight' /\ arch' = arch
  <1>1. state = "Execute" /\ ir_state = "STMemAcc" /\ Compute /\ Continue("STMemWrt")
    BY DEF STMemAcc, Executing
  <1>2. state' = "Execute" /\ ir_state' = "STMemWrt"
    <2>1. InFlight /\ state # "Reset"
      BY <1>1 DEF Cycle
    <2> QED BY <1>1, <2>1, Sequences DEF Continue
  <1>3. arch' = arch
    BY <1>2 DEF Cycle, Retired
  <1>4. ~rg_wr /\ ~alu_ld /\ mem_rd /\ addr_mux_to_pmmu = alu_out /\ ~In({"STMemWrt"})
    BY <1>1 DEF rg_wr, alu_ld, mem_rd, addr_mux_to_pmmu, addr_src, In
  <1>5. mem' = mem /\ MemoryBytes' = MemoryBytes /\ bank' = bank
    BY <1>4, Frames DEF Cycle
  <1>6. /\ reset_i /\ reset_i' = reset_i /\ arch.running /\ ~ISA!InterruptDue
        /\ arch.bytes = MemoryBytes /\ LegalInstruction(ir)
        /\ ir = ISA!Current /\ pc_prior = arch.pc
        /\ mstatus = arch.mstatus /\ mtvec = arch.mtvec /\ mie = arch.mie /\ mepc = arch.mepc
        /\ interrupt_in_progress = arch.in_handler
        /\ bank = arch.bank /\ mip \in ISA!Pend(arch.mip) /\ rsb = ISA!Read(ir.rs2)
        /\ rsa = ISA!Read(ir.rs1) /\ io = arch.io
    BY <1>1, InExecution
  <1>7. UNCHANGED <<mstatus, mie, mepc, mtvec, interrupt_in_progress>> /\ ir' = ir /\ pc' = pc
    BY <1>1 DEF Compute, Quiet, irqs
  <1>8. mip' \in ISA!Pend(arch.mip)
    BY <1>1, <1>6, LatchPends DEF Compute, Quiet
  <1>9. ArchHeld'
    BY <1>1, <1>2, <1>3, <1>5, <1>6, <1>7 DEF ArchHeld, In
  <1>10. ResetHeld' /\ BetweenHeld' /\ CSRHeld'
    BY <1>2, <1>3, <1>6, <1>8, KeptView DEF ResetHeld, BetweenHeld, CSRHeld
  <1>11. /\ pc_prior' = pc_prior /\ rsb' = ReadRegister(ir.rs2) /\ rsa' = ReadRegister(ir.rs1)
    BY <1>1 DEF Cycle, CoreClock, Datapath, Registers, Load, pcp_ld, rsa_ld, In
  <1>12. rsa' = rsa /\ rsb' = rsb
    BY <1>6, <1>11 DEF ReadRegister, ISA!Read
  <1>13. ir.opcode = "STYPE" /\ pc = Add(arch.pc, SrcFour) /\ alu_out = Add(rsa, ir.imm)
    BY <1>1 DEF Cycle, InFlight, InstructionHeld, OperandsHeld, ResultsHeld, In, ReturnCycles,
       AddressedCycles
  <1>14. InstructionHeld'
    BY <1>2, <1>3, <1>6, <1>7, <1>11, <1>13, KeptView DEF InstructionHeld, In
  <1>15. OperandsHeld'
    BY <1>2, <1>3, <1>6, <1>7, <1>12, <1>13, KeptView DEF OperandsHeld, ReturnCycles
  <1>16. alu_out' = alu_out /\ storage_data_out' = mem[word_addr(alu_out)]
    BY <1>1, <1>4, Loads
  <1>17. io' = arch'.io \/ (IO_BIT \in alu_out' /\ io' = StoredPorts')
    <2>1. io' = [p \in Ports |-> IF io_wr /\ io_addr = p THEN Slice(rsb, 0, ByteWidth) ELSE io[p]]
      BY DEF Cycle, CoreClock, Datapath, OutputPorts
    <2>2. StoredPorts' = [p \in Ports |-> IF alu_out \cap IOBits = p
                                          THEN Slice(rsb, 0, ByteWidth) ELSE arch.io[p]]
      BY <1>3, <1>12, <1>16, Zenon DEF StoredPorts
    <2>3. io_wr <=> IO_BIT \in alu_out
      BY <1>4 DEF io_wr
    <2>4. ~io_wr => io' = [p \in Ports |-> io[p]]
      BY <2>1
    <2>5. io_wr => io' = StoredPorts'
      BY <1>4, <1>6, <2>1, <2>2 DEF io_addr
    <2>6. io = [p \in Ports |-> io[p]]
      BY DEF Cycle, CoreInv, CoreTypeOK
    <2> QED BY <1>3, <1>6, <1>16, <2>3, <2>4, <2>5, <2>6
  <1>18. ResultsHeld'
    BY <1>2, <1>5, <1>7, <1>12, <1>13, <1>16, <1>17 DEF ResultsHeld
  <1> QED BY <1>3, <1>9, <1>10, <1>14, <1>15, <1>18 DEF InFlight

\* The jump is taken; the return address waits for the next cycle.
LEMMA JumpCycle ==
  ASSUME Cycle, (JTJal \/ ITJalr) /\ ir.rd # X0
  PROVE  InFlight' /\ arch' = arch
  <1>1. /\ state = "Execute" /\ ir_state \in {"JTJal", "ITJalr"} /\ Quiet /\ ir' = ir
        /\ ir_state = "JTJal" => Continue("JTJalRtr")
        /\ ir_state = "ITJalr" => Continue("ITJalrRtr")
    BY DEF JTJal, ITJalr, Executing, WriteBackIn, LoadPC
  <1>2. /\ state' = "Execute"
        /\ ir_state' = IF ir_state = "JTJal" THEN "JTJalRtr" ELSE "ITJalrRtr"
    <2>1. InFlight /\ state # "Reset"
      BY <1>1 DEF Cycle
    <2> QED BY <1>1, <2>1, Sequences DEF Continue
  <1>3. ~rg_wr /\ pc_ld /\ pc_src_out = alu_imm_out
    BY <1>1 DEF rg_wr, pc_ld, pc_src_out, In, Resetting
  <1>4. /\ arch' = arch /\ ArchHeld' /\ ResetHeld' /\ BetweenHeld' /\ CSRHeld'
        /\ ir' = ISA!Current' /\ pc_prior' = arch'.pc /\ LegalInstruction(ir)'
        /\ rsa' = ISA!Read(ir.rs1)' /\ rsb' = ISA!Read(ir.rs2)' /\ rsa' = rsa
    BY <1>1, <1>2, <1>3, Continues
  <1>5. /\ ir_state = "JTJal" => ir.opcode = "JTYPE"
        /\ ir_state = "ITJalr" => ir.opcode = "ITYPE_J"
    BY <1>1 DEF Cycle, InFlight, InstructionHeld, In
  <1>6. InstructionHeld'
    BY <1>1, <1>2, <1>4, <1>5 DEF InstructionHeld, In
  <1>7. pc' = alu_imm_out
    BY <1>1, <1>3, Loads
  <1>8. alu_imm_out = Add(IF ir_state = "JTJal" THEN pc_prior ELSE rsa, ir.imm)
    BY <1>1, AddResult DEF alu_imm_out, alu_op, a_mux_out, b_mux_out, In
  <1>9. pc_prior = arch.pc
    BY <1>1, InExecution
  <1>10. OperandsHeld'
    BY <1>1, <1>2, <1>4, <1>7, <1>8, <1>9 DEF OperandsHeld, ReturnCycles
  <1>11. ResultsHeld'
    BY <1>2 DEF ResultsHeld, AddressedCycles
  <1> QED BY <1>4, <1>6, <1>10, <1>11 DEF InFlight

\* mret's address is read from mepc before the handler is left.
LEMMA ReturnCycle ==
  ASSUME Cycle, ITMret
  PROVE  InFlight' /\ arch' = arch
  <1>1. state = "Execute" /\ ir_state = "ITMret" /\ Quiet /\ ir' = ir /\ Continue("ITMretClr")
        /\ pc' = mepc \ AlignBits
    BY DEF ITMret, Executing, LoadPC
  <1>2. state' = "Execute" /\ ir_state' = "ITMretClr"
    <2>1. InFlight /\ state # "Reset"
      BY <1>1 DEF Cycle
    <2> QED BY <1>1, <2>1, Sequences DEF Continue
  <1>3. ~rg_wr
    BY <1>1 DEF rg_wr, In
  <1>4. /\ arch' = arch /\ ArchHeld' /\ ResetHeld' /\ BetweenHeld' /\ CSRHeld' /\ mepc' = mepc
        /\ ir' = ISA!Current' /\ pc_prior' = arch'.pc /\ LegalInstruction(ir)'
        /\ rsa' = ISA!Read(ir.rs1)' /\ rsb' = ISA!Read(ir.rs2)'
    BY <1>1, <1>2, <1>3, Continues
  <1>5. ir.opcode = "ITYPE_E" /\ ir.funct3 = 0 /\ ir.funct12 = "mret"
    BY <1>1 DEF Cycle, InFlight, InstructionHeld, In
  <1>6. InstructionHeld'
    BY <1>1, <1>2, <1>4, <1>5 DEF InstructionHeld, In
  <1>7. OperandsHeld'
    BY <1>1, <1>2, <1>4 DEF OperandsHeld, ReturnCycles
  <1>8. ResultsHeld'
    BY <1>2 DEF ResultsHeld, AddressedCycles
  <1> QED BY <1>4, <1>6, <1>7, <1>8 DEF InFlight

\* rd takes the old value of the CSR a cycle before the CSR takes its new one.
LEMMA CSRReads ==
  ASSUME Cycle, ITCSRRead
  PROVE  InFlight' /\ arch' = arch
  <1>1. state = "Execute" /\ ir_state = "ITCSR" /\ reads_csr /\ Compute /\ Continue("ITCSRLd")
    BY DEF ITCSRRead, Executing
  <1>2. state' = "Execute" /\ ir_state' = "ITCSRLd"
    <2>1. InFlight /\ state # "Reset"
      BY <1>1 DEF Cycle
    <2> QED BY <1>1, <2>1, Sequences DEF Continue
  <1>3. arch' = arch
    BY <1>2 DEF Cycle, Retired
  <1>4. rg_wr /\ ~In({"STMemWrt"}) /\ ~In({"STMemAcc", "STMemWrt"})
        /\ wd_src_out = ReadCSR(ir.funct12)
    BY <1>1 DEF rg_wr, wd_src_out, In
  <1>5. /\ mem' = mem /\ MemoryBytes' = MemoryBytes /\ io' = io
        /\ bank' = IF ir.rd = X0 THEN bank ELSE [bank EXCEPT ![ir.rd] = ReadCSR(ir.funct12)]
    BY <1>4, Frames DEF Cycle
  <1>6. /\ reset_i /\ reset_i' = reset_i /\ arch.running /\ ~ISA!InterruptDue
        /\ arch.bytes = MemoryBytes /\ LegalInstruction(ir)
        /\ ir = ISA!Current /\ pc_prior = arch.pc
        /\ mstatus = arch.mstatus /\ mtvec = arch.mtvec /\ mie = arch.mie /\ mepc = arch.mepc
        /\ interrupt_in_progress = arch.in_handler
        /\ bank = arch.bank /\ mip \in ISA!Pend(arch.mip)
        /\ rsa = ISA!Read(ir.rs1) /\ io = arch.io
    BY <1>1, InExecution
  <1>7. UNCHANGED <<mstatus, mie, mepc, mtvec, interrupt_in_progress>> /\ ir' = ir /\ pc' = pc
    BY <1>1 DEF Compute, Quiet, irqs
  <1>8. mip' \in ISA!Pend(mip)
    <2>1. mip \in ISA!Pend(mip)
      BY DEF ISA!Pend
    <2> QED BY <1>1, <2>1, LatchPends DEF Compute, Quiet
  <1>9. ArchHeld'
    BY <1>1, <1>2, <1>3, <1>5, <1>6, <1>7 DEF ArchHeld, In
  <1>10. ResetHeld'
    BY <1>2, <1>3 DEF ResetHeld
  <1>11. BetweenHeld'
    BY <1>2, <1>3, <1>6, KeptView DEF BetweenHeld
  <1>12. pc_prior' = pc_prior /\ rsa' = rsa
    BY <1>1 DEF Cycle, CoreClock, Datapath, Registers, Load, pcp_ld, rsa_ld, In
  <1>13. ir.opcode = "ITYPE_E" /\ ir.funct3 # 0 /\ pc = Add(arch.pc, SrcFour)
    BY <1>1 DEF Cycle, InFlight, InstructionHeld, OperandsHeld, In, ReturnCycles
  <1>14. InstructionHeld'
    <2>1. reads_csr'
      BY <1>1, <1>7 DEF reads_csr
    <2> QED BY <1>2, <1>3, <1>6, <1>7, <1>12, <1>13, <2>1, KeptView DEF InstructionHeld, In
  <1>15. OperandsHeld'
    BY <1>2, <1>3, <1>6, <1>7, <1>12, <1>13, KeptView DEF OperandsHeld, ReturnCycles
  <1>16. ResultsHeld'
    BY <1>2 DEF ResultsHeld, AddressedCycles
  <1>17. CSRHeld'
    <2> DEFINE old == IF ir.funct12 = "Mip" THEN mip ELSE ReadCSR(ir.funct12)
    <2>1. old = ReadCSR(ir.funct12)
      BY DEF ReadCSR
    <2>2. (IF ir'.funct12 = "Mip" THEN mip ELSE ReadCSR(ir.funct12)') = old
      BY <1>7 DEF ReadCSR
    <2>3. bank' = IF ir'.rd = X0 THEN arch'.bank ELSE [arch'.bank EXCEPT ![ir'.rd] = old]
      BY <1>3, <1>5, <1>6, <1>7, <2>1
    <2> HIDE DEF old
    <2> QED BY <1>2, <1>3, <1>6, <1>8, <2>2, <2>3 DEF CSRHeld, ISA!Pend
  <1> QED BY <1>3, <1>9, <1>10, <1>11, <1>14, <1>15, <1>16, <1>17 DEF InFlight

\* Nothing follows ecall.
LEMMA CallCycle ==
  ASSUME Cycle, ITECall
  PROVE  InFlight' /\ arch' = arch
  <1>1. state = "Execute" /\ ir_state = "ITECall" /\ Compute /\ Continue("ITECall")
    BY DEF ITECall, Executing
  <1>2. "ITECall" \notin ReturnCycles /\ ~rg_wr
    BY <1>1 DEF ReturnCycles, rg_wr, In
  <1>3. /\ arch' = arch /\ ArchHeld' /\ ResetHeld' /\ BetweenHeld' /\ CSRHeld' /\ OperandsHeld'
        /\ state' = "Execute" /\ ir_state' = "ITECall" /\ ir' = ir
        /\ ir' = ISA!Current' /\ pc_prior' = arch'.pc /\ LegalInstruction(ir)'
    BY <1>1, <1>2, Computes
  <1>4. InstructionHeld' /\ ResultsHeld'
    BY <1>3 DEF InstructionHeld, ResultsHeld, AddressedCycles, In
  <1> QED BY <1>3, <1>4 DEF InFlight

LEMMA BreakCycle ==
  ASSUME Cycle, ITEbreak
  PROVE  InFlight' /\ arch' = arch
  <1>1. state = "Execute" /\ ir_state = "ITEbreak" /\ Quiet
    BY DEF ITEbreak, Executing, Compute
  <1>2. state' = "Halt" /\ ir_state' = "ITLoad"
    <2>1. InFlight /\ state # "Reset"
      BY <1>1 DEF Cycle
    <2> QED BY <2>1, Sequences DEF ITEbreak
  <1>3. arch' = arch /\ ArchHeld' /\ ResetHeld' /\ mip' \in ISA!Pend(arch.mip)
    <2>1. ~In({"ITCSRLd"}) /\ ~In({"ITCSRLd"})' /\ ~In({"STMemAcc", "STMemWrt"}) /\ ~rg_wr
      BY <1>1, <1>2 DEF In, rg_wr
    <2> QED BY <1>1, <1>2, <2>1, HoldsQuietly
  <1>4. BetweenHeld'
    BY <1>2, <1>3 DEF BetweenHeld
  <1> QED BY <1>2, <1>3, <1>4, NotExecuting DEF InFlight
-----------------------------------------------------------------------------
(***************************************************************************)
(* The cycles that retire an instruction.                                  *)
(***************************************************************************)

LEMMA Retires ==
  ASSUME Cycle, state = "Execute", Retire
  PROVE  /\ InFlight' /\ arch' = View(TRUE)'
         /\ arch.running = TRUE /\ arch'.running = TRUE /\ ~ISA!InterruptDue /\ ISA!Current = ir
  <1>1. state' = "PreFetch" /\ reset_i
    <2>1. InFlight /\ state # "Reset"
      BY DEF Cycle
    <2> QED BY <2>1, Sequences DEF Retire
  <1>2. arch' = View(TRUE)'
    BY <1>1 DEF Cycle, Retired
  <1>3. InFlight'
    BY <1>1, <1>2, InExecution, NothingInFlight
  <1>4. arch.running = (state # "Reset")
    BY DEF Cycle, InFlight, ArchHeld
  <1> QED BY <1>2, <1>3, <1>4, InExecution, NewView

\* Of most instructions nothing shows but the PC and a register.
LEMMA RetiresPlainly ==
  ASSUME Cycle, state = "Execute", Retire, Quiet,
         ir_state \notin {"ITCSRLd", "STMemAcc", "STMemWrt"}
  PROVE  /\ InFlight' /\ ISA!Plain /\ arch'.pc = pc' /\ arch'.bank = bank'
         /\ bank = arch.bank /\ rsa = ISA!Read(ir.rs1) /\ rsb = ISA!Read(ir.rs2)
         /\ pc_prior = arch.pc
         /\ ISA!Current = ir /\ ISA!Executes({ir.opcode})
  <1>1. /\ InFlight' /\ arch' = View(TRUE)'
        /\ arch.running = TRUE /\ arch'.running = TRUE /\ ~ISA!InterruptDue /\ ISA!Current = ir
    BY Retires
  <1>2. mem' = mem /\ MemoryBytes' = MemoryBytes /\ io' = io
    BY Frames DEF Cycle, In
  <1>3. /\ arch.bytes = MemoryBytes /\ io = arch.io
        /\ mstatus = arch.mstatus /\ mtvec = arch.mtvec /\ mie = arch.mie /\ mepc = arch.mepc
        /\ interrupt_in_progress = arch.in_handler
        /\ bank = arch.bank /\ mip \in ISA!Pend(arch.mip)
        /\ rsa = ISA!Read(ir.rs1) /\ rsb = ISA!Read(ir.rs2) /\ pc_prior = arch.pc
    BY InExecution
  <1>4. UNCHANGED <<mstatus, mie, mepc, mtvec, interrupt_in_progress>>
    BY DEF Quiet, irqs
  <1>5. mip' \in ISA!Pend(arch.mip)
    BY <1>3, LatchPends DEF Quiet
  <1>6. ISA!Plain
    BY <1>1, <1>2, <1>3, <1>4, <1>5, NewView DEF ISA!Plain, ISA!NoCSR, ISA!NoStore
  <1> QED BY <1>1, <1>3, <1>6, NewView DEF ISA!Executes

\* A register is written as the instruction set writes it.
LEMMA WritesBack ==
  ASSUME Cycle, state = "Execute", rg_wr, bank = arch.bank, arch'.bank = bank'
  PROVE  ISA!Write(ir.rd, wd_src_out)
  BY Frames DEF Cycle, ISA!Write

\* With x0 as the destination there is nothing to write.
LEMMA WritesNothing ==
  ASSUME Cycle, state = "Execute", ~rg_wr, bank = arch.bank, arch'.bank = bank'
  PROVE  /\ arch'.bank = arch.bank
         /\ ir.rd = X0 => \A w : ISA!Write(ir.rd, w)
  BY Frames DEF Cycle, ISA!Write

LEMMA NextPCs == ISA!NextPC = Add(arch.pc, SrcFour)
  BY AddSame DEF ISA!NextPC, SrcFour

\* The operation that the instruction set names is the one that the ALU is given.
LEMMA OperationNames ==
  ASSUME CoreInv
  PROVE  /\ (ir.funct7 /\ (ir.opcode = "RTYPE" \/ ir.funct3 \in {1, 5})) \in BOOLEAN
         /\ ir.opcode = "RTYPE" =>
              (ir.funct7 /\ (ir.opcode = "RTYPE" \/ ir.funct3 \in {1, 5})) = ir.funct7
         /\ ir.opcode # "RTYPE" =>
              (ir.funct7 /\ (ir.opcode = "RTYPE" \/ ir.funct3 \in {1, 5}))
                = (ir.funct3 \in {1, 5} /\ ir.funct7)
  <1>1. ir.funct7 \in BOOLEAN
    BY InstructionAssumption DEF CoreInv
  <1> QED BY <1>1

LEMMA ArithmeticRetires ==
  ASSUME Cycle, RTCmpl \/ ITALUCmpl \/ ((RType \/ ITALU) /\ ir.rd = X0)
  PROVE  InFlight' /\ ISA!Arith
  <1>1. /\ state = "Execute" /\ ir_state \in {"RType", "RTCmpl", "ITALU", "ITALUCmpl"}
        /\ Retire /\ Quiet /\ pc' = pc
        /\ ir_state \in {"RType", "ITALU"} => ir.rd = X0
    BY DEF RType, RTCmpl, ITALU, ITALUCmpl, Executing, Compute, WriteBackIn
  <1>2. /\ InFlight' /\ ISA!Plain /\ arch'.pc = pc' /\ arch'.bank = bank'
        /\ bank = arch.bank /\ rsa = ISA!Read(ir.rs1) /\ rsb = ISA!Read(ir.rs2)
        /\ ISA!Current = ir /\ ISA!Executes({ir.opcode})
    BY <1>1, RetiresPlainly
  <1>3. /\ ir_state \in {"RType", "RTCmpl"} => ir.opcode = "RTYPE"
        /\ ir_state \in {"ITALU", "ITALUCmpl"} => ir.opcode = "ITYPE"
        /\ pc = Add(arch.pc, SrcFour)
    BY <1>1 DEF Cycle, InFlight, InstructionHeld, OperandsHeld, ReturnCycles, In
  <1>4. arch'.pc = ISA!NextPC
    BY <1>1, <1>2, <1>3, NextPCs
  <1> DEFINE op == <<ir.funct3, ir.funct7 /\ (ir.opcode = "RTYPE" \/ ir.funct3 \in {1, 5})>>
             result == ISA!Arithmetic(op, ISA!Read(ir.rs1),
                         IF ir.opcode = "RTYPE" THEN ISA!Read(ir.rs2) ELSE ir.imm)
  <1>5. ISA!Write(ir.rd, result)
    <2>1. CASE ir_state \in {"RType", "ITALU"}
      <3>1. ~rg_wr
        BY <1>1, <2>1 DEF rg_wr, In
      <3> HIDE DEF result
      <3> QED BY <1>1, <1>2, <2>1, <3>1, WritesNothing
    <2>2. CASE ir_state = "RTCmpl"
      <3>1. rg_wr /\ wd_src_out = alu_out
        BY <1>1, <2>2 DEF rg_wr, wd_src_out, In
      <3>2. alu_out = ISA!Arithmetic(<<ir.funct3, ir.funct7>>, rsa, rsb)
        BY <1>1, <2>2 DEF Cycle, InFlight, ResultsHeld
      <3>3. op = <<ir.funct3, ir.funct7>>
        BY <1>3, <2>2, OperationNames DEF Cycle
      <3>4. result = alu_out
        <4> HIDE DEF op
        <4> QED BY <1>2, <1>3, <2>2, <3>2, <3>3
      <3> HIDE DEF result
      <3> QED BY <1>1, <1>2, <3>1, <3>4, WritesBack
    <2>3. CASE ir_state = "ITALUCmpl"
      <3>1. rg_wr /\ wd_src_out = alu_out
        BY <1>1, <2>3 DEF rg_wr, wd_src_out, In
      <3>2. alu_out = ISA!Arithmetic(<<ir.funct3, ir.funct3 \in {1, 5} /\ ir.funct7>>, rsa, ir.imm)
        BY <1>1, <2>3 DEF Cycle, InFlight, ResultsHeld
      <3>3. op = <<ir.funct3, ir.funct3 \in {1, 5} /\ ir.funct7>>
        BY <1>3, <2>3, OperationNames DEF Cycle
      <3>4. result = alu_out
        <4> HIDE DEF op
        <4> QED BY <1>2, <1>3, <2>3, <3>2, <3>3
      <3> HIDE DEF result
      <3> QED BY <1>1, <1>2, <3>1, <3>4, WritesBack
    <2> QED BY <1>1, <2>1, <2>2, <2>3
  <1>6. ISA!Executes({"RTYPE", "ITYPE"})
    BY <1>1, <1>2, <1>3 DEF ISA!Executes
  <1> QED BY <1>2, <1>4, <1>5, <1>6, Zenon DEF ISA!Arith

\* lui goes through the adder, added to zero.
LEMMA UpperRetires ==
  ASSUME Cycle, UType \/ UTypeAui
  PROVE  InFlight' /\ ISA!Upper
  <1>1. /\ state = "Execute" /\ ir_state \in {"UType", "UTypeAui"} /\ Retire /\ Quiet /\ pc' = pc
    BY DEF UType, UTypeAui, Executing, Compute
  <1>2. /\ InFlight' /\ ISA!Plain /\ arch'.pc = pc' /\ arch'.bank = bank'
        /\ bank = arch.bank /\ pc_prior = arch.pc
        /\ ISA!Current = ir /\ ISA!Executes({ir.opcode})
    BY <1>1, RetiresPlainly
  <1>3. /\ ir_state = "UType" => ir.opcode = "UTYPE_L"
        /\ ir_state = "UTypeAui" => ir.opcode = "UTYPE_A"
        /\ pc = Add(arch.pc, SrcFour)
    BY <1>1 DEF Cycle, InFlight, InstructionHeld, OperandsHeld, ReturnCycles, In
  <1>4. arch'.pc = ISA!NextPC
    BY <1>1, <1>2, <1>3, NextPCs
  <1>5. rg_wr /\ wd_src_out = Add(IF ir_state = "UType" THEN {} ELSE pc_prior, ir.imm)
    BY <1>1, AddResult DEF rg_wr, wd_src_out, alu_imm_out, alu_op, a_mux_out, b_mux_out, In
  <1>6. ir.imm \in Word
    BY InstructionAssumption DEF Cycle, CoreInv
  <1>7. wd_src_out = IF ir.opcode = "UTYPE_L" THEN ir.imm ELSE ISA!Add(arch.pc, ir.imm)
    BY <1>1, <1>2, <1>3, <1>5, <1>6, AddZero, AddSame
  <1>8. ISA!Write(ir.rd, wd_src_out)
    BY <1>1, <1>2, <1>5, WritesBack
  <1>9. ISA!Executes({"UTYPE_L", "UTYPE_A"})
    BY <1>1, <1>2, <1>3 DEF ISA!Executes
  <1> QED BY <1>2, <1>4, <1>7, <1>8, <1>9, Zenon DEF ISA!Upper

LEMMA JumpRetires ==
  ASSUME Cycle, JTJalRtr \/ ITJalrRtr \/ ((JTJal \/ ITJalr) /\ ir.rd = X0)
  PROVE  InFlight' /\ ISA!Jump
  <1>1. /\ state = "Execute" /\ ir_state \in {"JTJal", "ITJalr", "JTJalRtr", "ITJalrRtr"}
        /\ Retire /\ Quiet
        /\ ir_state \in {"JTJal", "ITJalr"} => ir.rd = X0
        /\ ir_state \in {"JTJalRtr", "ITJalrRtr"} => pc' = pc
    BY DEF JTJal, ITJalr, JTJalRtr, ITJalrRtr, Executing, Compute, LoadPC, WriteBackIn
  <1>2. /\ InFlight' /\ ISA!Plain /\ arch'.pc = pc' /\ arch'.bank = bank'
        /\ bank = arch.bank /\ rsa = ISA!Read(ir.rs1) /\ pc_prior = arch.pc
        /\ ISA!Current = ir /\ ISA!Executes({ir.opcode})
    BY <1>1, RetiresPlainly
  <1>3. /\ ir_state \in {"JTJal", "JTJalRtr"} => ir.opcode = "JTYPE"
        /\ ir_state \in {"ITJalr", "ITJalrRtr"} => ir.opcode = "ITYPE_J"
    BY <1>1 DEF Cycle, InFlight, InstructionHeld, In
  <1> DEFINE target == ISA!Add(IF ir.opcode = "JTYPE" THEN arch.pc ELSE ISA!Read(ir.rs1), ir.imm)
  <1>4. arch'.pc = target
    <2>1. CASE ir_state \in {"JTJal", "ITJalr"}
      <3>1. pc' = alu_imm_out
        BY <1>1, <2>1, Loads DEF pc_ld, pc_src_out, In, Resetting
      <3>2. alu_imm_out = Add(IF ir_state = "JTJal" THEN pc_prior ELSE rsa, ir.imm)
        BY <1>1, <2>1, AddResult DEF alu_imm_out, alu_op, a_mux_out, b_mux_out, In
      <3> QED BY <1>2, <1>3, <2>1, <3>1, <3>2, AddSame
    <2>2. CASE ir_state \in {"JTJalRtr", "ITJalrRtr"}
      <3>1. pc = Add(IF ir_state = "JTJalRtr" THEN arch.pc ELSE rsa, ir.imm)
        BY <1>1, <2>2 DEF Cycle, InFlight, OperandsHeld
      <3> QED BY <1>1, <1>2, <1>3, <2>2, <3>1, AddSame
    <2> QED BY <1>1, <2>1, <2>2
  <1>5. ISA!Write(ir.rd, ISA!NextPC)
    <2>1. CASE ir_state \in {"JTJal", "ITJalr"}
      <3>1. ~rg_wr
        BY <1>1, <2>1 DEF rg_wr, In
      <3> QED BY <1>1, <1>2, <2>1, <3>1, WritesNothing
    <2>2. CASE ir_state \in {"JTJalRtr", "ITJalrRtr"}
      <3>1. rg_wr /\ wd_src_out = Add(pc_prior, SrcFour)
        BY <1>1, <2>2, AddResult DEF rg_wr, wd_src_out, alu_imm_out, alu_op, a_mux_out, b_mux_out, In
      <3> QED BY <1>1, <1>2, <3>1, WritesBack, NextPCs
    <2> QED BY <1>1, <2>1, <2>2
  <1>6. ISA!Executes({"JTYPE", "ITYPE_J"})
    BY <1>1, <1>2, <1>3 DEF ISA!Executes
  <1> QED BY <1>2, <1>4, <1>5, <1>6, Zenon DEF ISA!Jump

\* The flags of the cycle before decide as the comparison would.
LEMMA BranchRetires ==
  ASSUME Cycle, BTBranch(branch_taken)
  PROVE  InFlight' /\ ISA!Branch
  <1>1. state = "Execute" /\ ir_state = "BTBranch" /\ Retire /\ Quiet
    BY DEF BTBranch, Executing, Compute, LoadPC
  <1>2. /\ InFlight' /\ ISA!Plain /\ arch'.pc = pc' /\ arch'.bank = bank'
        /\ bank = arch.bank /\ rsa = ISA!Read(ir.rs1) /\ rsb = ISA!Read(ir.rs2)
        /\ pc_prior = arch.pc /\ ISA!Current = ir /\ ISA!Executes({ir.opcode})
    BY <1>1, RetiresPlainly
  <1>3. ir.opcode = "BTYPE" /\ pc = Add(arch.pc, SrcFour) /\ alu_flags = flags_o(SubOp, rsa, rsb)
    BY <1>1 DEF Cycle, InFlight, InstructionHeld, OperandsHeld, ResultsHeld, ReturnCycles, In
  <1>4. ir.funct3 \in {0, 1, 4, 5, 6, 7}
    BY <1>1, <1>3, InExecution DEF LegalInstruction
  <1>5. rsa \in Word /\ rsb \in Word
    BY DEF Cycle, CoreInv, CoreTypeOK
  <1>6. branch_taken <=> ISA!Comparison(ir.funct3, rsa, rsb)
    BY <1>3, <1>4, <1>5 DEF branch_taken, Cycle, ALUAgrees
  <1>7. pc' = IF branch_taken THEN Add(pc_prior, ir.imm) ELSE pc
    <2>1. pc_ld <=> branch_taken
      BY <1>1 DEF pc_ld, In, Resetting
    <2>2. pc_src_out = Add(pc_prior, ir.imm)
      BY <1>1, AddResult DEF pc_src_out, alu_imm_out, alu_op, a_mux_out, b_mux_out, In, Resetting
    <2> QED BY <1>1, <2>1, <2>2, Loads
  <1>8. arch'.pc = IF ISA!Comparison(ir.funct3, ISA!Read(ir.rs1), ISA!Read(ir.rs2))
                   THEN ISA!Add(arch.pc, ir.imm) ELSE ISA!NextPC
    BY <1>2, <1>3, <1>6, <1>7, AddSame, NextPCs
  <1>9. arch'.bank = arch.bank
    <2>1. ~rg_wr
      BY <1>1 DEF rg_wr, In
    <2> QED BY <1>1, <1>2, <2>1, WritesNothing
  <1>10. ISA!Executes({"BTYPE"})
    BY <1>2, <1>3
  <1> QED BY <1>2, <1>8, <1>9, <1>10, Zenon DEF ISA!Branch

LEMMA LoadRetires ==
  ASSUME Cycle, ITLDMemCmpl
  PROVE  InFlight' /\ ISA!LoadMemory
  <1>1. state = "Execute" /\ ir_state = "ITLDMemCmpl" /\ Retire /\ Quiet /\ pc' = pc
    BY DEF ITLDMemCmpl, Executing, Compute
  <1>2. /\ InFlight' /\ ISA!Plain /\ arch'.pc = pc' /\ arch'.bank = bank'
        /\ bank = arch.bank /\ rsa = ISA!Read(ir.rs1)
        /\ ISA!Current = ir /\ ISA!Executes({ir.opcode})
    BY <1>1, RetiresPlainly
  <1>3. /\ ir.opcode = "ITYPE_L" /\ pc = Add(arch.pc, SrcFour) /\ alu_out = Add(rsa, ir.imm)
        /\ mdr = rd_o(ir.funct3, alu_out, mem[word_addr(alu_out)], TRUE)
    BY <1>1 DEF Cycle, InFlight, InstructionHeld, OperandsHeld, ResultsHeld, ReturnCycles,
       AddressedCycles, In
  <1>4. rg_wr /\ wd_src_out = mdr
    BY <1>1 DEF rg_wr, wd_src_out, In
  <1>5. ir.funct3 \in 0 .. 7 /\ arch.bytes = MemoryBytes
    BY <1>1, InstructionAssumption, ProgramAssumption, InExecution DEF Cycle, CoreInv
  <1> DEFINE data == ISA!ReadBytes(ISA!Add(ISA!Read(ir.rs1), ir.imm), ir.funct3 % 4)
  <1>6. alu_out = ISA!Add(ISA!Read(ir.rs1), ir.imm)
    BY <1>2, <1>3, AddSame
  <1>7. wd_src_out = IF ir.funct3 < 4 THEN ISA!Extended(data, ISA!Length(ir.funct3 % 4)) ELSE data
    BY <1>3, <1>4, <1>5, <1>6, LoadsData DEF Cycle
  <1>8. ISA!Write(ir.rd, IF ir.funct3 < 4 THEN ISA!Extended(data, ISA!Length(ir.funct3 % 4))
                         ELSE data)
    <2>1. ISA!Write(ir.rd, wd_src_out)
      BY <1>1, <1>2, <1>4, WritesBack
    <2> HIDE DEF data
    <2> QED BY <1>7, <2>1
  <1>9. arch'.pc = ISA!NextPC
    BY <1>1, <1>2, <1>3, NextPCs
  <1>10. ISA!Executes({"ITYPE_L"})
    BY <1>2, <1>3
  <1> QED BY <1>2, <1>8, <1>9, <1>10, Zenon DEF ISA!LoadMemory

\* The word merged is the one at the address, and only a port or the RAM changes.
LEMMA StoreRetires ==
  ASSUME Cycle, STMemWrt
  PROVE  InFlight' /\ ISA!Store
  <1>1. state = "Execute" /\ ir_state = "STMemWrt" /\ Retire /\ Quiet /\ pc' = pc
    BY DEF STMemWrt, Executing, Compute
  <1>2. /\ InFlight' /\ arch' = View(TRUE)'
        /\ arch.running = TRUE /\ arch'.running = TRUE /\ ~ISA!InterruptDue /\ ISA!Current = ir
    BY <1>1, Retires
  <1>3. /\ arch.bytes = MemoryBytes /\ LegalInstruction(ir)
        /\ mstatus = arch.mstatus /\ mtvec = arch.mtvec /\ mie = arch.mie /\ mepc = arch.mepc
        /\ interrupt_in_progress = arch.in_handler
        /\ bank = arch.bank /\ mip \in ISA!Pend(arch.mip)
        /\ rsa = ISA!Read(ir.rs1) /\ rsb = ISA!Read(ir.rs2)
    BY <1>1, InExecution
  <1>4. /\ ir.opcode = "STYPE" /\ pc = Add(arch.pc, SrcFour) /\ alu_out = Add(rsa, ir.imm)
        /\ ir.funct3 # WORD_SIZE => storage_data_out = mem[word_addr(alu_out)]
        /\ io = arch.io \/ (IO_BIT \in alu_out /\ io = StoredPorts)
    BY <1>1 DEF Cycle, InFlight, InstructionHeld, OperandsHeld, ResultsHeld, ReturnCycles,
       AddressedCycles, In
  <1>5. ir.funct3 \in {0, 1, 2}
    BY <1>3, <1>4 DEF LegalInstruction
  <1>6. alu_out = ISA!Add(ISA!Read(ir.rs1), ir.imm)
    BY <1>3, <1>4, AddSame
  <1>7. addr_mux_to_pmmu = alu_out /\ mem_wr /\ ~rg_wr /\ rst_src_out = ir.funct3
    BY <1>1 DEF addr_mux_to_pmmu, addr_src, mem_wr, rg_wr, rst_src_out, In
  <1>8. /\ mem' = IF IO_BIT \in alu_out THEN mem
                  ELSE [mem EXCEPT ![word_addr(alu_out)] =
                          storage_data_in(ir.funct3, alu_out, rsb, storage_data_out)]
        /\ io' = [p \in Ports |-> IF IO_BIT \in alu_out /\ alu_out \cap IOBits = p
                                  THEN Slice(rsb, 0, ByteWidth) ELSE io[p]]
    BY <1>7 DEF Cycle, CoreClock, Datapath, Memory, OutputPorts, io_wr, io_addr
  <1> DEFINE addr == ISA!Add(ISA!Read(ir.rs1), ir.imm)
             data == ISA!Read(ir.rs2)
  <1>9. IF IO_BIT \in addr
        THEN /\ arch'.io = [p \in Ports |-> IF addr \cap IOBits = p
                                           THEN data \cap (0 .. (ByteWidth - 1)) ELSE arch.io[p]]
             /\ arch'.bytes = arch.bytes
        ELSE arch'.bytes = ISA!WriteBytes(addr, ir.funct3, data) /\ arch'.io = arch.io
    <2>1. alu_out = addr /\ rsb = data
      BY <1>3, <1>6
    <2> HIDE DEF addr, data
    <2>2. ASSUME IO_BIT \in alu_out
          PROVE  /\ MemoryBytes' = arch.bytes
                 /\ io' = [p \in Ports |-> IF alu_out \cap IOBits = p
                                          THEN rsb \cap (0 .. (ByteWidth - 1)) ELSE arch.io[p]]
      <3>1. MemoryBytes' = MemoryBytes
        BY <1>8, <2>2 DEF MemoryBytes
      <3>2. Slice(rsb, 0, ByteWidth) = rsb \cap (0 .. (ByteWidth - 1))
        BY DEF Slice
      <3>3. io' = [p \in Ports |-> IF alu_out \cap IOBits = p
                                  THEN rsb \cap (0 .. (ByteWidth - 1)) ELSE arch.io[p]]
        BY <1>4, <1>8, <2>2, <3>2 DEF StoredPorts
      <3> QED BY <1>3, <3>1, <3>3
    <2>3. ASSUME IO_BIT \notin alu_out
          PROVE  MemoryBytes' = ISA!WriteBytes(alu_out, ir.funct3, rsb) /\ io' = arch.io
      <3>1. storage_data_in(ir.funct3, alu_out, rsb, storage_data_out)
              = storage_data_in(ir.funct3, alu_out, rsb, mem[word_addr(alu_out)])
        <4>1. ir.funct3 = 2 => ir.funct3 % 4 = 2
          OBVIOUS
        <4> QED
          BY <1>4, <1>5, <4>1
          DEF storage_data_in, is_byte_size, is_halfword_size, WORD_SIZE
      <3>2. MemoryBytes' = ISA!WriteBytes(alu_out, ir.funct3, rsb)
        BY <1>3, <1>5, <1>8, <2>3, <3>1, StoresData DEF Cycle
      <3>3. io' = [p \in Ports |-> io[p]]
        BY <1>8, <2>3
      <3>4. io = [p \in Ports |-> io[p]]
        BY DEF Cycle, CoreInv, CoreTypeOK
      <3> QED BY <1>4, <2>3, <3>2, <3>3, <3>4
    <2> QED BY <1>2, <2>1, <2>2, <2>3, NewView
  <1>10. bank' = arch.bank
    <2>1. bank' = bank
      BY <1>7, Frames DEF Cycle
    <2> QED BY <1>3, <2>1
  <1>11. UNCHANGED <<mstatus, mie, mepc, mtvec, interrupt_in_progress>>
    BY <1>1 DEF Quiet, irqs
  <1>12. mip' \in ISA!Pend(arch.mip)
    BY <1>1, <1>3, LatchPends DEF Quiet
  <1>13. arch'.pc = ISA!NextPC /\ arch'.bank = arch.bank /\ arch'.running = arch.running
    BY <1>1, <1>2, <1>4, <1>10, NextPCs, NewView
  <1>14. ISA!NoCSR
    BY <1>2, <1>3, <1>11, <1>12, NewView DEF ISA!NoCSR
  <1>15. ISA!Executes({"STYPE"})
    BY <1>2, <1>4 DEF ISA!Executes
  <1> HIDE DEF addr, data
  <1> QED BY <1>2, <1>9, <1>13, <1>14, <1>15, Zenon DEF ISA!Store, addr, data
-----------------------------------------------------------------------------
(***************************************************************************)
(* CSR instructions and mret.                                              *)
(***************************************************************************)

LEMMA VoidRetires ==
  ASSUME Cycle, ITCSRVoid
  PROVE  InFlight' /\ ISA!CSRVoid
  <1>1. /\ state = "Execute" /\ ir_state = "ITCSR" /\ Retire /\ Quiet /\ pc' = pc
        /\ ir.funct3 \in {2, 3} /\ ir.rs1 = X0
    BY DEF ITCSRVoid, Executing, Compute, CSRRS, CSRRC
  <1>2. /\ InFlight' /\ ISA!Plain /\ arch'.pc = pc' /\ arch'.bank = bank'
        /\ bank = arch.bank /\ ISA!Current = ir /\ ISA!Executes({ir.opcode})
    BY <1>1, RetiresPlainly
  <1>3. ir.opcode = "ITYPE_E" /\ pc = Add(arch.pc, SrcFour)
    BY <1>1 DEF Cycle, InFlight, InstructionHeld, OperandsHeld, ReturnCycles, In
  <1>4. ~rg_wr
    BY <1>1 DEF rg_wr, In, reads_csr, CSRRW, CSRRS, CSRRC, CSRRWI, CSRRSI, CSRRCI
  <1>5. arch'.pc = ISA!NextPC /\ arch'.bank = arch.bank
    BY <1>1, <1>2, <1>3, <1>4, WritesNothing, NextPCs
  <1>6. ISA!Executes({"ITYPE_E"})
    BY <1>2, <1>3
  <1> QED BY <1>1, <1>2, <1>5, <1>6 DEF ISA!CSRVoid

\* What a CSR instruction leaves alone.
LEMMA CSRRetires ==
  ASSUME Cycle, state = "Execute", ir_state \in {"ITCSR", "ITCSRLd"}, Retire, pc' = pc,
         UNCHANGED irqs
  PROVE  /\ InFlight' /\ ISA!NoStore /\ arch'.pc = ISA!NextPC /\ arch'.running = arch.running
         /\ arch'.in_handler = arch.in_handler /\ arch'.bank = bank' /\ arch'.mip = mip'
         /\ arch'.mstatus = mstatus' /\ arch'.mie = mie' /\ arch'.mtvec = mtvec'
         /\ arch'.mepc = mepc'
         /\ ISA!Current = ir /\ ISA!Executes({"ITYPE_E"}) /\ rsa' = rsa /\ rsa = ISA!Read(ir.rs1)
         /\ mstatus = arch.mstatus /\ mtvec = arch.mtvec /\ mie = arch.mie /\ mepc = arch.mepc
  <1>1. /\ InFlight' /\ arch' = View(TRUE)'
        /\ arch.running = TRUE /\ arch'.running = TRUE /\ ~ISA!InterruptDue /\ ISA!Current = ir
    BY Retires
  <1>2. MemoryBytes' = MemoryBytes /\ io' = io
    BY Frames DEF Cycle, In
  <1>3. /\ arch.bytes = MemoryBytes /\ io = arch.io
        /\ mstatus = arch.mstatus /\ mtvec = arch.mtvec /\ mie = arch.mie /\ mepc = arch.mepc
        /\ interrupt_in_progress = arch.in_handler /\ rsa = ISA!Read(ir.rs1)
    BY InExecution
  <1>4. ir.opcode = "ITYPE_E" /\ pc = Add(arch.pc, SrcFour)
    BY DEF Cycle, InFlight, InstructionHeld, OperandsHeld, ReturnCycles, In
  <1>5. rsa' = rsa
    BY DEF Cycle, CoreClock, Datapath, Registers, Load, rsa_ld, In
  <1>6. interrupt_in_progress' = interrupt_in_progress
    BY DEF irqs
  <1> QED
    BY <1>1, <1>2, <1>3, <1>4, <1>5, <1>6, NextPCs, NewView DEF ISA!NoStore, ISA!Executes

\* The CSR that an instruction names, given the mip it saw.
OldCSR(csr, seen) ==
  CASE csr = "Mstatus" -> arch.mstatus
    [] csr = "Mie"     -> arch.mie
    [] csr = "Mtvec"   -> arch.mtvec
    [] csr = "Mepc"    -> arch.mepc
    [] csr = "Mip"     -> seen
    [] OTHER           -> {}

LEMMA CSRActs ==
  ASSUME NEW seen \in ISA!Pend(arch.mip), NEW i, NEW old, NEW new,
         ISA!Executes({"ITYPE_E"}), i = ISA!Current,
         i.funct3 \in {1, 2, 3, 5, 6, 7}, ~(i.funct3 \in {2, 3} /\ i.rs1 = X0),
         old = OldCSR(i.funct12, seen), new = ISA!CSRValue(i, old),
         ISA!Write(i.rd, old),
         arch'.mstatus = IF i.funct12 = "Mstatus" THEN new ELSE arch.mstatus,
         arch'.mie     = IF i.funct12 = "Mie"     THEN new ELSE arch.mie,
         arch'.mtvec   = IF i.funct12 = "Mtvec"   THEN new ELSE arch.mtvec,
         arch'.mepc    = IF i.funct12 = "Mepc"    THEN new ELSE arch.mepc,
         arch'.mip \in ISA!Pend(IF i.funct12 = "Mip" THEN new ELSE seen),
         arch'.pc = ISA!NextPC, ISA!NoStore,
         arch'.running = arch.running, arch'.in_handler = arch.in_handler
  PROVE  ISA!CSR
  BY Zenon DEF ISA!CSR, OldCSR

LEMMA WriteRetires ==
  ASSUME Cycle, ITCSRWrite(rsa')
  PROVE  InFlight' /\ ISA!CSR
  <1>1. /\ state = "Execute" /\ ir_state = "ITCSR" /\ Retire /\ UNCHANGED irqs /\ pc' = pc
        /\ ir.funct3 = 1 /\ ir.rd = X0 /\ WriteCSR(ir.funct12, rsa')
    BY DEF ITCSRWrite, Executing, CSRRW
  <1>2. /\ InFlight' /\ ISA!NoStore /\ arch'.pc = ISA!NextPC /\ arch'.running = arch.running
        /\ arch'.in_handler = arch.in_handler /\ arch'.bank = bank' /\ arch'.mip = mip'
        /\ arch'.mstatus = mstatus' /\ arch'.mie = mie' /\ arch'.mtvec = mtvec'
        /\ arch'.mepc = mepc'
        /\ ISA!Current = ir /\ ISA!Executes({"ITYPE_E"}) /\ rsa' = rsa /\ rsa = ISA!Read(ir.rs1)
        /\ mstatus = arch.mstatus /\ mtvec = arch.mtvec /\ mie = arch.mie /\ mepc = arch.mepc
    BY <1>1, CSRRetires
  <1>3. bank = arch.bank /\ mip \in ISA!Pend(arch.mip)
    BY <1>1, InExecution
  <1>4. ~rg_wr
    BY <1>1 DEF rg_wr, In, reads_csr, CSRRW, CSRRS, CSRRC, CSRRWI, CSRRSI, CSRRCI
  <1>5. \A w : ISA!Write(ir.rd, w)
    BY <1>1, <1>2, <1>3, <1>4, WritesNothing
  <1>6. \A old : ISA!CSRValue(ir, old) = rsa
    BY <1>1, <1>2 DEF ISA!CSRValue
  <1>7. /\ arch'.mstatus = IF ir.funct12 = "Mstatus" THEN rsa ELSE arch.mstatus
        /\ arch'.mie     = IF ir.funct12 = "Mie"     THEN rsa ELSE arch.mie
        /\ arch'.mtvec   = IF ir.funct12 = "Mtvec"   THEN rsa ELSE arch.mtvec
        /\ arch'.mepc    = IF ir.funct12 = "Mepc"    THEN rsa ELSE arch.mepc
    BY <1>1, <1>2 DEF WriteCSR
  <1>8. arch'.mip \in ISA!Pend(IF ir.funct12 = "Mip" THEN rsa ELSE mip)
    BY <1>1, <1>2 DEF WriteCSR, LatchMip, ISA!Pend
  <1> QED
    BY <1>1, <1>2, <1>3, <1>5, <1>6, <1>7, <1>8, CSRActs

LEMMA ModifyRetires ==
  ASSUME Cycle, ITCSRLd(rsa')
  PROVE  InFlight' /\ ISA!CSR
  <1>1. /\ state = "Execute" /\ ir_state = "ITCSRLd" /\ Retire /\ UNCHANGED irqs /\ pc' = pc
        /\ WriteCSR(ir.funct12, AlgoData(rsa'))
    BY DEF ITCSRLd, Executing
  <1>2. /\ InFlight' /\ ISA!NoStore /\ arch'.pc = ISA!NextPC /\ arch'.running = arch.running
        /\ arch'.in_handler = arch.in_handler /\ arch'.bank = bank' /\ arch'.mip = mip'
        /\ arch'.mstatus = mstatus' /\ arch'.mie = mie' /\ arch'.mtvec = mtvec'
        /\ arch'.mepc = mepc'
        /\ ISA!Current = ir /\ ISA!Executes({"ITYPE_E"}) /\ rsa' = rsa /\ rsa = ISA!Read(ir.rs1)
        /\ mstatus = arch.mstatus /\ mtvec = arch.mtvec /\ mie = arch.mie /\ mepc = arch.mepc
    BY <1>1, CSRRetires
  <1>3. reads_csr
    BY <1>1 DEF Cycle, InFlight, InstructionHeld, In
  <1>4. ir.funct3 \in {1, 2, 3, 5, 6, 7} /\ ~(ir.funct3 \in {2, 3} /\ ir.rs1 = X0)
    BY <1>3 DEF reads_csr, CSRRW, CSRRS, CSRRC, CSRRWI, CSRRSI, CSRRCI
  <1>5. PICK seen \in ISA!Pend(arch.mip) :
          LET old == IF ir.funct12 = "Mip" THEN seen ELSE ReadCSR(ir.funct12)
          IN /\ mip \in ISA!Pend(seen)
             /\ bank = IF ir.rd = X0 THEN arch.bank ELSE [arch.bank EXCEPT ![ir.rd] = old]
    BY <1>1 DEF Cycle, InFlight, CSRHeld
  <1> DEFINE old == OldCSR(ir.funct12, seen)
             new == ISA!CSRValue(ir, old)
  <1>6. old = IF ir.funct12 = "Mip" THEN seen ELSE ReadCSR(ir.funct12)
    BY <1>2 DEF OldCSR, ReadCSR
  <1>7. ISA!Write(ir.rd, old)
    <2>1. bank' = bank
      <3>1. ~rg_wr
        BY <1>1 DEF rg_wr, In
      <3> QED BY <3>1, Frames DEF Cycle
    <2> HIDE DEF old
    <2> QED BY <1>2, <1>5, <1>6, <2>1 DEF ISA!Write
  <1>8. ir.funct12 # "Mip" => AlgoData(rsa') = new
    <2> SUFFICES ASSUME ir.funct12 # "Mip" PROVE AlgoData(rsa') = new
      OBVIOUS
    <2>1. old = ReadCSR(ir.funct12)
      BY <1>6
    <2> HIDE DEF old
    <2>2. AlgoData(rsa') = ISA!CSRValue(ir, ReadCSR(ir.funct12))
      BY <1>2, <1>4
      DEF AlgoData, ISA!CSRValue, CSRRW, CSRRS, CSRRC, CSRRWI, CSRRSI, CSRRCI
    <2> QED BY <2>1, <2>2
  <1>9. ir.funct12 = "Mip" => AlgoData(rsa') \in ISA!Pend(new)
    <2> SUFFICES ASSUME ir.funct12 = "Mip" PROVE AlgoData(rsa') \in ISA!Pend(new)
      OBVIOUS
    <2>1. old = seen /\ ReadCSR(ir.funct12) = mip /\ mip \in {seen, seen \cup {MEI}}
      BY <1>5, <1>6 DEF ReadCSR, ISA!Pend
    <2> HIDE DEF old
    <2>2. CASE ir.funct3 \in {1, 2, 3}
      BY <1>2, <2>1, <2>2
      DEF AlgoData, ISA!CSRValue, ISA!Pend, CSRRW, CSRRS, CSRRC, CSRRWI, CSRRSI, CSRRCI
    <2>3. CASE ir.funct3 \in {5, 6, 7}
      BY <1>2, <2>1, <2>3
      DEF AlgoData, ISA!CSRValue, ISA!Pend, CSRRW, CSRRS, CSRRC, CSRRWI, CSRRSI, CSRRCI
    <2> QED BY <1>4, <2>2, <2>3
  <1> HIDE DEF old, new
  <1>10. /\ arch'.mstatus = IF ir.funct12 = "Mstatus" THEN new ELSE arch.mstatus
         /\ arch'.mie     = IF ir.funct12 = "Mie"     THEN new ELSE arch.mie
         /\ arch'.mtvec   = IF ir.funct12 = "Mtvec"   THEN new ELSE arch.mtvec
         /\ arch'.mepc    = IF ir.funct12 = "Mepc"    THEN new ELSE arch.mepc
    BY <1>1, <1>2, <1>8 DEF WriteCSR
  <1>11. arch'.mip \in ISA!Pend(IF ir.funct12 = "Mip" THEN new ELSE seen)
    BY <1>1, <1>2, <1>5, <1>9 DEF WriteCSR, LatchMip, ISA!Pend
  <1> QED
    BY <1>2, <1>4, <1>7, <1>10, <1>11, CSRActs DEF old, new

LEMMA MretRetires ==
  ASSUME Cycle, ITMretClr
  PROVE  InFlight' /\ ISA!Mret
  <1>1. /\ state = "Execute" /\ ir_state = "ITMretClr" /\ Retire /\ pc' = pc
        /\ interrupt_in_progress' = FALSE /\ LatchMip(mip) /\ UNCHANGED <<mstatus, mie, mepc, mtvec>>
    BY DEF ITMretClr, Executing
  <1>2. /\ InFlight' /\ arch' = View(TRUE)'
        /\ arch.running = TRUE /\ arch'.running = TRUE /\ ~ISA!InterruptDue /\ ISA!Current = ir
    BY <1>1, Retires
  <1>3. MemoryBytes' = MemoryBytes /\ io' = io /\ bank' = bank
    <2>1. ~rg_wr
      BY <1>1 DEF rg_wr, In
    <2> QED BY <1>1, <2>1, Frames DEF Cycle, In
  <1>4. /\ arch.bytes = MemoryBytes /\ io = arch.io /\ bank = arch.bank
        /\ mstatus = arch.mstatus /\ mtvec = arch.mtvec /\ mie = arch.mie /\ mepc = arch.mepc
        /\ mip \in ISA!Pend(arch.mip)
    BY <1>1, InExecution
  <1>5. /\ ir.opcode = "ITYPE_E" /\ ir.funct3 = 0 /\ ir.funct12 = "mret" /\ pc = mepc \ AlignBits
    BY <1>1 DEF Cycle, InFlight, InstructionHeld, OperandsHeld, In
  <1>6. mip' \in ISA!Pend(arch.mip)
    BY <1>1, <1>4, LatchPends
  <1> QED
    BY <1>1, <1>2, <1>3, <1>4, <1>5, <1>6, NewView DEF ISA!Mret, ISA!Executes, ISA!NoStore
-----------------------------------------------------------------------------
(***************************************************************************)
(* All steps.                                                              *)
(***************************************************************************)

LEMMA CycleStep ==
  ASSUME Cycle
  PROVE  InFlight' /\ [ISA!Next]_(ISA!isaVars)
  <1>1. \/ Sync0 \/ Vector0 \/ Vector1 \/ Vector2 \/ Vector3
        \/ Fetch \/ Decode
        \/ ExecuteALU \/ ExecuteMemory \/ ExecuteJump({branch_taken}) \/ ExecuteSystem({rsa'})
        \/ PreFetchRead \/ PreFetchInterrupt \/ IRQ0 \/ IRQ1 \/ IRQ2
        \/ Halt
    BY DEF Cycle, CoreClock, ClockOn
  <1>2. ASSUME Sync0 \/ Vector0 \/ Vector1 \/ Vector2 \/ Fetch \/ Decode \/ Halt
               \/ PreFetchRead \/ PreFetchInterrupt \/ IRQ0 \/ IRQ2
        PROVE  InFlight' /\ UNCHANGED ISA!isaVars
    BY <1>2, ResetCycle, FetchCycle, DecodeCycle, HaltCycle, FetchBegins, EntryBegins, EntrySaves,
       KeptView
  <1>3. CASE Vector3
    BY <1>3, StartCycle DEF ISA!Next
  <1>4. CASE IRQ1
    BY <1>4, EntryTaken DEF ISA!Next
  <1>5. CASE ExecuteALU
    BY <1>5, ArithmeticCycle, ArithmeticRetires, UpperRetires, KeptView DEF ExecuteALU, ISA!Next
  <1>6. CASE ExecuteMemory
    BY <1>6, LoadCycles, LoadRetires, StoreCycle, StoreReads, StoreRetires, KeptView
    DEF ExecuteMemory, ISA!Next
  <1>7. CASE ExecuteJump({branch_taken})
    BY <1>7, JumpCycle, JumpRetires, CompareCycle, BranchRetires, KeptView
    DEF ExecuteJump, ISA!Next
  <1>8. CASE ExecuteSystem({rsa'})
    <2>1. ~ITCSRIllegal
      <3>1. ASSUME ITCSRIllegal PROVE FALSE
        <4>1. state = "Execute" /\ ir_state = "ITCSR" /\ ir.funct3 \notin {1, 2, 3, 5, 6, 7}
          BY <3>1 DEF ITCSRIllegal, Executing, CSRRW, CSRRS, CSRRC, CSRRWI, CSRRSI, CSRRCI
        <4>2. ir.opcode = "ITYPE_E" /\ ir.funct3 # 0
          BY <4>1 DEF Cycle, InFlight, InstructionHeld, In
        <4> QED BY <4>1, <4>2, InExecution DEF LegalInstruction
      <3> QED BY <3>1
    <2>2. \/ ITEbreak \/ ITECall \/ ITMret \/ ITMretClr \/ ITCSRVoid \/ ITCSRRead
          \/ ITCSRWrite(rsa') \/ ITCSRLd(rsa')
      BY <1>8, <2>1 DEF ExecuteSystem
    <2> QED
      BY <2>2, BreakCycle, CallCycle, ReturnCycle, MretRetires, VoidRetires, CSRReads,
         WriteRetires, ModifyRetires, KeptView
      DEF ISA!Next
  <1> QED BY <1>1, <1>2, <1>3, <1>4, <1>5, <1>6, <1>7, <1>8

\* What the instruction in flight is told by.
Shown ==
  << state, vector_state, ir_state, mstatus, mie, mip, mepc, mtvec, interrupt_in_progress,
     pc, ir, fresh, pc_prior, rsa, rsb, alu_out, alu_flags, mdr, bank, mem,
     storage_data_out, io, arch >>

LEMMA StaysInFlight ==
  ASSUME InFlight, UNCHANGED Shown, reset_i => reset_i'
  PROVE  InFlight' /\ UNCHANGED ISA!isaVars
  <1>1. /\ UNCHANGED <<state, vector_state, ir_state, mstatus, mie, mip, mepc, mtvec,
                       interrupt_in_progress, pc, ir, fresh>>
        /\ UNCHANGED <<pc_prior, rsa, rsb, alu_out, alu_flags, mdr, bank, mem,
                       storage_data_out, io>>
        /\ arch' = arch
    BY DEF Shown
  <1>2. MemoryBytes' = MemoryBytes
    BY <1>1 DEF MemoryBytes
  <1>3. ArchHeld' /\ ResetHeld' /\ BetweenHeld'
    BY <1>1, <1>2, KeptView DEF InFlight, ArchHeld, ResetHeld, BetweenHeld, Resetting, In
  <1>4. InstructionHeld'
    BY <1>1, KeptView DEF InFlight, InstructionHeld, In, reads_csr
  <1>5. OperandsHeld'
    BY <1>1, KeptView DEF InFlight, OperandsHeld
  <1>6. ResultsHeld'
    <2>1. StoredPorts' = StoredPorts
      BY <1>1 DEF StoredPorts
    <2> QED BY <1>1, <2>1 DEF InFlight, ResultsHeld
  <1>7. CSRHeld'
    BY <1>1 DEF InFlight, CSRHeld, ReadCSR
  <1> QED BY <1>1, <1>3, <1>4, <1>5, <1>6, <1>7, KeptView DEF InFlight

\* The pin's edge waits in its latch, and the reset pin is only released.
LEMMA PinStep ==
  ASSUME InFlight, CoreIrqFalls \/ (~reset_i /\ CoreResetPin),
         arch' = IF Retired' THEN View(TRUE)' ELSE arch
  PROVE  InFlight' /\ UNCHANGED ISA!isaVars
  <1>1. /\ UNCHANGED <<state, vector_state, ir_state, mstatus, mie, mip, mepc, mtvec,
                       interrupt_in_progress, pc, ir, fresh>>
        /\ UNCHANGED <<pc_prior, rsa, rsb, alu_out, alu_flags, mdr, bank, mem,
                       storage_data_out, io>>
        /\ reset_i => reset_i'
    BY DEF CoreIrqFalls, CoreResetPin, IrqFalls, ResetPin, csrs, irqs, datapath
  <1>2. MemoryBytes' = MemoryBytes
    BY <1>1 DEF MemoryBytes
  <1>3. CASE state \in {"PreFetch", "IRQ2"}
    <2>1. arch' = View(TRUE)' /\ state' = state
      BY <1>1, <1>3 DEF Retired
    <2>2. /\ reset_i /\ arch.running = TRUE /\ arch.pc = pc /\ arch.bank = bank
          /\ arch.bytes = MemoryBytes /\ arch.io = io /\ arch.mstatus = mstatus
          /\ arch.mie = mie /\ arch.mip = mip /\ arch.mepc = mepc /\ arch.mtvec = mtvec
          /\ arch.in_handler = interrupt_in_progress
          /\ state = "IRQ2" => interrupt_in_progress
      BY <1>3 DEF InFlight, ArchHeld, BetweenHeld, In, Resetting
    <2>3. InFlight'
      BY <1>1, <1>3, <2>1, <2>2, NothingInFlight
    <2> QED BY <1>1, <1>2, <2>1, <2>2, <2>3, NewView DEF ISA!isaVars
  <1>4. CASE state \notin {"PreFetch", "IRQ2"}
    <2>1. arch' = arch
      BY <1>1, <1>4 DEF Retired
    <2> QED BY <1>1, <2>1, StaysInFlight DEF Shown
  <1> QED BY <1>3, <1>4
-----------------------------------------------------------------------------
RetireInv == CoreInv /\ PortInv /\ InFlight

LEMMA InitRetireInv == RetireInit => RetireInv /\ ISA!Init
  <1> SUFFICES ASSUME RetireInit PROVE RetireInv /\ ISA!Init
    OBVIOUS
  <1>1. CoreInit /\ ~reset_i /\ arch = View(FALSE)
    BY DEF RetireInit
  <1>2. CoreInv /\ PortInv
    BY <1>1, InitCoreInv, InitPortInv
  <1>3. state = "Reset" /\ vector_state = "Sync0" /\ interrupt_in_progress = FALSE
    BY <1>1 DEF CoreInit, Init
  <1>4. /\ arch.running = FALSE /\ arch.pc = pc /\ arch.bank = bank
        /\ arch.bytes = MemoryBytes /\ arch.io = io /\ arch.mstatus = mstatus
        /\ arch.mie = mie /\ arch.mip = mip /\ arch.mepc = mepc /\ arch.mtvec = mtvec
        /\ arch.in_handler = interrupt_in_progress
    BY <1>1 DEF View
  <1>5. mip \in ISA!Pend(mip)
    BY DEF ISA!Pend
  <1>6. ArchHeld /\ ResetHeld /\ BetweenHeld
    BY <1>3, <1>4, <1>5 DEF ArchHeld, ResetHeld, BetweenHeld, Resetting, In
  <1>7. InstructionHeld /\ OperandsHeld /\ ResultsHeld /\ CSRHeld
    BY <1>3 DEF InstructionHeld, OperandsHeld, ResultsHeld, CSRHeld, In
  <1> QED BY <1>2, <1>3, <1>4, <1>6, <1>7 DEF RetireInv, InFlight, ISA!Init

LEMMA RetireStep ==
  ASSUME ALUAgrees, RetireInv, Conforming, [RetireNext]_<<coreVars, arch>>
  PROVE  RetireInv' /\ [ISA!Next]_(ISA!isaVars)
  <1>1. [CoreNext]_coreVars
    BY DEF RetireNext, CoreNext
  <1>2. CoreInv' /\ PortInv'
    BY <1>1, CoreInvStep, PortInvStep DEF RetireInv
  <1>3. InFlight' /\ [ISA!Next]_(ISA!isaVars)
    <2>1. CASE CoreClock /\ arch' = IF Retired' THEN View(TRUE)' ELSE arch
      BY <2>1, CycleStep DEF RetireInv, Cycle
    <2>2. CASE /\ CoreIrqFalls \/ (~reset_i /\ CoreResetPin)
               /\ arch' = IF Retired' THEN View(TRUE)' ELSE arch
      BY <2>2, PinStep DEF RetireInv
    <2>3. CASE UNCHANGED <<coreVars, arch>>
      BY <2>3, StaysInFlight
      DEF RetireInv, Shown, coreVars, vars, datapath, csrs, irqs
    <2> QED BY <2>1, <2>2, <2>3 DEF RetireNext
  <1> QED BY <1>2, <1>3 DEF RetireInv

-----------------------------------------------------------------------------
(***************************************************************************)
(* The theorems.                                                           *)
(***************************************************************************)

\* The core implements the instruction set: its programs see registers, memory,
\* ports and CSRs change by whole instructions, and interrupts between them,
\* whatever cycles ControlMatrix and RangerRiscProcessor.sv take over one.
THEOREM Refinement == RetireSpec /\ []Conforming => ImplementsISA
  <1>1. ALUAgrees
    BY ALUIsRight
  <1>2. RetireInit => RetireInv /\ ISA!Init
    BY InitRetireInv
  <1>3. RetireInv /\ Conforming /\ [RetireNext]_<<coreVars, arch>>
          => RetireInv' /\ [ISA!Next]_(ISA!isaVars)
    BY <1>1, RetireStep
  <1> QED BY <1>2, <1>3, PTL DEF RetireSpec, ImplementsISA, ISA!Spec

\* In every cycle PC, IR and the datapath's registers hold what the instruction
\* being executed needs there, and nothing of it shows before it retires.
THEOREM Flight == RetireSpec /\ []Conforming => []FlightKnown
  <1>1. ALUAgrees
    BY ALUIsRight
  <1>2. RetireInit => RetireInv
    BY InitRetireInv
  <1>3. RetireInv /\ Conforming /\ [RetireNext]_<<coreVars, arch>> => RetireInv'
    BY <1>1, RetireStep
  <1>4. RetireInv /\ Conforming => FlightKnown
    BY DEF RetireInv, FlightKnown
  <1> QED BY <1>2, <1>3, <1>4, PTL DEF RetireSpec
=============================================================================
