------------------------ MODULE ControlMatrix_proofs ------------------------
(***************************************************************************)
(* The control unit, for every word width, program, reset vector and       *)
(* behaviour of the pins: its types, and what InterruptFlow says of its    *)
(* interrupt logic.  The theorems about the control unit alone do not      *)
(* mention the history variables of InterruptFlow.                         *)
(***************************************************************************)
EXTENDS InterruptFlow, TLAPS
-----------------------------------------------------------------------------
(* The types. *)

\* What an action owes to TypeOK, by the registers it concerns.
ControlOK ==
  /\ state \in MatrixState
  /\ vector_state \in ResetState
  /\ ir_state \in InstructionState
CsrOK == {mstatus, mie, mip, mepc, mtvec} \subseteq Word
IrqOK == {interrupt_in_progress, irq_triggered, irq_reset_trigger} \subseteq BOOLEAN
PathOK == pc \in Word /\ fresh \in BOOLEAN /\ ir \in Program

\* The parts make up the whole.
LEMMA TypeParts == TypeOK <=> ControlOK /\ CsrOK /\ IrqOK /\ PathOK /\ reset_i \in BOOLEAN
  BY DEF TypeOK, ControlOK, CsrOK, IrqOK, PathOK

LEMMA TypePartsPrime ==
  TypeOK' <=> ControlOK' /\ CsrOK' /\ IrqOK' /\ PathOK' /\ reset_i' \in BOOLEAN
  BY DEF TypeOK, ControlOK, CsrOK, IrqOK, PathOK

\* The closing edge takes the control state where it is told, or to Sync0.
LEMMA SequenceControl ==
  ASSUME ControlOK, NEW s \in MatrixState, NEW i \in InstructionState, Sequence(s, i)
  PROVE  ControlOK'
  BY DEF ControlOK, Sequence, MatrixState, ResetState

LEMMA VectorSequenceControl ==
  ASSUME ControlOK, NEW v \in ResetState, VectorSequence(v)
  PROVE  ControlOK'
  BY DEF ControlOK, VectorSequence, MatrixState, ResetState

\* The decoder yields a state the sequencer knows.
LEMMA DecodedType == Decoded \in InstructionState
  BY DEF Decoded, InstructionState

\* MEI is a bit of a word, so setting or clearing it yields a word.
LEMMA LatchType ==
  ASSUME NEW value \in Word, LatchMip(value)
  PROVE  mip' \in Word
  BY WordAssumption DEF LatchMip, Word

LEMMA QuietType ==
  ASSUME CsrOK, IrqOK, Quiet
  PROVE  CsrOK' /\ IrqOK'
  <1>1. mip' \in Word
    BY LatchType DEF Quiet, CsrOK
  <1> QED
    BY <1>1 DEF Quiet, CsrOK, IrqOK, irqs

LEMMA WriteCSRType ==
  ASSUME CsrOK, NEW c, NEW data \in Word, WriteCSR(c, data)
  PROVE  CsrOK'
  <1>1. mip' \in Word
    BY LatchType DEF WriteCSR, CsrOK
  <1> QED
    BY <1>1 DEF WriteCSR, CsrOK

LEMMA ResetTriggerType ==
  ASSUME IrqOK, NEW level \in BOOLEAN, ResetTrigger(level)
  PROVE  irq_reset_trigger' \in BOOLEAN /\ irq_triggered' \in BOOLEAN
  BY DEF IrqOK, ResetTrigger

\* The value a CSR instruction forms is a word.
LEMMA AlgoDataType ==
  ASSUME CsrOK, PathOK, NEW rsa_i \in Word,
         ir.funct3 \in {CSRRW, CSRRS, CSRRC, CSRRWI, CSRRSI, CSRRCI}
  PROVE  AlgoData(rsa_i) \in Word
  <1>1. ir.rs1 \in Word
    BY ProgramAssumption, WordAssumption DEF PathOK, RegId, Word
  <1>2. ReadCSR(ir.funct12) \in Word
    BY DEF ReadCSR, CsrOK, Word
  <1> QED
    BY <1>1, <1>2 DEF AlgoData, Word, CSRRW, CSRRS, CSRRC, CSRRWI, CSRRSI, CSRRCI
-----------------------------------------------------------------------------
\* ITCSRLd is entered only by the instructions that write back in it, for which
\* AlgoData has a case; TypeOK alone does not say so.
CsrReadLegal ==
  Executing("ITCSRLd") =>
    ir.funct3 \in {CSRRW, CSRRS, CSRRC, CSRRWI, CSRRSI, CSRRCI}

TypeInv == TypeOK /\ CsrReadLegal

LEMMA InitTypeInv == Init => TypeInv
  BY WordAssumption DEF Init, TypeInv, TypeOK, CsrReadLegal, Executing, Word,
     MatrixState, ResetState, InstructionState

\* The cycles of the reset sequence.
LEMMA ResetTypes ==
  ASSUME TypeOK, Sync0 \/ Vector0 \/ Vector1 \/ Vector2 \/ Vector3
  PROVE  ControlOK' /\ CsrOK' /\ IrqOK' /\ PathOK'
  <1> USE TypeParts
  <1>c. ControlOK'
    <2>1. CASE Vector3
      BY <2>1, SequenceControl DEF Vector3, MatrixState, InstructionState
    <2>2. CASE Sync0 \/ Vector0 \/ Vector1 \/ Vector2
      BY <2>2, VectorSequenceControl DEF Sync0, Vector0, Vector1, Vector2, ResetState
    <2> QED BY <2>1, <2>2
  <1>1. CASE Sync0 \/ Vector3
    BY <1>1, <1>c, QuietType DEF Sync0, Vector3, PathOK
  <1>2. CASE Vector0
    <2>1. mip \ {MEI} \in Word
      BY DEF CsrOK, Word
    <2>2. mip' \in Word /\ {} \in Word
      BY <1>2, <2>1, LatchType DEF Vector0, Word
    <2>3. irq_reset_trigger' \in BOOLEAN /\ irq_triggered' \in BOOLEAN
      BY <1>2, ResetTriggerType DEF Vector0
    <2> QED
      BY <1>2, <1>c, <2>2, <2>3, WordAssumption DEF Vector0, CsrOK, IrqOK, PathOK
  <1>3. CASE Vector1 \/ Vector2
    <2>1. mip' \in Word
      BY <1>3, LatchType DEF Vector1, Vector2, CsrOK
    <2>2. irq_reset_trigger' \in BOOLEAN /\ irq_triggered' \in BOOLEAN
      BY <1>3, ResetTriggerType DEF Vector1, Vector2
    <2> QED
      BY <1>3, <1>c, <2>1, <2>2, WordAssumption DEF Vector1, Vector2, CsrOK, IrqOK, PathOK
  <1> QED BY <1>1, <1>2, <1>3

\* Every cycle that keeps the interrupt logic quiet keeps its types.
LEMMA QuietTypes ==
  ASSUME TypeOK, NEW s \in MatrixState, NEW i \in InstructionState,
         Sequence(s, i), Quiet, pc' \in Word, ir' \in Program, fresh' \in BOOLEAN
  PROVE  ControlOK' /\ CsrOK' /\ IrqOK' /\ PathOK'
  BY TypeParts, QuietType, SequenceControl DEF PathOK

\* Loading the PC, or leaving it alone, yields a word.
LEMMA LoadTypes ==
  ASSUME TypeOK, Compute \/ \E words \in SUBSET Word : LoadPC(words)
  PROVE  Quiet /\ pc' \in Word /\ ir' \in Program /\ fresh' \in BOOLEAN
  BY DEF TypeOK, Compute, LoadPC

\* What an instruction that does not touch the CSRs or the interrupt can do to
\* the control state: it stays in Execute, retires, or stops.
LEMMA PlainTypes ==
  ASSUME TypeOK,
         NEW s \in MatrixState, NEW i \in InstructionState, Sequence(s, i),
         Compute \/ \E words \in SUBSET Word : LoadPC(words)
  PROVE  ControlOK' /\ CsrOK' /\ IrqOK' /\ PathOK'
  BY LoadTypes, QuietTypes

LEMMA ExecutePlainTypes ==
  ASSUME TypeOK,
         ExecuteALU \/ ExecuteMemory \/ ExecuteJump(BOOLEAN)
           \/ ITEbreak \/ ITECall \/ ITMret \/ ITCSRVoid \/ ITCSRRead \/ ITCSRIllegal
  PROVE  ControlOK' /\ CsrOK' /\ IrqOK' /\ PathOK'
  <1>1. Addr \in SUBSET Word /\ {mepc \ AlignBits} \in SUBSET Word
    BY WordAssumption DEF TypeOK, Word
  <1>2. Compute \/ \E words \in SUBSET Word : LoadPC(words)
    BY <1>1 DEF ExecuteALU, ExecuteMemory, ExecuteJump, RType, RTCmpl, ITALU,
       ITALUCmpl, UType, UTypeAui, ITLoad, ITLDMemAcc, ITLDMemMdr, ITLDMemCmpl,
       STStore, STMemAcc, STMemWrt, ITJalr, ITJalrRtr, JTJal, JTJalRtr, BType,
       BTBranch, ITEbreak, ITECall, ITMret, ITCSRVoid, ITCSRRead, ITCSRIllegal
  <1>3. \E s \in MatrixState, i \in InstructionState : Sequence(s, i)
    <2> DEFINE Goes == \E s \in MatrixState, i \in InstructionState : Sequence(s, i)
    <2>1. Retire => Goes
      BY DEF Retire, MatrixState, InstructionState
    <2>2. \A i \in InstructionState : Continue(i) => Goes
      BY DEF Continue, MatrixState
    <2>3. \A i \in InstructionState : WriteBackIn(i) => Goes
      BY <2>1, <2>2 DEF WriteBackIn
    <2>4. Sequence("Fetch", "ITLoad") \/ Sequence("Halt", "ITLoad") => Goes
      BY DEF MatrixState, InstructionState
    <2> HIDE DEF Goes
    <2> SUFFICES Goes
      BY DEF Goes
    <2>5. CASE ExecuteALU
      BY <2>5, <2>1, <2>3 DEF ExecuteALU, RType, RTCmpl, ITALU, ITALUCmpl, UType,
         UTypeAui, InstructionState
    <2>6. CASE ExecuteMemory
      BY <2>6, <2>1, <2>2 DEF ExecuteMemory, ITLoad, ITLDMemAcc, ITLDMemMdr,
         ITLDMemCmpl, STStore, STMemAcc, STMemWrt, InstructionState
    <2>7. CASE ExecuteJump(BOOLEAN)
      BY <2>7, <2>1, <2>2, <2>3 DEF ExecuteJump, ITJalr, ITJalrRtr, JTJal, JTJalRtr,
         BType, BTBranch, InstructionState
    <2>8. CASE ITEbreak \/ ITECall \/ ITMret \/ ITCSRVoid \/ ITCSRRead \/ ITCSRIllegal
      BY <2>8, <2>1, <2>2, <2>4 DEF ITEbreak, ITECall, ITMret, ITCSRVoid, ITCSRRead,
         ITCSRIllegal, InstructionState
    <2> QED
      BY <2>5, <2>6, <2>7, <2>8
  <1> QED BY <1>2, <1>3, PlainTypes

\* The cycles that write a CSR or move the interrupt flags.
LEMMA ExecuteSystemTypes ==
  ASSUME TypeInv,
         ITMretClr \/ \E rsa_i \in Data : ITCSRWrite(rsa_i) \/ ITCSRLd(rsa_i)
  PROVE  ControlOK' /\ CsrOK' /\ IrqOK' /\ PathOK'
  <1> USE TypeParts DEF TypeInv
  <1>c. ControlOK'
    BY SequenceControl DEF ITMretClr, ITCSRWrite, ITCSRLd, Retire, MatrixState,
       InstructionState
  <1>1. CASE ITMretClr
    <2>1. mip' \in Word
      BY <1>1, LatchType DEF ITMretClr, CsrOK
    <2> QED BY <1>1, <1>c, <2>1 DEF ITMretClr, CsrOK, IrqOK, PathOK
  <1>2. ASSUME NEW rsa_i \in Data, ITCSRWrite(rsa_i)
        PROVE  CsrOK' /\ IrqOK' /\ PathOK'
    <2>1. CsrOK'
      BY <1>2, WriteCSRType, WordAssumption DEF ITCSRWrite
    <2> QED BY <1>2, <2>1 DEF ITCSRWrite, IrqOK, PathOK, irqs
  <1>3. ASSUME NEW rsa_i \in Data, ITCSRLd(rsa_i)
        PROVE  CsrOK' /\ IrqOK' /\ PathOK'
    <2>1. AlgoData(rsa_i) \in Word
      BY <1>3, AlgoDataType, WordAssumption DEF ITCSRLd, CsrReadLegal
    <2>2. CsrOK'
      BY <1>3, <2>1, WriteCSRType DEF ITCSRLd
    <2> QED BY <1>3, <2>2 DEF ITCSRLd, IrqOK, PathOK, irqs
  <1> QED BY <1>c, <1>1, <1>2, <1>3

\* Between two instructions.
LEMMA PreFetchTypes ==
  ASSUME TypeOK, PreFetchRead \/ PreFetchInterrupt \/ IRQ0 \/ IRQ1 \/ IRQ2 \/ Halt
  PROVE  ControlOK' /\ CsrOK' /\ IrqOK' /\ PathOK'
  <1> USE TypeParts
  <1>c. ControlOK'
    BY SequenceControl DEF PreFetchRead, PreFetchInterrupt, IRQ0, IRQ1, IRQ2, Halt,
       MatrixState, InstructionState
  <1>1. CASE PreFetchRead \/ IRQ2 \/ Halt
    BY <1>1, <1>c, QuietType DEF PreFetchRead, IRQ2, Halt, Compute, PathOK
  <1>2. CASE PreFetchInterrupt
    <2>1. mip' \in Word
      BY <1>2, LatchType DEF PreFetchInterrupt, CsrOK
    <2> QED BY <1>2, <1>c, <2>1 DEF PreFetchInterrupt, CsrOK, IrqOK, PathOK
  <1>3. CASE IRQ0
    <2>1. CsrOK'
      BY <1>3, WriteCSRType DEF IRQ0, PathOK
    <2>2. irq_reset_trigger' \in BOOLEAN /\ irq_triggered' \in BOOLEAN
      BY <1>3, ResetTriggerType DEF IRQ0
    <2> QED BY <1>3, <1>c, <2>1, <2>2 DEF IRQ0, IrqOK, PathOK
  <1>4. CASE IRQ1
    <2>1. mip \ {MEI} \in Word
      BY DEF CsrOK, Word
    <2>2. mip' \in Word
      BY <1>4, <2>1, LatchType DEF IRQ1
    <2>3. irq_reset_trigger' \in BOOLEAN /\ irq_triggered' \in BOOLEAN
      BY <1>4, ResetTriggerType DEF IRQ1
    <2> QED BY <1>4, <1>c, <2>2, <2>3 DEF IRQ1, CsrOK, IrqOK, PathOK
  <1> QED BY <1>1, <1>2, <1>3, <1>4
-----------------------------------------------------------------------------
\* No cycle but ITCSRRead enters ITCSRLd, and none changes IR while it is there.
LEMMA CsrReadLegalStep ==
  ASSUME TypeInv, Next
  PROVE  CsrReadLegal'
  <1>1. CASE ITCSRRead
    BY <1>1 DEF ITCSRRead, reads_csr, CsrReadLegal, Executing, Compute
  <1>2. CASE IrqFalls \/ ResetPin
    BY <1>2 DEF IrqFalls, ResetPin, TypeInv, CsrReadLegal, Executing
  <1>3. CASE Clock /\ ~ITCSRRead
    <2>1. Decoded # "ITCSRLd"
      BY DEF Decoded
    <2>2. CASE Decode
      BY <2>1, <2>2 DEF Decode, CsrReadLegal, Executing, Sequence
    <2>3. CASE Sync0 \/ Vector0 \/ Vector1 \/ Vector2 \/ Vector3 \/ Fetch
               \/ PreFetchRead \/ PreFetchInterrupt \/ IRQ0 \/ IRQ1 \/ IRQ2 \/ Halt
      BY <2>3 DEF Sync0, Vector0, Vector1, Vector2, Vector3, Fetch, PreFetchRead,
         PreFetchInterrupt, IRQ0, IRQ1, IRQ2, Halt, CsrReadLegal, Executing,
         Sequence, VectorSequence
    <2>4. CASE ExecuteALU
      BY <2>4 DEF ExecuteALU, RType, RTCmpl, ITALU, ITALUCmpl, UType, UTypeAui,
         WriteBackIn, Retire, Continue, Sequence, CsrReadLegal, Executing
    <2>5. CASE ExecuteMemory
      BY <2>5 DEF ExecuteMemory, ITLoad, ITLDMemAcc, ITLDMemMdr, ITLDMemCmpl,
         STStore, STMemAcc, STMemWrt, Retire, Continue, Sequence, CsrReadLegal, Executing
    <2>6. CASE ExecuteJump(BOOLEAN)
      BY <2>6 DEF ExecuteJump, ITJalr, ITJalrRtr, JTJal, JTJalRtr, BType, BTBranch,
         WriteBackIn, Retire, Continue, Sequence, CsrReadLegal, Executing
    <2>7. CASE ExecuteSystem(Data)
      BY <2>7, <1>3 DEF ExecuteSystem, ITEbreak, ITECall, ITMret, ITMretClr, ITCSRVoid,
         ITCSRIllegal, ITCSRWrite, ITCSRLd, Retire, Continue, Sequence, CsrReadLegal,
         Executing
    <2> QED BY <1>3, <2>2, <2>3, <2>4, <2>5, <2>6, <2>7 DEF Clock, ClockOn
  <1> QED BY <1>1, <1>2, <1>3 DEF Next

LEMMA FetchDecodeTypes ==
  ASSUME TypeOK, Fetch \/ Decode
  PROVE  ControlOK' /\ CsrOK' /\ IrqOK' /\ PathOK'
  <1>1. CASE Fetch
    <2>1. pc' \in Word /\ ir' \in Program /\ fresh' \in BOOLEAN
      BY <1>1 DEF Fetch, TypeOK
    <2> QED BY <1>1, <2>1, QuietTypes DEF Fetch, MatrixState, InstructionState
  <1>2. CASE Decode
    <2>1. pc' \in Word /\ ir' \in Program /\ fresh' \in BOOLEAN
      BY <1>2, WordAssumption DEF Decode, TypeOK
    <2> QED BY <1>2, <2>1, DecodedType, QuietTypes DEF Decode, MatrixState
  <1> QED BY <1>1, <1>2

LEMMA TypeStep ==
  ASSUME TypeInv, Next
  PROVE  TypeOK'
  <1> USE DEF TypeInv
  <1>1. CASE Clock
    <2>1. ControlOK' /\ CsrOK' /\ IrqOK' /\ PathOK'
      BY <1>1, ResetTypes, FetchDecodeTypes, ExecutePlainTypes, ExecuteSystemTypes,
         PreFetchTypes DEF Clock, ClockOn, ExecuteSystem
    <2> QED BY <1>1, <2>1, TypeParts, TypePartsPrime DEF Clock, ClockOn
  <1>2. CASE IrqFalls
    BY <1>2 DEF IrqFalls, TypeOK, csrs
  <1>3. CASE ResetPin
    BY <1>3 DEF ResetPin, TypeOK, csrs, irqs
  <1> QED BY <1>1, <1>2, <1>3 DEF Next

\* The registers of the control unit hold values of their types in every
\* behaviour: no decoder output leaves the sequencer without a state to go to,
\* and no CSR write forms anything but a word.
THEOREM ControlMatrixTypes == Spec => []TypeOK
  <1>1. TypeInv /\ [Next]_vars => TypeInv'
    <2> SUFFICES ASSUME TypeInv, [Next]_vars PROVE TypeInv'
      OBVIOUS
    <2>1. CASE Next
      BY <2>1, TypeStep, CsrReadLegalStep DEF TypeInv
    <2>2. CASE UNCHANGED vars
      BY <2>2 DEF vars, csrs, irqs, TypeInv, TypeOK, CsrReadLegal, Executing
    <2> QED BY <2>1, <2>2
  <1>2. TypeInv => TypeOK
    BY DEF TypeInv
  <1> QED BY InitTypeInv, <1>1, <1>2, PTL DEF Spec
-----------------------------------------------------------------------------
(* The interrupt logic. *)

EarlyReset == state = "Reset" /\ vector_state \in {"Sync0", "Vector0"}
LateReset  == state = "Reset" /\ vector_state \in {"Vector1", "Vector2", "Vector3"}

\* The latch is held cleared only where the code means to, and while it is held
\* it is clear.
TriggerInv ==
  /\ irq_reset_trigger =>
       /\ state = "IRQ1" \/ (state = "Reset" /\ vector_state # "Vector3")
       /\ ~irq_triggered
  /\ state = "IRQ1" => irq_reset_trigger

\* Every place that can make an interrupt pending has been heard of.
HeardInv ==
  /\ irq_triggered => heard
  /\ MEI \in mip => heard \/ EarlyReset
  /\ state \in {"IRQ0", "IRQ1"} => heard

\* The enable bit comes from software alone.
ArmedInv ==
  /\ MEI \in mie => armed \/ EarlyReset
  /\ state \in {"IRQ0", "IRQ1", "IRQ2"} => armed

\* What the reset sequence has already put right.
ReleasedInv ==
  LateReset => ~interrupt_in_progress /\ mie = {}

ResumeInv ==
  /\ interrupt_in_progress /\ state \notin {"Reset", "IRQ0"} => mepc = resume
  /\ state = "IRQ0" => resume = pc

\* The inductive invariant of the interrupt flow.
FlowInv ==
  /\ FlowTypeOK /\ TypeInv
  /\ TriggerInv /\ HeardInv /\ ArmedInv /\ ReleasedInv /\ ResumeInv /\ EdgeKept
-----------------------------------------------------------------------------
(***************************************************************************)
(* The cycles fall into kinds that treat the interrupt logic alike.        *)
(***************************************************************************)

\* Where a cycle that neither starts nor finishes an entry may go.
Elsewhere ==
  /\ state' \notin {"IRQ0", "IRQ1", "IRQ2"}
  /\ state' = "Reset" => vector_state' = "Sync0"

\* A cycle that leaves the CSRs and the interrupt logic alone.
QuietCycle ==
  /\ state \notin {"Reset", "IRQ0", "IRQ1"}
  /\ ~(state = "PreFetch" /\ InterruptTaken)
  /\ \A c : ~SoftwareWrites(c)
  /\ Quiet
  /\ Elsewhere

\* A cycle in which software writes the CSR its instruction names.
WriteCycle ==
  /\ state = "Execute"
  /\ SoftwareWrites(ir.funct12)
  /\ \E data : WriteCSR(ir.funct12, data)
  /\ UNCHANGED irqs
  /\ Elsewhere

LEMMA SequenceElsewhere ==
  ASSUME NEW s, NEW i, Sequence(s, i), s \notin {"IRQ0", "IRQ1", "IRQ2", "Reset"}
  PROVE  Elsewhere
  BY DEF Sequence, Elsewhere

\* A cycle of Execute that is in neither of the two writing states writes nothing.
LEMMA NoWrite ==
  ASSUME state # "Execute" \/ ir_state \notin {"ITCSR", "ITCSRLd"}
           \/ (ir_state = "ITCSR" /\ ~(ir.funct3 = CSRRW /\ ir.rd = X0)),
         NEW c
  PROVE  ~SoftwareWrites(c)
  BY DEF SoftwareWrites

LEMMA PlainCycles ==
  ASSUME \/ Fetch \/ Decode \/ PreFetchRead \/ IRQ2 \/ Halt
         \/ ExecuteALU \/ ExecuteMemory \/ ExecuteJump(BOOLEAN)
         \/ ITEbreak \/ ITECall \/ ITMret \/ ITCSRVoid \/ ITCSRRead \/ ITCSRIllegal
  PROVE  QuietCycle
  <1>r. Retire => Elsewhere
    BY SequenceElsewhere DEF Retire
  <1>n. \A i : Continue(i) => Elsewhere
    BY SequenceElsewhere DEF Continue
  <1>w. \A i : WriteBackIn(i) => Elsewhere
    BY <1>r, <1>n DEF WriteBackIn
  <1>1. CASE Fetch \/ Decode \/ PreFetchRead \/ IRQ2 \/ Halt
    <2>1. Elsewhere
      BY <1>1, SequenceElsewhere DEF Fetch, Decode, PreFetchRead, IRQ2, Halt
    <2> QED
      BY <1>1, <2>1, NoWrite DEF QuietCycle, Fetch, Decode, PreFetchRead, IRQ2, Halt, Compute
  <1>2. CASE ExecuteALU
    <2>1. Elsewhere /\ Quiet
      BY <1>2, <1>r, <1>w DEF ExecuteALU, RType, RTCmpl, ITALU, ITALUCmpl, UType,
         UTypeAui, Compute
    <2> QED
      BY <1>2, <2>1, NoWrite DEF QuietCycle, ExecuteALU, RType, RTCmpl, ITALU,
         ITALUCmpl, UType, UTypeAui, Executing
  <1>3. CASE ExecuteMemory
    <2>1. Elsewhere /\ Quiet
      BY <1>3, <1>r, <1>n DEF ExecuteMemory, ITLoad, ITLDMemAcc, ITLDMemMdr,
         ITLDMemCmpl, STStore, STMemAcc, STMemWrt, Compute
    <2> QED
      BY <1>3, <2>1, NoWrite DEF QuietCycle, ExecuteMemory, ITLoad, ITLDMemAcc,
         ITLDMemMdr, ITLDMemCmpl, STStore, STMemAcc, STMemWrt, Executing
  <1>4. CASE ExecuteJump(BOOLEAN)
    <2>1. Elsewhere /\ Quiet
      BY <1>4, <1>r, <1>n, <1>w DEF ExecuteJump, ITJalr, ITJalrRtr, JTJal, JTJalRtr,
         BType, BTBranch, Compute, LoadPC
    <2> QED
      BY <1>4, <2>1, NoWrite DEF QuietCycle, ExecuteJump, ITJalr, ITJalrRtr, JTJal,
         JTJalRtr, BType, BTBranch, Executing
  <1>5. CASE ITEbreak \/ ITECall \/ ITMret \/ ITCSRVoid \/ ITCSRRead \/ ITCSRIllegal
    <2>1. Elsewhere /\ Quiet
      BY <1>5, <1>r, <1>n, SequenceElsewhere DEF ITEbreak, ITECall, ITMret, ITCSRVoid,
         ITCSRRead, ITCSRIllegal, Compute, LoadPC
    <2>2. ir_state \in {"ITEbreak", "ITECall", "ITMret"} \/ (ir_state = "ITCSR" /\ ~(ir.funct3 = CSRRW /\ ir.rd = X0))
      BY <1>5 DEF ITEbreak, ITECall, ITMret, ITCSRVoid, ITCSRRead, reads_csr,
         ITCSRIllegal, Executing, CSRRW, CSRRS, CSRRC, CSRRWI, CSRRSI, CSRRCI
    <2> QED
      BY <1>5, <2>1, <2>2, NoWrite DEF QuietCycle, ITEbreak, ITECall, ITMret, ITCSRVoid,
         ITCSRRead, ITCSRIllegal, Executing
  <1> QED BY <1>1, <1>2, <1>3, <1>4, <1>5

LEMMA WriteCycles ==
  ASSUME NEW rsa_i, ITCSRWrite(rsa_i) \/ ITCSRLd(rsa_i)
  PROVE  WriteCycle /\ UNCHANGED <<pc, ir>>
  <1>1. Elsewhere
    BY SequenceElsewhere DEF ITCSRWrite, ITCSRLd, Retire
  <1> QED
    BY <1>1 DEF WriteCycle, SoftwareWrites, ITCSRWrite, ITCSRLd, Executing

\* Every cycle is of one of these kinds.
LEMMA Kinds ==
  ASSUME Clock
  PROVE  \/ Sync0 \/ Vector0 \/ Vector1 \/ Vector2 \/ Vector3
         \/ QuietCycle \/ WriteCycle
         \/ ITMretClr \/ PreFetchInterrupt \/ IRQ0 \/ IRQ1
  BY PlainCycles, WriteCycles DEF Clock, ClockOn, ExecuteSystem
-----------------------------------------------------------------------------
(***************************************************************************)
(* Each part of the invariant, over a clock cycle.                         *)
(***************************************************************************)

LEMMA TriggerStep ==
  ASSUME FlowInv, Clock
  PROVE  TriggerInv'
  <1> USE DEF FlowInv, TriggerInv, TypeInv, TypeOK
  <1>1. CASE Sync0 \/ Vector3
    BY <1>1 DEF Sync0, Vector3, Resetting, VectorSequence, Sequence, Quiet, irqs
  <1>2. CASE Vector0 \/ Vector1 \/ Vector2
    BY <1>2 DEF Vector0, Vector1, Vector2, Resetting, VectorSequence, ResetTrigger
  <1>3. CASE QuietCycle \/ WriteCycle
    BY <1>3 DEF QuietCycle, WriteCycle, Quiet, Elsewhere, irqs
  <1>4. CASE ITMretClr \/ PreFetchInterrupt
    BY <1>4 DEF ITMretClr, PreFetchInterrupt, Executing, Retire, Sequence
  <1>5. CASE IRQ0 \/ IRQ1
    BY <1>5 DEF IRQ0, IRQ1, Sequence, ResetTrigger
  <1> QED BY <1>1, <1>2, <1>3, <1>4, <1>5, Kinds

LEMMA HeardStep ==
  ASSUME FlowInv, FlowClock
  PROVE  HeardInv'
  <1> USE DEF FlowInv, HeardInv, TypeInv, TypeOK, FlowTypeOK, FlowClock, Watched, LatchMip
  <1>0. CASE Sync0 \/ Vector1 \/ Vector2 \/ Vector3
    BY <1>0 DEF Sync0, Vector1, Vector2, Vector3, Resetting, VectorSequence, Sequence,
       Quiet, ResetTrigger, EarlyReset, irqs
  <1>1. CASE Vector0
    BY <1>1 DEF Vector0, Resetting, VectorSequence, ResetTrigger
  <1>2. CASE QuietCycle
    BY <1>2 DEF QuietCycle, Quiet, Elsewhere, Resetting, EarlyReset, irqs
  <1>3. CASE WriteCycle
    <2>1. ir.funct12 = "Mip" => SoftwareWrites("Mip")
      BY <1>3 DEF WriteCycle
    <2> QED
      BY <1>3, <2>1 DEF WriteCycle, WriteCSR, Elsewhere, Resetting, EarlyReset, irqs
  <1>4. CASE ITMretClr \/ PreFetchInterrupt
    BY <1>4 DEF ITMretClr, PreFetchInterrupt, Executing, Retire, Sequence, Resetting,
       EarlyReset, InterruptTaken, irq_pending
  <1>5. CASE IRQ0
    BY <1>5 DEF IRQ0, Sequence, ResetTrigger, WriteCSR, Resetting, EarlyReset
  <1>6. CASE IRQ1
    BY <1>6 DEF IRQ1, Sequence, ResetTrigger, Resetting, EarlyReset, TriggerInv
  <1> QED BY <1>0, <1>1, <1>2, <1>3, <1>4, <1>5, <1>6, Kinds

LEMMA ArmedStep ==
  ASSUME FlowInv, FlowClock
  PROVE  ArmedInv'
  <1> USE DEF FlowInv, ArmedInv, TypeInv, TypeOK, FlowTypeOK, FlowClock, Watched
  <1>1. CASE Sync0 \/ Vector0 \/ Vector1 \/ Vector2 \/ Vector3
    BY <1>1 DEF Sync0, Vector0, Vector1, Vector2, Vector3, Resetting, VectorSequence,
       Sequence, Quiet, EarlyReset
  <1>2. CASE QuietCycle
    BY <1>2 DEF QuietCycle, Quiet, Elsewhere, Resetting, EarlyReset
  <1>3. CASE WriteCycle
    <2>1. ir.funct12 = "Mie" => SoftwareWrites("Mie")
      BY <1>3 DEF WriteCycle
    <2> QED
      BY <1>3, <2>1 DEF WriteCycle, WriteCSR, Elsewhere, Resetting, EarlyReset
  <1>4. CASE ITMretClr \/ PreFetchInterrupt
    BY <1>4 DEF ITMretClr, PreFetchInterrupt, Executing, Retire, Sequence, Resetting,
       EarlyReset, InterruptTaken, irq_pending
  <1>5. CASE IRQ0 \/ IRQ1
    BY <1>5 DEF IRQ0, IRQ1, Sequence, WriteCSR, Resetting, EarlyReset
  <1> QED BY <1>1, <1>2, <1>3, <1>4, <1>5, Kinds

LEMMA ReleasedStep ==
  ASSUME FlowInv, Clock
  PROVE  ReleasedInv'
  <1> USE DEF FlowInv, ReleasedInv, LateReset
  <1>1. CASE Sync0 \/ Vector0 \/ Vector1 \/ Vector2 \/ Vector3
    BY <1>1 DEF Sync0, Vector0, Vector1, Vector2, Vector3, Resetting, VectorSequence,
       Sequence, Quiet, irqs
  <1>2. CASE QuietCycle \/ WriteCycle
    BY <1>2 DEF QuietCycle, WriteCycle, Elsewhere
  <1>3. CASE ITMretClr \/ PreFetchInterrupt \/ IRQ0 \/ IRQ1
    BY <1>3 DEF ITMretClr, PreFetchInterrupt, IRQ0, IRQ1, Retire, Sequence
  <1> QED BY <1>1, <1>2, <1>3, Kinds

LEMMA ResumeStep ==
  ASSUME FlowInv, FlowClock
  PROVE  ResumeInv'
  <1> USE DEF FlowInv, ResumeInv, FlowClock, Watched
  <1>0. CASE Vector3
    BY <1>0 DEF Vector3, Resetting, Sequence, Quiet, ReleasedInv, LateReset, irqs
  <1>1. CASE Sync0 \/ Vector0 \/ Vector1 \/ Vector2
    BY <1>1 DEF Sync0, Vector0, Vector1, Vector2, VectorSequence
  <1>2. CASE QuietCycle
    BY <1>2 DEF QuietCycle, Quiet, Elsewhere, irqs
  <1>3. CASE WriteCycle
    <2>1. SoftwareWrites("Mepc") <=> ir.funct12 = "Mepc"
      BY <1>3 DEF WriteCycle, SoftwareWrites
    <2> QED
      BY <1>3, <2>1 DEF WriteCycle, WriteCSR, Elsewhere, irqs
  <1>4. CASE ITMretClr \/ PreFetchInterrupt
    BY <1>4 DEF ITMretClr, PreFetchInterrupt, Executing, Retire, Sequence,
       SoftwareWrites, InterruptTaken
  <1>5. CASE IRQ0
    BY <1>5 DEF IRQ0, Sequence, WriteCSR, SoftwareWrites
  <1>6. CASE IRQ1
    BY <1>6 DEF IRQ1, Sequence, SoftwareWrites
  <1> QED BY <1>0, <1>1, <1>2, <1>3, <1>4, <1>5, <1>6, Kinds

LEMMA EdgeStep ==
  ASSUME FlowInv, FlowClock
  PROVE  EdgeKept'
  <1> USE DEF FlowInv, EdgeKept, InReset, FlowClock, Watched, TypeInv, TypeOK
  <1>1. CASE Sync0 \/ Vector0 \/ Vector1 \/ Vector2 \/ Vector3
    BY <1>1 DEF Sync0, Vector0, Vector1, Vector2, Vector3, Resetting, VectorSequence,
       Sequence, Quiet, irqs, ResetState
  <1>2. CASE QuietCycle \/ WriteCycle
    BY <1>2 DEF QuietCycle, WriteCycle, Quiet, Elsewhere, irqs
  <1>3. CASE ITMretClr \/ PreFetchInterrupt
    BY <1>3 DEF ITMretClr, PreFetchInterrupt, Executing, Retire, Sequence
  <1>4. CASE IRQ0 \/ IRQ1
    BY <1>4 DEF IRQ0, IRQ1, Sequence
  <1> QED BY <1>1, <1>2, <1>3, <1>4, Kinds

LEMMA HistoryTypes ==
  ASSUME FlowTypeOK, TypeOK', FlowNext
  PROVE  FlowTypeOK'
  BY DEF FlowTypeOK, TypeOK, FlowNext, FlowClock, Watched, FlowIrqFalls, FlowResetPin, history
-----------------------------------------------------------------------------
\* The two pins.
LEMMA FlowPinStep ==
  ASSUME FlowInv, FlowIrqFalls \/ FlowResetPin
  PROVE  (TriggerInv /\ HeardInv /\ ArmedInv /\ ReleasedInv /\ ResumeInv /\ EdgeKept)'
  <1> USE DEF FlowInv, TriggerInv, HeardInv, ArmedInv, ReleasedInv, ResumeInv, EdgeKept,
      InReset, EarlyReset, LateReset, csrs
  <1>1. CASE FlowIrqFalls
    BY <1>1 DEF FlowIrqFalls, IrqFalls
  <1>2. CASE FlowResetPin
    BY <1>2 DEF FlowResetPin, ResetPin, irqs, history
  <1> QED BY <1>1, <1>2

LEMMA FlowInvStep == FlowInv /\ [FlowNext]_flowVars => FlowInv'
  <1> SUFFICES ASSUME FlowInv, [FlowNext]_flowVars PROVE FlowInv'
    OBVIOUS
  <1>1. CASE FlowNext
    <2>1. Next
      BY <1>1 DEF FlowNext, FlowClock, FlowIrqFalls, FlowResetPin, Next
    <2>2. TypeInv' /\ FlowTypeOK'
      BY <1>1, <2>1, TypeStep, CsrReadLegalStep, HistoryTypes DEF FlowInv, TypeInv
    <2>3. CASE FlowClock
      <3>1. Clock
        BY <2>3 DEF FlowClock
      <3> QED
        BY <2>2, <2>3, <3>1, TriggerStep, HeardStep, ArmedStep, ReleasedStep, ResumeStep,
           EdgeStep DEF FlowInv
    <2>4. CASE FlowIrqFalls \/ FlowResetPin
      BY <2>2, <2>4, FlowPinStep DEF FlowInv
    <2> QED BY <1>1, <2>3, <2>4 DEF FlowNext
  <1>2. CASE UNCHANGED flowVars
    BY <1>2 DEF flowVars, vars, csrs, irqs, history, FlowInv, FlowTypeOK, TypeInv, TypeOK,
       CsrReadLegal, Executing, TriggerInv, HeardInv, ArmedInv, ReleasedInv, ResumeInv,
       EdgeKept, InReset, EarlyReset, LateReset
  <1> QED BY <1>1, <1>2

LEMMA FlowInvInit == FlowInit => FlowInv
  <1> SUFFICES ASSUME FlowInit PROVE FlowInv
    OBVIOUS
  <1>1. TypeInv
    BY InitTypeInv DEF FlowInit
  <1>2. FlowTypeOK
    BY <1>1 DEF TypeInv, FlowTypeOK, TypeOK, FlowInit
  <1> QED
    BY <1>1, <1>2 DEF FlowInit, Init, FlowInv, TriggerInv, HeardInv, ArmedInv, ReleasedInv,
       ResumeInv, EdgeKept, InReset, EarlyReset, LateReset

LEMMA FlowInvariant == FlowSpec => []FlowInv
  BY FlowInvInit, FlowInvStep, PTL DEF FlowSpec
-----------------------------------------------------------------------------
\* The history variables only watch: every behaviour with them is one of the
\* control unit.
THEOREM FlowRefinesControl == FlowSpec => Spec
  <1>1. FlowInit => Init
    BY DEF FlowInit
  <1>2. [FlowNext]_flowVars => [Next]_vars
    BY DEF FlowNext, FlowClock, FlowIrqFalls, FlowResetPin, Next, flowVars
  <1> QED BY <1>1, <1>2, PTL DEF FlowSpec, Spec

\* The registers, and the histories, hold values of their types.
THEOREM FlowTypes == FlowSpec => []FlowTypeOK
  <1>1. FlowInv => FlowTypeOK
    BY DEF FlowInv
  <1> QED BY FlowInvariant, <1>1, PTL

\* No edge of the interrupt pin is lost before its handler's address is loaded,
\* whatever software writes and whenever the pin falls.
THEOREM EdgesAreKept == FlowSpec => []EdgeKept
  <1>1. FlowInv => EdgeKept
    BY DEF FlowInv
  <1> QED BY FlowInvariant, <1>1, PTL

\* No handler is entered without an edge, or a software write of mip, of its own.
THEOREM EntriesAreHeard == FlowSpec => []NoSpuriousInterrupt
  <1>1. FlowInv => NoSpuriousInterrupt
    BY DEF FlowInv, HeardInv, NoSpuriousInterrupt
  <1> QED BY FlowInvariant, <1>1, PTL

\* The return address survives every second edge, entry and exit.
THEOREM ReturnAddressSurvives == FlowSpec => []ReturnAddressHeld
  <1>1. FlowInv => ReturnAddressHeld
    BY DEF FlowInv, ResumeInv, ReturnAddressHeld
  <1> QED BY FlowInvariant, <1>1, PTL

\* No handler is entered between a reset and the first write of mie, although
\* the reset can leave an edge pending.
THEOREM ResetMasks == FlowSpec => []MaskedAfterReset
  <1>1. FlowInv => MaskedAfterReset
    BY DEF FlowInv, ArmedInv, MaskedAfterReset
  <1> QED BY FlowInvariant, <1>1, PTL

\* The reset sequence ends with the latch released and no handler in progress,
\* however often it was broken off.
THEOREM ResetReleases == FlowSpec => []ResetReleasesInterrupts
  <1>1. FlowInv => ResetReleasesInterrupts
    BY DEF FlowInv, TriggerInv, ReleasedInv, LateReset, Resetting, ResetReleasesInterrupts,
       TypeInv, TypeOK
  <1> QED BY FlowInvariant, <1>1, PTL
=============================================================================
