---------------------- MODULE ControlMatrixCSRs_proofs ----------------------
(***************************************************************************)
(* Proofs of the properties of the simulated core's interrupt logic, for   *)
(* every set of bits and every behaviour of software and of the two pins.  *)
(***************************************************************************)
EXTENDS ControlMatrixCSRs, TLAPS

\* While a handler runs that has not written mstatus, the enable that its entry
\* took away is in MPIE.
EnableSaved == interrupt_in_progress /\ ~wrote => MPIE \in mstatus

\* What makes each entry have a cause of its own.  The latch is empty while it is
\* held, so the entry leaves nothing in it; what is in it later has fallen later;
\* and outside a handler nothing is pending but for a cause, because mret clears
\* what its handler was entered for.
LatchHeld == (irq_reset_trigger => ~irq_triggered) /\ (state = "IRQ1" => irq_reset_trigger)
LatchCaused == irq_triggered => causes \cap {"edge", "reset"} # {}
PendingCaused == MEI \in mip /\ ~interrupt_in_progress => causes # {}
EntryInProgress == state \in {"IRQ0", "IRQ1"} => interrupt_in_progress

CauseInv == LatchHeld /\ LatchCaused /\ PendingCaused /\ EntryInProgress /\ EntryHasCause

\* The inductive invariant.
IrqInv == TypeOK /\ EdgeKept /\ EnableSaved /\ CauseInv
-----------------------------------------------------------------------------
LEMMA SequenceType ==
  ASSUME NEW next_state, Sequence(next_state)
  PROVE  state' = next_state \/ (state' = "Sync0" /\ ~reset_i)
  BY DEF Sequence

LEMMA LatchMipType ==
  ASSUME NEW value \in Word, LatchMip(value)
  PROVE  mip' \in Word
  BY BitsAssumption DEF LatchMip, Word

\* Cycles that leave the CSRs and the interrupt logic alone; none starts in the
\* states that EdgeKept excepts.
QuietCycle ==
  /\ state \notin ResetStates \cup {"IRQ1"}
  /\ state' \in States \ {"IRQ0", "IRQ1"} /\ Quiet /\ UNCHANGED <<reset_i, history>>

LEMMA QuietCycles ==
  ASSUME TypeOK, UNCHANGED reset_i,
         \/ Fetch \/ Decode \/ Execute \/ Stop \/ ITCSRRead \/ ITMret
         \/ PreFetchRead \/ IRQ2
  PROVE  QuietCycle
  <1>1. CASE Fetch
    BY <1>1, SequenceType DEF Fetch, QuietCycle, States, ResetStates
  <1>2. CASE Decode
    BY <1>2, SequenceType DEF Decode, QuietCycle, States, ResetStates
  <1>3. CASE Execute
    BY <1>3, SequenceType DEF Execute, QuietCycle, States, ResetStates
  <1>4. CASE Stop
    BY <1>4, SequenceType DEF Stop, QuietCycle, States, ResetStates
  <1>5. CASE ITCSRRead
    BY <1>5, SequenceType DEF ITCSRRead, QuietCycle, States, ResetStates
  <1>6. CASE ITMret
    BY <1>6, SequenceType DEF ITMret, QuietCycle, States, ResetStates
  <1>7. CASE PreFetchRead
    BY <1>7, SequenceType DEF PreFetchRead, QuietCycle, States, ResetStates
  <1>8. CASE IRQ2
    BY <1>8, SequenceType DEF IRQ2, QuietCycle, States, ResetStates
  <1> QED
    BY <1>1, <1>2, <1>3, <1>4, <1>5, <1>6, <1>7, <1>8

LEMMA IrqInvInit == Init => IrqInv
  <1> SUFFICES ASSUME Init PROVE IrqInv
    OBVIOUS
  <1>1. TypeOK /\ EdgeKept /\ EnableSaved
    BY DEF Init, TypeOK, EdgeKept, EnableSaved, States, ResetStates, Word
  <1>2. CauseInv
    BY DEF Init, CauseInv, LatchHeld, LatchCaused, PendingCaused, EntryInProgress, EntryHasCause
  <1> QED
    BY <1>1, <1>2 DEF IrqInv

LEMMA QuietKeeps ==
  ASSUME IrqInv, QuietCycle
  PROVE  IrqInv'
  <1> USE DEF IrqInv, QuietCycle, Quiet, irqs, history
  <1>1. mip' \in Word
    BY LatchMipType DEF TypeOK
  <1>2. TypeOK'
    BY <1>1 DEF TypeOK
  <1>3. EdgeKept'
    BY DEF EdgeKept, ResetStates
  <1>4. EnableSaved'
    BY DEF EnableSaved
  <1>5. CauseInv'
    BY DEF LatchMip, CauseInv, LatchHeld, LatchCaused, PendingCaused, EntryInProgress, EntryHasCause
  <1> QED
    BY <1>2, <1>3, <1>4, <1>5

LEMMA ClockResetKeeps ==
  ASSUME IrqInv, ClockReset, UNCHANGED reset_i
  PROVE  IrqInv'
  <1> USE DEF IrqInv, ClockReset
  <1>1. mip' \in Word
    BY LatchMipType DEF TypeOK
  <1>2. state' \in States
    BY SequenceType DEF ResetStates, States
  <1>3. TypeOK'
    BY <1>1, <1>2 DEF TypeOK
  <1>4. state' \notin {"IRQ0", "IRQ1"}
    BY SequenceType DEF ResetStates
  <1>5. CauseInv'
    BY <1>4 DEF CauseInv, LatchHeld, LatchCaused, PendingCaused, EntryInProgress, EntryHasCause
  <1> QED
    BY <1>3, <1>5 DEF EdgeKept, EnableSaved

LEMMA WriteKeeps ==
  ASSUME IrqInv, UNCHANGED reset_i,
         NEW csr_addr \in {"Mstatus", "Mie", "Mip", "other"}, NEW csr_data \in Word,
         WriteCSR(csr_addr, csr_data)
  PROVE  IrqInv'
  <1> USE DEF IrqInv, WriteCSR, irqs
  <1>1. mip' \in Word
    BY LatchMipType DEF TypeOK
  <1>2. state' \in States
    BY SequenceType DEF ResetStates, States
  <1>3. TypeOK'
    BY <1>1, <1>2 DEF TypeOK
  <1>4. EdgeKept'
    BY DEF EdgeKept, ResetStates
  <1>5. EnableSaved'
    BY DEF EnableSaved
  <1>6. state' \in {"PreFetch", "Sync0"}
    BY SequenceType
  <1>7. LatchHeld' /\ LatchCaused' /\ EntryInProgress' /\ EntryHasCause'
    BY <1>6 DEF CauseInv, LatchHeld, LatchCaused, PendingCaused, EntryInProgress, EntryHasCause
  <1>8. PendingCaused'
    BY DEF LatchMip, CauseInv, LatchCaused, PendingCaused
  <1> QED
    BY <1>3, <1>4, <1>5, <1>7, <1>8 DEF CauseInv

\* mret and the three cycles of an entry.
LEMMA FlowKeeps ==
  ASSUME IrqInv, UNCHANGED reset_i, ITMretClr \/ PreFetchInterrupt \/ IRQ0 \/ IRQ1
  PROVE  IrqInv'
  <1> USE BitsAssumption DEF IrqInv
  <1>1. mip' \in Word
    <2>1. mip \ {MEI} \in Word /\ mip \in Word
      BY DEF TypeOK, Word
    <2> QED
      BY <2>1, LatchMipType DEF ITMretClr, PreFetchInterrupt, IRQ0, IRQ1
  <1>2. state' \in States
    BY SequenceType DEF ITMretClr, PreFetchInterrupt, IRQ0, IRQ1, ResetStates, States
  <1>3. mstatus' \in Word /\ mie' \in Word
    BY DEF TypeOK, Word, ITMretClr, PreFetchInterrupt, IRQ0, IRQ1
  <1>4. TypeOK'
    BY <1>1, <1>2, <1>3 DEF TypeOK, ITMretClr, PreFetchInterrupt, IRQ0, IRQ1, ResetTrigger,
       history
  <1>5. EdgeKept'
    BY DEF EdgeKept, ITMretClr, PreFetchInterrupt, IRQ0, IRQ1, ResetTrigger, ResetStates,
       history
  <1>6. EnableSaved'
    BY DEF EnableSaved, ITMretClr, PreFetchInterrupt, IRQ0, IRQ1, history
  <1>7. CauseInv'
    <2> USE DEF CauseInv, LatchHeld, LatchCaused, PendingCaused, EntryInProgress, EntryHasCause
    <2>1. CASE ITMretClr
      BY <2>1, SequenceType DEF ITMretClr, LatchMip
    <2>2. CASE PreFetchInterrupt
      BY <2>2, SequenceType DEF PreFetchInterrupt, InterruptTaken, irq_pending, LatchMip
    <2>3. CASE IRQ0
      BY <2>3, SequenceType DEF IRQ0, ResetTrigger, LatchMip, history
    <2>4. CASE IRQ1
      BY <2>4, SequenceType DEF IRQ1, ResetTrigger, LatchMip
    <2> QED
      BY <2>1, <2>2, <2>3, <2>4
  <1> QED
    BY <1>4, <1>5, <1>6, <1>7

LEMMA PinsKeep ==
  ASSUME IrqInv, IrqFalls \/ ResetPin
  PROVE  IrqInv'
  <1> USE DEF IrqInv
  <1>1. CASE IrqFalls
    <2>1. TypeOK' /\ EdgeKept' /\ EnableSaved'
      BY <1>1 DEF IrqFalls, core, TypeOK, EdgeKept, EnableSaved
    <2>2. CauseInv'
      BY <1>1 DEF IrqFalls, core, CauseInv, LatchHeld, LatchCaused, PendingCaused, EntryInProgress, EntryHasCause
    <2> QED
      BY <2>1, <2>2
  <1>2. CASE ResetPin
    BY <1>2 DEF ResetPin, core, irqs, history, TypeOK, EdgeKept, EnableSaved,
       CauseInv, LatchHeld, LatchCaused, PendingCaused, EntryInProgress, EntryHasCause
  <1> QED
    BY <1>1, <1>2

LEMMA IrqInvNext == IrqInv /\ [Next]_vars => IrqInv'
  <1> SUFFICES ASSUME IrqInv, [Next]_vars PROVE IrqInv'
    OBVIOUS
  <1>1. CASE Clock
    BY <1>1, QuietCycles, QuietKeeps, ClockResetKeeps, WriteKeeps, FlowKeeps DEF Clock, IrqInv
  <1>2. CASE IrqFalls \/ ResetPin
    BY <1>2, PinsKeep
  <1>3. CASE UNCHANGED vars
    BY <1>3 DEF vars, core, irqs, history, IrqInv, TypeOK, EdgeKept, EnableSaved,
       CauseInv, LatchHeld, LatchCaused, PendingCaused, EntryInProgress, EntryHasCause
  <1> QED
    BY <1>1, <1>2, <1>3 DEF Next

LEMMA IrqInvariant == Spec => []IrqInv
  BY IrqInvInit, IrqInvNext, PTL DEF Spec
-----------------------------------------------------------------------------
\* No CSR write, entry, mret or reset takes the registers out of their types.
THEOREM CSRTypes == Spec => []TypeOK
  BY IrqInvariant, PTL DEF IrqInv

\* An edge of the pin stays in the latch until its handler is entered or a reset
\* forgets it, whatever software writes to the CSRs meanwhile.
THEOREM ConsoleEdgesKept == Spec => []EdgeKept
  BY IrqInvariant, PTL DEF IrqInv

\* mret restores the enable that the entry took away.
THEOREM MretRestores == Spec => EnableRestored
  <1>1. IrqInv /\ [Next]_vars =>
          [ITMretClr /\ interrupt_in_progress /\ ~wrote => MIE \in mstatus']_vars
    BY DEF IrqInv, EnableSaved, ITMretClr
  <1> QED
    BY <1>1, IrqInvariant, PTL DEF Spec, EnableRestored

\* An interrupt is serviced once: its entry empties the latch and its mret clears
\* mip, so a later entry has an edge, a software write of mip or a reset of its own,
\* at whatever cycle these come.
THEOREM EntriesAreCaused == Spec => []EntryHasCause
  BY IrqInvariant, PTL DEF IrqInv, CauseInv

LEMMA HeldReset ==
  ASSUME Clock, ~reset_i
  PROVE  state' = "Sync0"
  <1>1. \A next_state : Sequence(next_state) => state' = "Sync0"
    BY DEF Sequence
  <1>2. CASE ClockReset
    BY <1>1, <1>2 DEF ClockReset
  <1>3. CASE Fetch \/ Decode \/ Execute \/ Stop \/ ITCSRRead \/ ITMret \/ PreFetchRead \/ IRQ2
    BY <1>1, <1>3 DEF Fetch, Decode, Execute, Stop, ITCSRRead, ITMret, PreFetchRead, IRQ2
  <1>4. CASE \E csr_addr \in {"Mstatus", "Mie", "Mip", "other"}, csr_data \in Word :
               WriteCSR(csr_addr, csr_data)
    BY <1>1, <1>4 DEF WriteCSR
  <1>5. CASE ITMretClr \/ PreFetchInterrupt \/ IRQ0 \/ IRQ1
    BY <1>1, <1>5 DEF ITMretClr, PreFetchInterrupt, IRQ0, IRQ1
  <1> QED
    BY <1>2, <1>3, <1>4, <1>5 DEF Clock

\* Seen from outside the core goes the cycle that the console's run loops rely on.
THEOREM CycleIsKept == Spec => CycleKept
  <1>1. IrqInv /\ [Next]_vars => [matrix_state' \in Cycle!Edge(matrix_state, reset_i)]_state
    <2> SUFFICES ASSUME IrqInv, Clock, state' # state
                 PROVE  matrix_state' \in Cycle!Edge(matrix_state, reset_i)
      BY DEF Next, vars, IrqFalls, ResetPin
    <2> USE DEF Cycle!Edge, Cycle!Successors, Cycle!MatrixStates, matrix_state, ResetStates
    <2>1. CASE ~reset_i
      BY <2>1, HeldReset
    <2>2. CASE reset_i
      <3>1. CASE ClockReset
        <4>1. state' \in ResetStates \cup {"Fetch"}
          BY <2>2, <3>1 DEF ClockReset, Sequence
        <4> QED
          BY <2>2, <3>1, <4>1 DEF ClockReset
      <3>2. CASE Fetch
        BY <2>2, <3>2 DEF Fetch, Sequence
      <3>3. CASE Decode
        BY <2>2, <3>3 DEF Decode, Sequence
      <3>4. CASE Execute
        BY <2>2, <3>4 DEF Execute, Sequence
      <3>5. CASE Stop \/ ITMret \/ IRQ2
        BY <2>2, <3>5 DEF Stop, ITMret, IRQ2, Sequence
      <3>6. CASE ITCSRRead
        BY <2>2, <3>6 DEF ITCSRRead, Sequence
      <3>7. CASE \E csr_addr \in {"Mstatus", "Mie", "Mip", "other"}, csr_data \in Word :
                   WriteCSR(csr_addr, csr_data)
        BY <2>2, <3>7 DEF WriteCSR, Sequence
      <3>8. CASE ITMretClr \/ PreFetchRead \/ PreFetchInterrupt \/ IRQ0 \/ IRQ1
        BY <2>2, <3>8 DEF ITMretClr, PreFetchRead, PreFetchInterrupt, IRQ0, IRQ1, Sequence
      <3> QED
        BY <3>1, <3>2, <3>3, <3>4, <3>5, <3>6, <3>7, <3>8 DEF Clock
    <2> QED
      BY <2>1, <2>2 DEF IrqInv, TypeOK
  <1> QED
    BY <1>1, IrqInvariant, PTL DEF Spec, CycleKept
=============================================================================
