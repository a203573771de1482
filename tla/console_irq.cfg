SPECIFICATION Spec
CONSTANTS
  MIE = 3
  MPIE = 7
  MEI = 11
  Bits <- MCBits
INVARIANTS TypeOK EdgeKept EntryHasCause
PROPERTIES EnableRestored CycleKept
