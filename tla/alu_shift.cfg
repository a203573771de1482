SPECIFICATION Spec
CONSTANTS
  Bits = {0, 1, 2, 3}
INVARIANTS ShiftUsesLowBits
