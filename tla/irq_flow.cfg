SPECIFICATION FlowSpec
CONSTANTS
  MIE = 3
  MEI = 11
  Bits <- MCBits
  ImmBits <- MCImmBits
  AlignBits <- MCAlignBits
  Addr <- MCAddr
  Data <- MCData
  PowerUp <- MCData
  ResetVector <- MCReset
  Program <- FlowProgram
INVARIANTS FlowTypeOK EdgeKept NoSpuriousInterrupt ReturnAddressHeld MaskedAfterReset ResetReleasesInterrupts
