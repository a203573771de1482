SPECIFICATION FairFlowSpec
CONSTANTS
  MIE = 3
  MEI = 11
  Bits <- MCBits
  ImmBits <- MCImmBits
  AlignBits <- MCAlignBits
  Addr <- OneWord
  Data <- OneWord
  PowerUp <- OneWord
  ResetVector <- OneReset
  Program <- LiveProgram
PROPERTIES InterruptServed InstructionRetires ResetCompletes
