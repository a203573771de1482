SPECIFICATION RetireSpec
CONSTANTS
  MIE = 3
  MEI = 2
  ByteWidth = 2
  IO_BIT = 6
  Bits <- MCBits
  ImmBits <- MCImmBits
  AlignBits <- MCAlignBits
  MemBits <- MCMemBits
  IOBits <- MCIOBits
  Addr <- MCWords
  Data <- MCWords
  PowerUp <- MCPowerUp
  PowerUpFlags <- MCFlags
  ResetVector <- MCReset
  Program <- MCProgram
  Instruction <- MCInstruction
  Images <- MCImages
INVARIANTS CoreTypeOK DatapathFollows FlightKnown
PROPERTIES ExecutesAtPC ImplementsISA
