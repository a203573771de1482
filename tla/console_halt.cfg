CONSTANTS
  halfCycle = 2
  maxSteps = 6
  StepCap = 12
  MemLen = 5
  MemRows = 3
  Number <- MCNumber
  Garbage <- MCGarbage
  Rams <- MCRams
  Sessions <- HaltSession
SPECIFICATION ConsoleSpec
INVARIANT HaltHalts
CHECK_DEADLOCK FALSE
