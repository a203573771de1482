CONSTANTS
  halfCycle = 2
  maxSteps = 6
  StepCap = 12
  MemLen = 5
  MemRows = 3
  Number <- MCNumber
  Garbage <- MCGarbage
  Rams <- MCRams
  Sessions <- MCSessions
SPECIFICATION ConsoleSpec
INVARIANTS SimTypeOK StepsExact BreakHolds MarkersPoint ScreenCurrent LabelsMatch
PROPERTIES CommandsOwn PulseWhole RunReturns
CHECK_DEADLOCK FALSE
