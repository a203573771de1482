SPECIFICATION Spec
CONSTANTS
  NoCommand = NoCommand
  StatusBytes = 69
  TxClocks = 10
  TailClocks = 1
  RxClocks = 10
INVARIANTS
  TypeOK
  NoCommandLost
  ResetReachesCPU
  StepsOnce
PROPERTY AnswersCommands
