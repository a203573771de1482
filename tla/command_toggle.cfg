SPECIFICATION Spec
CONSTANTS
  NoCommand = NoCommand
  StatusBytes = 2
  TxClocks = 3
  TailClocks = 2
  RxClocks = 7
INVARIANT ToggleHolds
