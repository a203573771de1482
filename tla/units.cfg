SPECIFICATION UnitsSpec
CONSTANTS
  SmallBits = {0, 1, 2, 3}
  Words32 = {{}, {0, 9, 31}}
INVARIANTS ResultCorrect BranchCorrect BenchesPass ImmediateRoundTrip
PROPERTIES StoresMergeFresh
CHECK_DEADLOCK FALSE
