CONSTANTS
  Null = Null
  MaxGroups <- MCTestGroups
  MaxBatchLen = 0
  MaxBatches <- MCTestBatches
  Cases <- MCUnitTests

SPECIFICATION TestSpec

INVARIANT
  UnitTestOutputs

CHECK_DEADLOCK FALSE
