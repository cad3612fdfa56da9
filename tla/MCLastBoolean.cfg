CONSTANTS
  Null = Null
  MaxGroups <- MCMaxGroups
  MaxBatchLen <- MCMaxBatchLen
  MaxBatches <- MCMaxBatches
SPECIFICATION Spec
INVARIANTS
  TypeOK
  TokenMatchesHistory
PROPERTIES
  LastRefinement
CHECK_DEADLOCK FALSE
