CONSTANTS
  OutputPrefixes <- MCExamplePrefixes
  Formats <- MCExampleFormats
  InitialDirs <- MCInitialDirs
  ChanCap = 1
  MaxBatches = 2

SPECIFICATION Spec

INVARIANT
  ExampleGetsOnePath

CHECK_DEADLOCK FALSE
