CONSTANTS
  OutputPrefixes <- MCExamplePrefixes
  Formats <- MCUnspecifiedFormats
  InitialDirs <- MCInitialDirs
  ChanCap = 1
  MaxBatches = 2

SPECIFICATION Spec

INVARIANT
  WriteNeverPanics

CHECK_DEADLOCK FALSE
