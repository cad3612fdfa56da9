CONSTANTS
  OutputPrefixes <- MCPrefixes
  Formats <- MCFormats
  InitialDirs <- MCInitialDirs
  Examples <- MCExamples
  ChanCap = 1
  MaxBatches = 2

SPECIFICATION ExampleSpec

INVARIANTS
  TypeOK
  ExampleTypeOK
  ReportedPathIsWrittenFile
  InputsLiveDuringQuery

PROPERTIES
  ExampleTerminates

CHECK_DEADLOCK FALSE
