CONSTANTS
  S1 = S1
  S2 = S2
  Null = Null
  Schemas <- MCSchemas
  Sources <- MCSources
  MaxCalls = 4

SPECIFICATION Spec

INVARIANTS
  TypeOK
  PreparedFilesLive
  FileCountCountsAddedFiles

CHECK_DEADLOCK FALSE
