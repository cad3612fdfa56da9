CONSTANTS
  None = None
  NoTz <- None
  Sources <- MCSources

SPECIFICATION Spec

INVARIANTS
  TypeOK
  TableSchemaMatchesRaw
  UnitTestSchemas

CHECK_DEADLOCK FALSE
