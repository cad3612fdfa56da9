CONSTANTS
  None = None
  NoTz <- None
  Sources <- MCDecimalSources

SPECIFICATION Spec

INVARIANT
  DecimalColumnsDropped

CHECK_DEADLOCK FALSE
