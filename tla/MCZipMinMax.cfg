CONSTANTS
  NaN = NaN
  NegZero = NegZero
  Null = Null
  Values <- MCValues
  MaxLen = 2

SPECIFICATION Spec

INVARIANTS
  TypeOK
  ZipMatchesReference
  UnitTestArrays

CHECK_DEADLOCK FALSE
