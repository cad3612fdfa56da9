CONSTANTS
  Null = Null
  f1 = f1
  f2 = f2
  Fields <- MCFields
  MaxRows <- MCMaxRows

SPECIFICATION Spec

INVARIANTS
  TypeOK
  TokensMatchRecord

PROPERTIES
  PushdownRefinement

CHECK_DEADLOCK FALSE
