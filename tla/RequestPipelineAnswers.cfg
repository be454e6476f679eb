SPECIFICATION Spec
CONSTANTS
  MaxBytes = 3
  MaxChunk = 2
  None = None
INVARIANTS
  TypeOK
  BodyIntact
  Accounted
  WorkIsPaidFor
