SPECIFICATION Spec
CONSTANTS
  And <- MCAnd
  Xor <- MCXor
  Or <- MCOr
  Starts <- MCStarts
  MaxExecuted = 3
INVARIANTS
  TypeOK
  InFlight
PROPERTIES
  AsSimulated
CHECK_DEADLOCK FALSE
