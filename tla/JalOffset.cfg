SPECIFICATION FieldsSpec
CONSTANTS
  Bases <- MCBases
  MaxToggles = 2
INVARIANTS
  ImmediateJ
CHECK_DEADLOCK FALSE
