SPECIFICATION AluSpec
CONSTANTS
  Bases <- MCBases
  MaxToggles = 3
  Instructions <- MCInstructions
  Firsts <- MCFirsts
  Seconds <- MCSeconds
  Leftovers <- MCLeftovers
INVARIANTS
  FieldsDecoded
  Immediates
CHECK_DEADLOCK FALSE
PROPERTY ComputesAsDefined
