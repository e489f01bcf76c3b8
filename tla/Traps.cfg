SPECIFICATION Spec
CONSTANTS
  ByteMod = 8
  And <- BitAnd
  AddrMod = 64
  Offset = 8
  MTime = 16
  MTimeCmp = 24
  Regs = {0, 1, 8}
  MisalignedDataTrap = TRUE
  ResetEnabled = TRUE
  MTimeStop = 5
  Code <- TrapCode
  Samples <- NoSamples
  ImageWords <- TrapWords
  ImageBytes <- TrapImages
CHECK_DEADLOCK FALSE
INVARIANTS
  TypeOK
  FetchAligned
PROPERTIES
  ImplementsTraps
  StatusBitsPreserved
  ResetClean
