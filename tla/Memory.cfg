SPECIFICATION Spec
CONSTANTS
  ByteMod = 8
  And <- BitAnd
  AddrMod = 64
  Offset = 8
  MTime = 16
  MTimeCmp = 24
  Regs = {0, 1, 8}
  MisalignedDataTrap = TRUE
  ResetEnabled = FALSE
  MTimeStop = 3
  Code <- MemoryCode
  Samples <- NoSamples
  ImageWords <- MemoryWords
  ImageBytes <- MemoryImages
CHECK_DEADLOCK FALSE
PROPERTIES
  MicrocodeIntact
  TrapEffectsLimited
