SPECIFICATION FairSpec
CONSTANTS
  ByteMod = 8
  And <- BitAnd
  AddrMod = 64
  Offset = 8
  MTime = 16
  MTimeCmp = 24
  Regs = {0, 1, 8}
  MisalignedDataTrap = TRUE
  ResetEnabled = FALSE
  MTimeStop = 4095
  Code <- LoopCode
  Samples <- NoSamples
  ImageWords <- LoopWords
  ImageBytes <- LoopImages
CHECK_DEADLOCK FALSE
PROPERTY InterruptServed
