SPECIFICATION Spec
CONSTANTS
  Size = 2
  MaxLen = 4
  Values = {0, 1, 256}
  ByteMod = 4
  Images <- MCImages
  ImageSize = 6
  Entries = {0, 9}
  BytesPerLine = 2
  Targets <- MCTargets
  FreshSize = 16
  MemSize = 14
  Microcode <- MCMicrocode
  Objects <- MCObjects
  MaxObjects = 2
  Opcodes <- MCOpcodes
  Numbers <- MCNumbers
INVARIANTS
  TypeOK
  RangesCover
  HexRoundTrip
  NeverInvents
  ImagePlaced
  MicrocodeKept
  EncodingRoundTrip
  NoBitIgnored
PROPERTIES
  FailureIsContained
  WriteOnce
  WriteEnds
CHECK_DEADLOCK FALSE
