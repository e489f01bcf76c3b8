SPECIFICATION Spec
CONSTANTS
  CLOCK_HZ = 1875
  BIT_RATE_HZ = 8
  oversampling = 16
  Bytes <- MCBytes
  Gaps <- MCGaps
  MaxChars = 3
INVARIANT
  SampledInTheMiddle
PROPERTIES
  SimulatorShowsTheLine
  TestbenchShowsTheLine
  EachIsShown
CHECK_DEADLOCK FALSE
