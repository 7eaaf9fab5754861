SPECIFICATION Spec
CONSTANTS
  kLargeBuffer <- Capacity
  LineLen <- Lengths
  MaxBuffers = 3
  MaxLines = 3
  NoBuffer = NoBuffer
INVARIANT
  StopLosesNothing
