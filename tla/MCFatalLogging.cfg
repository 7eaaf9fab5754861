SPECIFICATION FatalSpec
CONSTANTS
  kLargeBuffer <- Capacity
  LineLen <- Lengths
  MaxBuffers = 3
  MaxLines = 3
  NoBuffer = NoBuffer
INVARIANT
  FatalLineOnDisk
CHECK_DEADLOCK FALSE
