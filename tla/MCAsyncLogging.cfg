SPECIFICATION FairSpec
CONSTANTS
  kLargeBuffer <- Capacity
  LineLen <- Lengths
  MaxBuffers = 2
  MaxLines = 4
  NoBuffer = NoBuffer
INVARIANTS
  TypeOK
  HandOver
  NoSilentLoss
  Fifo
PROPERTIES
  ImplementsPipe
  EventuallySettled
  StartAndStopReturn
