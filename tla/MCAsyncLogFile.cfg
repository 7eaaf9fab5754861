SPECIFICATION FairSpec
CONSTANTS
  kLargeBuffer = 3
  LineLen <- Lengths
  MaxBuffers = 2
  MaxLines = 5
  NoBuffer = NoBuffer
  rollSize_ = 3
  flushInterval_ = 0
  checkEveryN_ = 1
  kRollPerSeconds_ = 4
  MaxTime = 2
  NoticeLen = 1
INVARIANT
  GapsExplained
PROPERTIES
  ImplementsAsyncLogging
  EventuallyOnDisk
