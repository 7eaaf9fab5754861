SPECIFICATION Spec
CONSTANTS
  rollSize_ = 3
  flushInterval_ = 0
  checkEveryN_ = 2
  kRollPerSeconds_ = 2
  LineLen <- Lengths
  MaxTime = 3
  MaxLines = 4
  MaxCrashes = 1
  Worlds <- WorldSet
INVARIANTS
  NamesFresh
  LinesInOrder
  FewLateLines
  OneLineTooMany
PROPERTY
  ImplementsDurableLog
