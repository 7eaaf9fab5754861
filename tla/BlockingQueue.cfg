SPECIFICATION FairSpec
CONSTANTS
  Threads = {t1, t2, t3}
  NoThread = NoThread
  MaxItems = 3
INVARIANTS
  NoLostWakeup
PROPERTIES
  ImplementsFifoQueue
  QueueDrains
