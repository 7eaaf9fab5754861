SPECIFICATION LatchFairSpec
CONSTANTS
  Threads = {main, t1, t2, t3}
  Waiter = main
  NoThread = NoThread
INVARIANTS
  HolderIsInside
  NobodyInDestroyedLatch
PROPERTIES
  EveryStepCounts
  WaitReturns
