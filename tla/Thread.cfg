SPECIFICATION ThreadFairSpec
CONSTANTS
  Threads = {main, t1}
  Waiter = main
  Child = t1
  Forked = forked
  NoThread = NoThread
INVARIANTS
  ObjectOutlivesItsUse
  OwnTid
PROPERTIES
  ReapedOnce
  StartEnds
