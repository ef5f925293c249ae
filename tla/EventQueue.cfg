SPECIFICATION FairSpec
CONSTANTS
  Threads = {t1, t2}
  Ids = {i1}
  MaxHandles = 1
  MaxTimers = 2
  MaxEvents = 2
INVARIANTS
  EveryEventOnceInOrder
PROPERTIES
  TimersStop
  ImplementsChannel
  WaitersAreServed
\* Guest threads may all sleep for ever.
CHECK_DEADLOCK FALSE
