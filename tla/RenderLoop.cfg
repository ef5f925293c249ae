SPECIFICATION FairFrameSpec
CONSTANTS
  MaxFramesInFlight = 2
  Users = {t1, t2}
  Resources = {r1, r2, r3}
  MaxQueued = 3
  Main = main
  Free = free
INVARIANTS
  ResourcesOutliveTheirUse
  DeviceIsUsedInTurn
PROPERTIES
  DrawsReachTheScreen
\* After a failed acquisition the loop waits for ever (FenceWaitEnds).
CHECK_DEADLOCK FALSE
