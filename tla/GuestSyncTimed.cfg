SPECIFICATION Spec
CONSTANTS
  Threads = {t1, t2, t3}
  Mutexes = {m1}
  Futexes = {}
  Conds = {c1}
  Sems = {}
  Words = {}
  NoOne = NoOne
  Uses = {"mutex", "recursive", "foreign", "timed", "expired"}
  MaxDepth = 2
  MaxPosts = 1
  MaxQueue = 2
  WakeCounts = {1}
SYMMETRY Symmetry
PROPERTIES
  TimedWaitsAreSound
\* Guest threads may all sleep for ever.
CHECK_DEADLOCK FALSE
