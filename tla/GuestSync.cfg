SPECIFICATION FairSpec
CONSTANTS
  Threads = {t1, t2, t3}
  Mutexes = {m1, m2}
  Futexes = {m2}
  Conds = {c1}
  Sems = {s1}
  Words = {w1}
  NoOne = NoOne
  Uses = {"mutex", "wait", "sem", "umtx"}
  MaxDepth = 1
  MaxPosts = 2
  MaxQueue = 4
  WakeCounts = {1, 3}
INVARIANTS
  MutualExclusion
  

  
\* Guest threads may all sleep for ever.
CHECK_DEADLOCK FALSE
