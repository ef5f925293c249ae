SPECIFICATION FairSpec
CONSTANTS
  b1 = b1
  b2 = b2
  Threads = {t1, t2, t3}
  Bits = {b1, b2}
  Requests <- MixedRequests
  MaxFlags = 1
  MaxRaises = 1
INVARIANTS
  BitGrantedOncePerRaise
PROPERTIES
  WaitersAreAnswered
\* Guest threads may all sleep for ever.
CHECK_DEADLOCK FALSE
