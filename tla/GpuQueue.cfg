SPECIFICATION FairSpec
CONSTANTS
  Guests = {g1, g2, g3}
  MaxQueues = 1
  Cap = 4
  MaxPackets = 7
  Free = Free

  
PROPERTIES
  ImplementsStream
  QueuesAreServed
\* Guests may stop calling once every processor has exited.
CHECK_DEADLOCK FALSE
