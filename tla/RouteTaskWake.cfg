SPECIFICATION TickingSpec
CONSTANTS
  d1 = d1
  p1 = p1
  Dest <- OneDest
  Peer <- OnePeer
  RREQ_RETRIES = 0
  MaxTasks = 3
  MaxRegister = 1
PROPERTIES QueuedTaskServed
CHECK_DEADLOCK FALSE
