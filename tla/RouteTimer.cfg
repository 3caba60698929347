SPECIFICATION TimerSpec
CONSTANTS
  d1 = d1
  n1 = n1
  Dest <- OneDest
  Peer <- OnePeer
  Interval = 3
  NeighWait = 6
  Net = 3
  RREQ_RETRIES = 2
  Epoch = 100
  Horizon = 50
  MaxTasks = 3
INVARIANTS ServedOnTime NotGivenUpEarly
PROPERTY HelloRepeats
