SPECIFICATION Spec
CONSTANTS
  d1 = d1
  p1 = p1
  Dest <- OneDest
  Peer <- OnePeer
  RREQ_RETRIES = 1
  MaxTasks = 3
  MaxRegister = 2
INVARIANTS TypeOK HeartbeatKept HelloStreams TimerSingle RetryAtMostTwice
PROPERTIES KillEndsThread ServedUnderTraffic
CHECK_DEADLOCK FALSE
