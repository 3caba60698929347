SPECIFICATION Spec
CONSTANTS
  f1 = f1
  f2 = f2
  f3 = f3
  f4 = f4
  f5 = f5
  wifi = wifi
  portal = portal
  Frames <- FiveFrames
  Ports <- TwoPorts
  Port <- MixedPort
  Portal = portal
  Removed <- Wifi
  MaxBacklog = 3
  Weight = 2
INVARIANTS TypeOK Scheduled References
PROPERTIES EveryFrameHandled OverloadEnds
CHECK_DEADLOCK FALSE
