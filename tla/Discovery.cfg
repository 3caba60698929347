SPECIFICATION Spec
CONSTANTS
  p1 = p1
  p2 = p2
  p3 = p3
  p4 = p4
  da = da
  db = db
  Packets <- FourPackets
  Dst <- TwoDsts
  RREQ_RETRIES = 1
  MaxSeq = 2
  Scenarios <- Scenes
INVARIANTS TypeOK Watched
PROPERTIES EveryPacketAnswered DiscoveriesEnd
CHECK_DEADLOCK FALSE
