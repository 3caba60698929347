SPECIFICATION Spec
CONSTANTS
  p1 = p1
  p2 = p2
  p3 = p3
  p4 = p4
  da = da
  db = db
  Packets <- FourPackets
  Dst <- TwoDsts
  RREQ_RETRIES = 1
  MaxSeq = 2
  Scenarios <- HelloScenes
PROPERTY AllFedBack
CHECK_DEADLOCK FALSE
