SPECIFICATION Spec
CONSTANTS
  a1 = a1
  a2 = a2
  a3 = a3
  b1 = b1
  ipa = ipa
  ipb = ipb
  None = None
  Packets <- FourPackets
  Dst <- FourDst
  Qmax = 3
  MaxLens = {0, 1, 3}
  MaxLoads = 2
INVARIANTS TypeOK Accounted  UnloadFeedsBack
PROPERTIES HoldSpec ReleaseReaches
CHECK_DEADLOCK FALSE
