\* An ACK of one subflow frees SSNs of packets another ACK has not covered.
SPECIFICATION Spec
CONSTANTS
  NumPkts = 3
  Subflows = {sf1, sf2}
  AckMode = "LEGACY"
  AckTrigger = "GLOBAL"
  AckThreshold = 2
  SackBits = 2
  MaxLosses = 1
  MaxUnackWindow = 0
  MaxRtx = 1
  SpuriousRto = TRUE
CHECK_DEADLOCK FALSE
INVARIANT RtxSsnIsMapped
