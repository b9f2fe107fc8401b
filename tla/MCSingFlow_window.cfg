\* _in_flight closes the unacked window for good, although the timer fires
\* only for packets with no answer on its way: one packet and two ACKs are lost.
SPECIFICATION Spec
CONSTANTS
  NumPkts = 5
  Subflows = {sf1, sf2, sf3}
  AckMode = "ACKAGG"
  AckTrigger = "GLOBAL"
  AckThreshold = 1
  SackBits = 64
  MaxLosses = 3
  MaxUnackWindow = 1
  MaxRtx = 1
  SpuriousRto = FALSE
CHECK_DEADLOCK FALSE
INVARIANT BacklogIsServiced
