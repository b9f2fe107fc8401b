\* Path-wise load balancing: two subflows with SSN spaces of their own, each
\* with its ACK counter, an aggregating ACK policy and no unacked window. The
\* timer fires only for real losses, as its minimum exceeds the delays of the
\* fabric. MaxRtx exceeds the losses, so it never stops a retransmission.
\* A finished flow stops, and so does a program whose assertion has failed, so
\* deadlock is left to Completion.
SPECIFICATION FairSpec
CONSTANTS
  NumPkts = 4
  Subflows = {sf1, sf2}
  AckMode = "ACKAGG"
  AckTrigger = "PER_SUBFLOW"
  AckThreshold = 2
  SackBits = 2
  MaxLosses = 1
  MaxUnackWindow = 0
  MaxRtx = 2
  SpuriousRto = FALSE
CHECK_DEADLOCK FALSE
INVARIANT SsnAgreesWithDsn
PROPERTY Completion
