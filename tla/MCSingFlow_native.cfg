\* One subflow, a legacy ACK policy, a fabric that drops and trims, and a
\* timer that may fire while the answer is still on its way. CHECK_DEADLOCK is
\* off because MaxRtx and MaxLosses cut behaviours short.
SPECIFICATION Spec
CONSTANTS
  NumPkts = 3
  Subflows = {sf1}
  AckMode = "LEGACY"
  AckTrigger = "GLOBAL"
  AckThreshold = 2
  SackBits = 2
  MaxLosses = 1
  MaxUnackWindow = 0
  MaxRtx = 1
  SpuriousRto = TRUE
CHECK_DEADLOCK FALSE
INVARIANTS
  TypeOK
  AckedWasReceived
  DoneMeansDelivered
  RecordsMatchQueues
  TimerCoversOldest
  ActivelySendingAssertion
  RtxSsnIsMapped
  FinalAckGenerated
  SsnInFlightNeverLeaks
  CountFollowsAcks
PROPERTY ImplementsReliableDelivery
