\* A message with a start time, two that follow it, and one that is triggered
\* from elsewhere. The program may stop, or everything is done.
SPECIFICATION FairSpec
CONSTANTS
  NumMsgs = 5
  Scheduled = {1, 4}
  Size <- MCSize
  After <- MCAfter
  Mss = 2
  Hdr = 1
CHECK_DEADLOCK FALSE
INVARIANTS
  BacklogIsUnsent
  StatusFollowsBytes
  OneQueueEach
  CountersTellQueues
  TrackerAgreesWithSource
  MessagesAreContiguous
  ChainsGoOn
PROPERTY EligibleFinishes
