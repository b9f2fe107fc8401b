\* Two sources share the port, with a window of one packet, one loss and one
\* control packet. The system stops when everything is sent and answered.
SPECIFICATION FairSpec
CONSTANTS
  Sources = {1, 2}
  SubflowsOf <- MCSubflowsOf
  Gaps = {1, 2}
  BaseRtt = 2
  SendTime = 1
  MaxUnack = 1
  NumPkts <- MCNumPkts
  MaxControl = 1
  MaxLosses = 1
CHECK_DEADLOCK FALSE
INVARIANTS
  NoLostWakeup
  ScheduledOnce
PROPERTY EverythingIsSent
