\* A second message is due when the first one may already be finished.
SPECIFICATION Spec
CONSTANTS
  NumMsgs = 2
  Scheduled = {1, 2}
  Size <- MCSize
  After <- MCAfter
  Mss = 2
  Hdr = 1
CHECK_DEADLOCK FALSE
INVARIANT DoneForNow
