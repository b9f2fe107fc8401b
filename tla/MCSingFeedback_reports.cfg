\* Three transmissions of three packets over two paths: three packets between
\* two ACKs, or a packet and its duplicate with another one in between. The
\* system ends when everything has been sent and answered.
SPECIFICATION Spec
CONSTANTS
  Algorithms = {"REPS", "REPS_ACKAGG", "BITMAP", "BITMAP_ACKAGG"}
  Paths = {p1, p2}
  NumPkts = 3
  MaxSends = 3
SYMMETRY Symmetry
CHECK_DEADLOCK FALSE
INVARIANTS
  CreditsAreEarned
  MarksAreTold
