\* Two PFC classes from an upstream SING switch, and a second port that is not
\* in use or takes shared buffer away at any time.
SPECIFICATION FairSpec
CONSTANTS
  Ports = {1, 2}
  Prios = {0, 1}
  PfcPrios = {0, 1}
  SharedCapacity = 2
  HeadroomCap <- MCHeadroom
  AlphaNum = 1
  AlphaDen = 1
  ResumeOffset = 0
  LinkDelay = 1
  Upstream = "switch"
  OtherClasses = {1}
INVARIANTS
  Lossless
  SenderFollows
PROPERTY PauseEnds
