\* Four paths, so that a search can see some of them only; penalties of one
\* and two stand for 1, 4 and 15.
SPECIFICATION MpSpec
CONSTANTS
  NumPaths = 4
  BufferSize = 2
  ExploreRounds = 1
  FreezeTime = 1
  XorOf <- MCXorOf
  Setups <- MCSetups
  MaxPenalty = 2
  EcnPenalty = 1
  NackPenalty = 2
  MaxBad = 3
  MaxRecycled = 1
INVARIANTS
  SkipCountExact
  NoPathTwiceARound
  RingIsWindow
PROPERTIES
  UnitKeepsPath
  PenalisedPathOnlyWhenMost
  PenaltiesWearOff
  ImplementsRecycledPaths
  FreezeEnds
