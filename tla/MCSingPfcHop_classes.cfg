\* The same host, and both classes of the default _pfc_enabled_mask.
SPECIFICATION Spec
CONSTANTS
  Ports = {1, 2}
  Prios = {0, 1}
  PfcPrios = {0, 1}
  SharedCapacity = 2
  HeadroomCap <- MCHeadroom
  AlphaNum = 1
  AlphaDen = 1
  ResumeOffset = 0
  LinkDelay = 1
  Upstream = "host"
  OtherClasses = {1}
INVARIANT StoppedClassIsHeld
