\* Two ports, a PFC class above a plain one, packets of two sizes. Senders and
\* the next hops do as they like, so nothing has to be bounded but the buffer.
SPECIFICATION Spec
CONSTANTS
  Ports = {1, 2}
  Prios = {0, 1}
  PfcPrios = {0}
  SharedCapacity = 3
  HeadroomCap <- MCHeadroom
  AlphaNum = 1
  AlphaDen = 1
  ResumeOffset = 0
  Sizes = {1, 2}
INVARIANTS
  WorkConserving
  WithinLimits
  AccountsAgree
