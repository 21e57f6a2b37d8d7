CONSTANTS
  Clients = {c1, c2, c3, c4}
  maxConcurrentLfd = 2
  BlockBytes = 2
  Lengths <- MCLengths

SPECIFICATION Spec

\* The process ends.
CHECK_DEADLOCK FALSE

INVARIANTS
  TypeOK
  SlotsMatch
  CleanExit
  MaskedOnce

PROPERTIES
  AllAnswered
  SignalStops
