CONSTANTS
  r1 = r1
  r2 = r2
  r3 = r3
  x1 = x1
  x2 = x2
  x3 = x3
  x4 = x4
  x5 = x5
  Requests <- MCRequests
  Records <- MCRecords
  Amounts <- MCAmounts

SPECIFICATION Spec

INVARIANTS
  TypeOK
  NothingLost

PROPERTIES
  ImplementsAtomicPool

SYMMETRY MCSymmetry
