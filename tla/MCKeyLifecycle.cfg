CONSTANTS
  r1 = r1
  r2 = r2
  r3 = r3
  a1 = a1
  a2 = a2
  Requests <- MCRequests
  Aliases <- MCAliases
  MaxKeys = 2

SPECIFICATION Spec

INVARIANTS
  TypeOK
  LiveKeysAnnounced
  RemovalsAnnounced

PROPERTIES
  RemovalsGetAnnounced
