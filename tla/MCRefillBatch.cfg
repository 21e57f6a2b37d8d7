CONSTANTS
  w1 = w1
  w2 = w2
  Workers <- MCWorkers
  MaxFetches = 5
  MaxFailures = 1
  LargestAnswer = 2

SPECIFICATION Spec

INVARIANTS
  TypeOK
  FailureOvershoot
  NoSendOnClosedResults
  NothingLeftBehind

PROPERTIES
  ImplementsContract
  Terminates
