CONSTANTS
  c1 = c1
  c2 = c2
  Clients <- MCClients
  LowWatermark = 2
  HighWatermark = 3
  PoolLowThreshold = 2
  EntropyPerKey = 2
  EntropyPerExport = 2
  RecordsPerFetch = 2
  LargestAnswer = 3
  MaxFailures = 2
  RefillWorkers = 1
  MaxOperations = 2
  MaxFaults = 5

SPECIFICATION Spec

INVARIANTS
  TypeOK
  NeverOverfills
  OneOkPerDip
  RefillFailureBound
  TriggerNotLost

PROPERTIES
  LocalCountDrift
  LowPoolRecovers
  StopEndsScheduler

CHECK_DEADLOCK FALSE
