CONSTANTS
  c1 = c1
  c2 = c2
  Clients <- MCClients
  LowWatermark = 2
  HighWatermark = 3
  PoolLowThreshold = 2
  EntropyPerKey = 2
  EntropyPerExport = 1
  RecordsPerFetch = 2
  LargestAnswer = 2
  MaxFailures = 2
  RefillWorkers = 1
  MaxOperations = 2
  MaxFaults = 0

SPECIFICATION Spec

INVARIANT PoolOkOnlyWhenReached

CHECK_DEADLOCK FALSE
