SPECIFICATION ContentionSpec
CONSTANTS
  NodeIds = {1, 2}
  ProcIds = {1, 2, 3}
  AgingInterval = 1
  One = 4096
  Steps = 256
  Ulps = {1, 2, 4, 8, 16, 32}
  HeartbeatTimeout = 0
  MaxNodes = 2
  MaxProcesses = 3
  DefaultAlgorithm = "least-loaded"
  Capacities <- OneSize
  Definitions <- LongOnly
  Scenarios <- Contended
  TickBound = 4
INVARIANTS
  LedgerExact
  Hosting
  WorkConserving
  TickIsConsistent
  ScheduleIsDetermined
PROPERTIES
  KeepsPromise
  StopsExactlyWhenStuck
CHECK_DEADLOCK FALSE
