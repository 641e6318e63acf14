SPECIFICATION ScheduledSpec
CONSTANTS
  NodeIds = {1, 2}
  ProcIds = {1, 2, 3}
  AgingInterval = 5
  One = 4096
  Steps = 256
  Ulps = {1, 2, 4, 8, 16, 32}
  HeartbeatTimeout = 0
  MaxNodes = 2
  MaxProcesses = 2
  DefaultAlgorithm = "least-loaded"
  Capacities <- OneSize
  Definitions <- LongOnly
  Scenarios <- Scheduled
  TickBound = 4
PROPERTIES
  KeepsPromise
  FailedTickIsInvisible
  TickEnds
